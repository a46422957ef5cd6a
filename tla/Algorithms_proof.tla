-------------------------- MODULE Algorithms_proof --------------------------
(* Proofs about the pure algorithms of the libraries: breakTime() and       *)
(* makeTime() of the Time library on every day of the unsigned 32-bit       *)
(* time_t, the codes of IRremote, every value of which is decoded as what   *)
(* was sent unless the gap before it is short, and the search of a          *)
(* recording for a radio frame.                                             *)
EXTENDS Calendar, IRCodes, PollReceiver, FiniteSetTheorems, SequenceTheorems, WellFoundedInduction, TLAPS

\* The end of the range.
LEMMA LastDayLemma ==
    LastDay = 49710 /\ LastSecond = 23295 /\ SECS_PER_DAY = 86400
  BY DEF LastDay, LastSecond, SECS_PER_DAY

\* Of the years of a 32-bit time_t every fourth one is a leap year but 2100.
LEMMA LeapYearLemma ==
    ASSUME NEW y \in 0 .. 136
    PROVE  LEAP_YEAR(y) <=> y % 4 = 2 /\ y # 130
  BY SMT DEF LEAP_YEAR

\* The rule of the walked calendar is the table of the code.
LEMMA LastOfMonthLemma ==
    ASSUME NEW d, d.Year \in 0 .. 136, d.Month \in 1 .. 12
    PROVE  LastOfMonth(d) = monthLength(d.Year, d.Month)
  <1>1. LEAP_YEAR(d.Year) <=> d.Year % 4 = 2 /\ d.Year # 130
    BY LeapYearLemma
  <1> QED
    BY <1>1, SMT DEF LastOfMonth, monthLength, monthDays

-----------------------------------------------------------------------------
\* Lengths of the years and of the months.
LEMMA LengthLemma ==
    ASSUME NEW y, NEW m \in 1 .. 12
    PROVE  monthLength(y, m) \in 28 .. 31
  BY SMT DEF monthLength, monthDays

\* Days of a common year before month m.
DaysBefore(m) ==
    CASE m = 1 -> 0 [] m = 2 -> 31 [] m = 3 -> 59 [] m = 4 -> 90
      [] m = 5 -> 120 [] m = 6 -> 151 [] m = 7 -> 181 [] m = 8 -> 212
      [] m = 9 -> 243 [] m = 10 -> 273 [] m = 11 -> 304 [] m = 12 -> 334
      [] OTHER -> 365

\* The loop over the months adds up the table, and the leap day behind February.
LEMMA DaysToMonthLemma ==
    ASSUME NEW y, NEW m \in 1 .. 13
    PROVE  daysToMonth(y, m) =
               DaysBefore(m) + (IF m > 2 /\ LEAP_YEAR(y) THEN 1 ELSE 0)
  <1> DEFINE total(n) == DaysBefore(n) + (IF n > 2 /\ LEAP_YEAR(y) THEN 1 ELSE 0)
             Loop(f) == [n \in 1 .. 13 |->
                IF n = 1 THEN 0 ELSE f[n - 1] + monthLength(y, n - 1)]
             days == CHOOSE f : f = Loop(f)
             sums == [n \in 1 .. 13 |-> total(n)]
  <1>1. ASSUME NEW n \in 2 .. 13
        PROVE  total(n) = total(n - 1) + monthLength(y, n - 1)
    BY SMT DEF DaysBefore, monthLength, monthDays
  <1>2. total(1) = 0
    BY SMT DEF DaysBefore
  <1>3. sums = Loop(sums)
    <2>1. ASSUME NEW n \in 1 .. 13
          PROVE  sums[n] = Loop(sums)[n]
      <3>1. CASE n = 1
        BY <3>1, <1>2
      <3>2. CASE n # 1
        <4>1. n \in 2 .. 13 /\ n - 1 \in 1 .. 13
          BY <3>2, SMT
        <4> HIDE DEF total
        <4>2. sums[n - 1] = total(n - 1)
          BY <4>1
        <4> QED
          BY <4>1, <4>2, <1>1, <3>2
      <3> QED
        BY <3>1, <3>2
    <2> HIDE DEF total
    <2> QED
      BY <2>1
  <1>4. days = Loop(days)
    BY <1>3
  <1>5. daysToMonth(y, m) = days[m]
    BY DEF daysToMonth
  <1> HIDE DEF days
  <1>6. /\ days[1] = 0
        /\ \A n \in 2 .. 13 : days[n] = days[n - 1] + monthLength(y, n - 1)
    BY <1>4
  <1> HIDE DEF total
  <1>7. days[1] = total(1) /\ days[2] = total(2) /\ days[3] = total(3)
    BY <1>1, <1>2, <1>6, SMT
  <1>8. days[4] = total(4) /\ days[5] = total(5) /\ days[6] = total(6)
    BY <1>1, <1>6, <1>7, SMT
  <1>9. days[7] = total(7) /\ days[8] = total(8) /\ days[9] = total(9)
    BY <1>1, <1>6, <1>8, SMT
  <1>10. days[10] = total(10) /\ days[11] = total(11)
    BY <1>1, <1>6, <1>9, SMT
  <1>11. days[12] = total(12) /\ days[13] = total(13)
    BY <1>1, <1>6, <1>10, SMT
  <1>12. days[m] = total(m)
    BY <1>7, <1>8, <1>9, <1>10, <1>11, SMT
  <1> QED
    BY <1>5, <1>12 DEF total

\* A later month begins behind the end of an earlier one.
LEMMA MonthsInOrder ==
    ASSUME NEW y, NEW m \in 1 .. 12, NEW k \in 1 .. 13, m < k
    PROVE  /\ daysToMonth(y, m + 1) <= daysToMonth(y, k)
           /\ daysToMonth(y, m + 1) = daysToMonth(y, m) + monthLength(y, m)
           /\ daysToMonth(y, m) \in Nat
  <1>1. m + 1 \in 1 .. 13 /\ m \in 1 .. 13
    BY SMT
  <1>2. /\ daysToMonth(y, m) =
              DaysBefore(m) + (IF m > 2 /\ LEAP_YEAR(y) THEN 1 ELSE 0)
        /\ daysToMonth(y, m + 1) =
              DaysBefore(m + 1) + (IF m + 1 > 2 /\ LEAP_YEAR(y) THEN 1 ELSE 0)
        /\ daysToMonth(y, k) =
              DaysBefore(k) + (IF k > 2 /\ LEAP_YEAR(y) THEN 1 ELSE 0)
    BY <1>1, DaysToMonthLemma
  <1>3. DaysBefore(m + 1) <= DaysBefore(k)
    BY SMT DEF DaysBefore
  <1>4. DaysBefore(m + 1) \in Nat /\ DaysBefore(m) \in Nat /\ DaysBefore(k) \in Nat
    BY SMT DEF DaysBefore
  <1>5. DaysBefore(m + 1) + (IF m + 1 > 2 /\ LEAP_YEAR(y) THEN 1 ELSE 0)
            = DaysBefore(m) + (IF m > 2 /\ LEAP_YEAR(y) THEN 1 ELSE 0)
                + monthLength(y, m)
    BY SMT DEF DaysBefore, monthLength, monthDays
  <1> QED
    BY <1>1, <1>2, <1>3, <1>4, <1>5, SMT

\* The twelve months make up the year.
LEMMA YearIsItsMonths ==
    ASSUME NEW y
    PROVE  daysToMonth(y, 1) = 0 /\ daysToMonth(y, 13) = yearLength(y)
  <1>1. /\ daysToMonth(y, 1) =
              DaysBefore(1) + (IF 1 > 2 /\ LEAP_YEAR(y) THEN 1 ELSE 0)
        /\ daysToMonth(y, 13) =
              DaysBefore(13) + (IF 13 > 2 /\ LEAP_YEAR(y) THEN 1 ELSE 0)
    BY DaysToMonthLemma
  <1> QED
    BY <1>1, SMT DEF DaysBefore, yearLength

-----------------------------------------------------------------------------
\* The leap years before a year are counted one by one.
LEMMA LeapYearsLemma ==
    ASSUME NEW y \in 0 .. 137
    PROVE  /\ IsFiniteSet(LeapYears(y))
           /\ Cardinality(LeapYears(y)) \in Nat
           /\ \A x \in 0 .. y :
                 Cardinality(LeapYears(x)) <= Cardinality(LeapYears(y))
  <1>1. IsFiniteSet(0 .. y - 1)
    BY FS_Interval
  <1>2. LeapYears(y) \in SUBSET (0 .. y - 1)
    BY DEF LeapYears
  <1>3. IsFiniteSet(LeapYears(y))
    BY <1>1, <1>2, FS_Subset
  <1>4. Cardinality(LeapYears(y)) \in Nat
    BY <1>3, FS_CardinalityType
  <1>5. ASSUME NEW x \in 0 .. y
        PROVE  Cardinality(LeapYears(x)) <= Cardinality(LeapYears(y))
    <2>1. 0 .. x - 1 \subseteq 0 .. y - 1
      BY SMT
    <2>2. LeapYears(x) \in SUBSET LeapYears(y)
      BY <2>1 DEF LeapYears
    <2> QED
      BY <2>2, <1>3, FS_Subset
  <1> QED
    BY <1>3, <1>4, <1>5

\* The days before year y are 365 a year and one more for each leap year
\* before it, and the next year begins a year's length later.
LEMMA NextYearLemma ==
    ASSUME NEW y \in 0 .. 136
    PROVE  /\ daysToYear[y] \in Nat
           /\ daysToYear[y] = 365 * y + Cardinality(LeapYears(y))
           /\ daysToYear[y + 1] = daysToYear[y] + yearLength(y)
  <1>1. y \in 0 .. 137 /\ y + 1 \in 0 .. 137
    BY SMT
  <1>2. /\ daysToYear[y] = 365 * y + Cardinality(LeapYears(y))
        /\ daysToYear[y + 1] = 365 * (y + 1) + Cardinality(LeapYears(y + 1))
    BY <1>1 DEF daysToYear
  <1>3. IsFiniteSet(LeapYears(y)) /\ Cardinality(LeapYears(y)) \in Nat
    BY <1>1, LeapYearsLemma, Zenon
  <1>4. \A x : x \in 0 .. (y + 1) - 1 <=> x \in 0 .. y - 1 \/ x = y
    BY SMT
  <1>5. CASE LEAP_YEAR(y)
    <2>1. LeapYears(y + 1) = LeapYears(y) \cup {y}
      BY <1>4, <1>5, Zenon DEF LeapYears
    <2>2. y \notin LeapYears(y)
      BY SMT DEF LeapYears
    <2>3. Cardinality(LeapYears(y + 1)) = Cardinality(LeapYears(y)) + 1
      BY <2>1, <2>2, <1>3, FS_AddElement
    <2> QED
      BY <1>2, <1>3, <1>5, <2>3, SMT DEF yearLength
  <1>6. CASE ~LEAP_YEAR(y)
    <2>1. LeapYears(y + 1) = LeapYears(y)
      BY <1>4, <1>6, Zenon DEF LeapYears
    <2> QED
      BY <1>2, <1>3, <1>6, <2>1, SMT DEF yearLength
  <1> QED
    BY <1>5, <1>6

\* 1970 begins on day 0; the last day of the range lies before 2107.
LEMMA YearRangeLemma == daysToYear[0] = 0 /\ daysToYear[137] > LastDay
  <1>1. /\ daysToYear[0] = 365 * 0 + Cardinality(LeapYears(0))
        /\ daysToYear[137] = 365 * 137 + Cardinality(LeapYears(137))
    BY DEF daysToYear
  <1>2. LeapYears(0) = {}
    BY SMT DEF LeapYears
  <1>3. Cardinality(LeapYears(0)) = 0
    BY <1>2, FS_EmptySet
  <1>4. Cardinality(LeapYears(137)) \in Nat
    <2>1. 137 \in 0 .. 137
      BY SMT
    <2> QED
      BY <2>1, LeapYearsLemma, Zenon
  <1> QED
    BY <1>1, <1>3, <1>4, LastDayLemma, SMT

\* A later year begins behind the end of an earlier one.
LEMMA YearsInOrder ==
    ASSUME NEW y \in 0 .. 136, NEW x \in 0 .. 136, y < x
    PROVE  daysToYear[y + 1] <= daysToYear[x]
  <1>1. y + 1 \in 0 .. 137 /\ x \in 0 .. 137 /\ y + 1 \in 0 .. x
    BY SMT
  <1>2. /\ daysToYear[y + 1] = 365 * (y + 1) + Cardinality(LeapYears(y + 1))
        /\ daysToYear[x] = 365 * x + Cardinality(LeapYears(x))
    BY <1>1 DEF daysToYear
  <1>3. /\ Cardinality(LeapYears(y + 1)) <= Cardinality(LeapYears(x))
        /\ Cardinality(LeapYears(y + 1)) \in Nat
        /\ Cardinality(LeapYears(x)) \in Nat
    BY <1>1, LeapYearsLemma, Zenon
  <1> QED
    BY <1>1, <1>2, <1>3, SMT

-----------------------------------------------------------------------------
\* The search over the years has one result, the loop's.
LEMMA YearFound ==
    ASSUME NEW d \in Nat, NEW y \in 0 .. 136,
           daysToYear[y] <= d, d < daysToYear[y + 1]
    PROVE  y = CHOOSE x \in 0 .. 136 : daysToYear[x] <= d /\ d < daysToYear[x + 1]
  <1>1. ASSUME NEW x \in 0 .. 136, daysToYear[x] <= d, d < daysToYear[x + 1]
        PROVE  x = y
    <2> DEFINE to(k) == daysToYear[k]
    <2>1. to(x) \in Nat /\ to(x + 1) \in Nat /\ to(y) \in Nat /\ to(y + 1) \in Nat
      <3>1. /\ to(x) \in Nat /\ to(x + 1) = to(x) + yearLength(x)
            /\ to(y) \in Nat /\ to(y + 1) = to(y) + yearLength(y)
        BY NextYearLemma
      <3> HIDE DEF to
      <3> QED
        BY <3>1, SMT DEF yearLength
    <2>2. x < y => to(x + 1) <= to(y)
      BY YearsInOrder, ZenonT(60)
    <2>3. y < x => to(y + 1) <= to(x)
      BY YearsInOrder, Zenon
    <2>4. to(x) <= d /\ d < to(x + 1) /\ to(y) <= d /\ d < to(y + 1)
      BY <1>1
    <2> HIDE DEF to
    <2> QED
      BY <2>1, <2>2, <2>3, <2>4, SMT
  <1> QED
    BY <1>1

\* So has the search over the months.
LEMMA MonthFound ==
    ASSUME NEW y, NEW rest \in Nat, NEW m \in 1 .. 12,
           daysToMonth(y, m) <= rest, rest < daysToMonth(y, m + 1)
    PROVE  m = CHOOSE k \in 1 .. 12 :
                  daysToMonth(y, k) <= rest /\ rest < daysToMonth(y, k + 1)
  <1> DEFINE to(k) == daysToMonth(y, k)
  <1>1. ASSUME NEW k \in 1 .. 12, to(k) <= rest, rest < to(k + 1)
        PROVE  k = m
    <2>1. to(k) \in Nat /\ to(k + 1) \in Nat /\ to(m) \in Nat /\ to(m + 1) \in Nat
      <3>1. /\ k < k + 1 /\ k + 1 \in 1 .. 13 /\ k \in Int /\ m \in Int
            /\ m < m + 1 /\ m + 1 \in 1 .. 13
        BY SMT
      <3>2. /\ to(k) \in Nat /\ to(k + 1) = to(k) + monthLength(y, k)
            /\ to(m) \in Nat /\ to(m + 1) = to(m) + monthLength(y, m)
        BY <3>1, MonthsInOrder
      <3> HIDE DEF to
      <3> QED
        BY <3>2, LengthLemma, SMT
    <2>2. k < m => to(k + 1) <= to(m)
      <3>1. m \in 1 .. 13
        BY SMT
      <3> QED
        BY <3>1, MonthsInOrder
    <2>3. m < k => to(m + 1) <= to(k)
      <3>1. k \in 1 .. 13
        BY SMT
      <3> QED
        BY <3>1, MonthsInOrder
    <2>4. to(m) <= rest /\ rest < to(m + 1)
      OBVIOUS
    <2> HIDE DEF to
    <2> QED
      BY <1>1, <2>1, <2>2, <2>3, <2>4, SMT
  <1> QED
    BY <1>1

-----------------------------------------------------------------------------
\* The values a date can have from 1970 to 2106.
Dates == [Year : 0 .. 136, Month : 1 .. 12, Day : 1 .. 31, Wday : 1 .. 7]

\* A date of the calendar that lies d days behind the first.
Falls(e, d) ==
    /\ e \in Dates
    /\ e.Day <= monthLength(e.Year, e.Month)
    /\ d = daysToYear[e.Year] + daysToMonth(e.Year, e.Month) + e.Day - 1
    /\ e.Wday = ((d + 4) % 7) + 1

\* The times a clock can show.
Times == [Hour : 0 .. 23, Minute : 0 .. 59, Second : 0 .. 59]

\* A clock that shows the second s of the day.
Shows(c, s) == c \in Times /\ s = makeSeconds(c)

LastOfDay == SECS_PER_DAY - 1

\* The inductive invariant: the date shown is a date, and the days of the
\* years and months before it and its own add up to the days walked; the
\* clock shows the second of the day.
DateInv ==
    /\ day \in 0 .. LastDay /\ Falls(date, day)
    /\ time \in 0 .. LastOfDay /\ Shows(clock, time)

\* The days of the year before a month are a number.
LEMMA DaysToMonthNat ==
    ASSUME NEW y, NEW m \in 1 .. 12
    PROVE  daysToMonth(y, m) \in Nat
  <1>1. m + 1 \in 1 .. 13 /\ m < m + 1
    BY SMT
  <1> QED
    BY <1>1, MonthsInOrder

\* The days of the week go round as the remainder by seven does.
LEMMA WeekLemma ==
    ASSUME NEW d \in Nat, NEW v, v = ((d + 4) % 7) + 1,
           NEW w, w = IF v = 7 THEN 1 ELSE v + 1
    PROVE  w = (((d + 1) + 4) % 7) + 1 /\ w \in 1 .. 7
  BY SMT

SecondsOf(h, m, x) == h * 3600 + m * 60 + x

\* The seconds of the day as hours, minutes and seconds.
DayTime(s, h, m, x) ==
    /\ s % 60 = x /\ (s \div 60) % 60 = m /\ (s \div 3600) % 24 = h
    /\ s \in 0 .. LastOfDay

\* What the seconds of the day are made of.
LEMMA SecondsLemma ==
    ASSUME NEW h \in 0 .. 23, NEW m \in 0 .. 59, NEW x \in 0 .. 59
    PROVE  DayTime(SecondsOf(h, m, x), h, m, x)
  <1> DEFINE s == h * 3600 + m * 60 + x
  <1>1. \A q \in Nat, k \in 0 .. 59 : (60 * q + k) % 60 = k
    BY SMT
  <1>2. \A q \in Nat, k \in 0 .. 59 : (60 * q + k) \div 60 = q
    BY SMT
  <1>3. \A q \in Nat, k \in 0 .. 3599 : (3600 * q + k) \div 3600 = q
    BY SMT
  <1>4. h % 24 = h
    BY SMT
  <1>5. /\ s = 60 * (60 * h + m) + x /\ 60 * h + m \in Nat
        /\ s = 3600 * h + (60 * m + x) /\ 60 * m + x \in 0 .. 3599 /\ h \in Nat
    BY SMT
  <1>6. s \in Int /\ 0 <= s /\ s <= 86399
    BY SMT
  <1> HIDE DEF s
  <1>7. s \in 0 .. LastOfDay
    <2>1. LastOfDay = 86399 /\ LastOfDay \in Int
      BY SMT DEF LastOfDay, SECS_PER_DAY
    <2>2. LastOfDay \in Int
      BY <2>1
    <2>3. s <= LastOfDay
      BY <1>6, <2>1, SMT
    <2> QED
      BY <1>6, <2>2, <2>3, SMT
  <1>8. s % 60 = x
    BY <1>1, <1>5, SMT
  <1>9. s \div 60 = 60 * h + m
    BY <1>2, <1>5, SMT
  <1>10. (s \div 60) % 60 = m
    BY <1>1, <1>9, SMT
  <1>11. s \div 3600 = h
    BY <1>3, <1>5, SMT
  <1> QED
    BY <1>4, <1>7, <1>8, <1>10, <1>11 DEF DayTime, s, SecondsOf

\* breakTime() reads the clock off the seconds of the day, makeTime() adds it up.
LEMMA ClockLemma ==
    ASSUME NEW c, NEW s, Shows(c, s)
    PROVE  breakClock(s) = c /\ makeSeconds(c) = s /\ s \in 0 .. LastOfDay
  <1>1. /\ c.Hour \in 0 .. 23 /\ c.Minute \in 0 .. 59 /\ c.Second \in 0 .. 59
        /\ c = [Hour |-> c.Hour, Minute |-> c.Minute, Second |-> c.Second]
        /\ s = makeSeconds(c)
    BY DEF Shows, Times
  <1>2. s = SecondsOf(c.Hour, c.Minute, c.Second)
    BY <1>1, SMT DEF makeSeconds, SecondsOf
  <1>3. DayTime(s, c.Hour, c.Minute, c.Second)
    <2>1. DayTime(SecondsOf(c.Hour, c.Minute, c.Second), c.Hour, c.Minute, c.Second)
      BY <1>1, SecondsLemma, Zenon
    <2> QED
      BY <1>2, <2>1
  <1>4. breakClock(s) = [Hour |-> c.Hour, Minute |-> c.Minute, Second |-> c.Second]
    BY <1>3, SMT DEF breakClock, DayTime
  <1>5. s \in 0 .. LastOfDay
    BY <1>3 DEF DayTime
  <1> QED
    BY <1>1, <1>4, <1>5

\* A second later the clock shows the next second, or midnight.
LEMMA SecondShows ==
    ASSUME NEW c, NEW s, Shows(c, s)
    PROVE  /\ s # LastOfDay => Shows(SecondAfter(c), s + 1) /\ SecondAfter(c) # Midnight
           /\ s = LastOfDay => Shows(SecondAfter(c), 0) /\ SecondAfter(c) = Midnight
  <1>1. c.Hour \in 0 .. 23 /\ c.Minute \in 0 .. 59 /\ c.Second \in 0 .. 59
    BY DEF Shows, Times
  <1>2. s = c.Hour * 3600 + c.Minute * 60 + c.Second
    BY SMT DEF makeSeconds, Shows
  <1> DEFINE full == c.Second = 59 /\ c.Minute = 59
             h == IF full THEN (IF c.Hour = 23 THEN 0 ELSE c.Hour + 1) ELSE c.Hour
             m == IF full THEN 0 ELSE IF c.Second = 59 THEN c.Minute + 1 ELSE c.Minute
             x == IF c.Second = 59 THEN 0 ELSE c.Second + 1
             e == SecondAfter(c)
  <1>3. e = [Hour |-> h, Minute |-> m, Second |-> x]
    BY Zenon DEF SecondAfter
  <1>4. h \in 0 .. 23 /\ m \in 0 .. 59 /\ x \in 0 .. 59
    BY <1>1, SMT
  <1>5. /\ s # LastOfDay => h * 3600 + m * 60 + x = s + 1
        /\ s = LastOfDay => h = 0 /\ m = 0 /\ x = 0
    <2>1. LastOfDay = 86399 /\ LastOfDay \in Int
      BY SMT DEF LastOfDay, SECS_PER_DAY
    <2> DEFINE H == c.Hour
               M == c.Minute
               X == c.Second
    <2>2. /\ H \in 0 .. 23 /\ M \in 0 .. 59 /\ X \in 0 .. 59
          /\ s = H * 3600 + M * 60 + X
      BY <1>1, <1>2
    <2> HIDE DEF H, M, X
    <2>3. s = LastOfDay <=> H = 23 /\ M = 59 /\ X = 59
      BY <2>1, <2>2, SMT
    <2>4. CASE X # 59
      <3>1. h = H /\ m = M /\ x = X + 1
        BY <2>4 DEF H, M, X
      <3> HIDE DEF h, m, x
      <3> QED
        BY <2>2, <2>3, <2>4, <3>1, SMT
    <2>5. CASE X = 59 /\ M # 59
      <3>1. h = H /\ m = M + 1 /\ x = 0
        BY <2>5 DEF H, M, X
      <3> HIDE DEF h, m, x
      <3> QED
        BY <2>2, <2>3, <2>5, <3>1, SMT
    <2>6. CASE X = 59 /\ M = 59 /\ H # 23
      <3>1. h = H + 1 /\ m = 0 /\ x = 0
        BY <2>6 DEF H, M, X
      <3> HIDE DEF h, m, x
      <3> QED
        BY <2>2, <2>3, <2>6, <3>1, SMT
    <2>7. CASE X = 59 /\ M = 59 /\ H = 23
      <3>1. h = 0 /\ m = 0 /\ x = 0
        BY <2>7 DEF H, M, X
      <3> HIDE DEF h, m, x
      <3> QED
        BY <2>3, <2>7, <3>1, Zenon
    <2> QED
      BY <2>4, <2>5, <2>6, <2>7, Zenon
  <1> HIDE DEF full, h, m, x
  <1>6. e.Hour = h /\ e.Minute = m /\ e.Second = x /\ e \in Times
    BY <1>3, <1>4 DEF Times
  <1> HIDE DEF e
  <1>7. makeSeconds(e) = h * 3600 + m * 60 + x
    BY <1>6, SMT DEF makeSeconds
  <1>8. e = Midnight <=> h = 0 /\ m = 0 /\ x = 0
    <2>1. ASSUME e = Midnight PROVE h = 0 /\ m = 0 /\ x = 0
      BY <1>6, <2>1 DEF Midnight
    <2>2. ASSUME h = 0, m = 0, x = 0 PROVE e = Midnight
      BY <1>3, <2>2 DEF e, Midnight
    <2> QED
      BY <2>1, <2>2, Zenon
  <1>9. ASSUME s # LastOfDay
        PROVE  makeSeconds(e) = s + 1 /\ e # Midnight
    <2>1. makeSeconds(e) = s + 1
      BY <1>5, <1>7, <1>9
    <2>2. h * 3600 + m * 60 + x = s + 1 /\ s \in Nat
      <3>1. s \in 0 .. LastOfDay
        BY ClockLemma
      <3> QED
        BY <1>5, <1>9, <3>1
    <2>3. ~(h = 0 /\ m = 0 /\ x = 0)
      BY <2>2, SMT
    <2> QED
      BY <1>8, <2>1, <2>3, Zenon
  <1>10. ASSUME s = LastOfDay
         PROVE  makeSeconds(e) = 0 /\ e = Midnight
    <2>1. h = 0 /\ m = 0 /\ x = 0
      BY <1>5, <1>10
    <2>2. makeSeconds(e) = 0
      BY <1>7, <2>1, SMT
    <2> QED
      BY <1>8, <2>1, <2>2, Zenon
  <1> QED
    BY <1>6, <1>9, <1>10, Zenon DEF Shows, e

\* The next day of a month.
LEMMA NextDayFalls ==
    ASSUME NEW e, NEW d \in Nat, Falls(e, d), e.Day # LastOfMonth(e), NEW w,
           w = IF e.Wday = 7 THEN 1 ELSE e.Wday + 1
    PROVE  Falls([Year |-> e.Year, Month |-> e.Month, Day |-> e.Day + 1,
                  Wday |-> w], d + 1)
  <1>1. /\ e.Year \in 0 .. 136 /\ e.Month \in 1 .. 12 /\ e.Day \in 1 .. 31
        /\ e.Wday \in 1 .. 7
    BY DEF Falls, Dates
  <1>2. e.Day < monthLength(e.Year, e.Month) /\ monthLength(e.Year, e.Month) \in 28 .. 31
    <2>1. LastOfMonth(e) = monthLength(e.Year, e.Month)
      BY <1>1, LastOfMonthLemma
    <2>2. e.Day <= monthLength(e.Year, e.Month)
      BY DEF Falls
    <2> QED
      BY <1>1, <2>1, <2>2, LengthLemma, SMT
  <1>3. daysToYear[e.Year] \in Nat /\ daysToMonth(e.Year, e.Month) \in Nat
    BY <1>1, NextYearLemma, DaysToMonthNat
  <1>4. w = (((d + 1) + 4) % 7) + 1 /\ w \in 1 .. 7
    BY WeekLemma DEF Falls
  <1>5. d + 1 = daysToYear[e.Year] + daysToMonth(e.Year, e.Month) + (e.Day + 1) - 1
    BY <1>1, <1>3, SMT DEF Falls
  <1>6. e.Day + 1 \in 1 .. 31 /\ e.Day + 1 <= monthLength(e.Year, e.Month)
    BY <1>1, <1>2, SMT
  <1> QED
    BY <1>1, <1>4, <1>5, <1>6, Zenon DEF Falls, Dates

\* The first day of the next month.
LEMMA NextMonthFalls ==
    ASSUME NEW e, NEW d \in Nat, Falls(e, d), e.Day = LastOfMonth(e),
           e.Month # 12, NEW w, w = IF e.Wday = 7 THEN 1 ELSE e.Wday + 1
    PROVE  Falls([Year |-> e.Year, Month |-> e.Month + 1, Day |-> 1,
                  Wday |-> w], d + 1)
  <1>1. /\ e.Year \in 0 .. 136 /\ e.Month \in 1 .. 12 /\ e.Day \in 1 .. 31
        /\ e.Month + 1 \in 1 .. 12
    BY SMT DEF Falls, Dates
  <1>2. e.Day = monthLength(e.Year, e.Month)
    BY <1>1, LastOfMonthLemma
  <1>3. /\ daysToYear[e.Year] \in Nat /\ daysToMonth(e.Year, e.Month) \in Nat
        /\ daysToMonth(e.Year, e.Month + 1)
              = daysToMonth(e.Year, e.Month) + monthLength(e.Year, e.Month)
        /\ 1 <= monthLength(e.Year, e.Month + 1)
    <2>1. e.Month + 1 \in 1 .. 13 /\ e.Month < e.Month + 1
      BY <1>1, SMT
    <2>2. monthLength(e.Year, e.Month + 1) \in 28 .. 31
      BY <1>1, LengthLemma
    <2>3. 1 <= monthLength(e.Year, e.Month + 1)
      BY <2>2, SMT
    <2> QED
      BY <1>1, <2>1, <2>3, NextYearLemma, MonthsInOrder, SMTT(30)
  <1>4. w = (((d + 1) + 4) % 7) + 1 /\ w \in 1 .. 7
    BY WeekLemma DEF Falls
  <1>5. d + 1 = daysToYear[e.Year] + daysToMonth(e.Year, e.Month + 1) + 1 - 1
    <2>1. d = daysToYear[e.Year] + daysToMonth(e.Year, e.Month) + e.Day - 1
      BY DEF Falls
    <2> QED
      BY <1>1, <1>2, <1>3, <2>1, SMT
  <1>6. 1 \in 1 .. 31
    BY SMT
  <1> QED
    BY <1>1, <1>3, <1>4, <1>5, <1>6, Zenon DEF Falls, Dates

\* The first day of the next year, as long as there is one in the range.
LEMMA NextYearFalls ==
    ASSUME NEW e, NEW d \in Nat, Falls(e, d), e.Day = LastOfMonth(e),
           e.Month = 12, d < LastDay,
           NEW w, w = IF e.Wday = 7 THEN 1 ELSE e.Wday + 1
    PROVE  Falls([Year |-> e.Year + 1, Month |-> 1, Day |-> 1, Wday |-> w], d + 1)
  <1>1. /\ e.Year \in 0 .. 136 /\ e.Month \in 1 .. 12 /\ e.Day \in 1 .. 31
    BY DEF Falls, Dates
  <1>2. e.Day = monthLength(e.Year, 12)
    BY <1>1, LastOfMonthLemma
  <1>3. /\ daysToYear[e.Year] \in Nat /\ daysToMonth(e.Year, 12) \in Nat
        /\ daysToYear[e.Year + 1] = daysToYear[e.Year] + yearLength(e.Year)
        /\ yearLength(e.Year) = daysToMonth(e.Year, 12) + monthLength(e.Year, 12)
    <2>1. 12 + 1 = 13 /\ 12 \in 1 .. 12 /\ 13 \in 1 .. 13 /\ 12 < 13
      BY SMT
    <2>2. /\ daysToMonth(e.Year, 13)
                = daysToMonth(e.Year, 12) + monthLength(e.Year, 12)
          /\ daysToMonth(e.Year, 12) \in Nat
      BY <2>1, MonthsInOrder
    <2>3. yearLength(e.Year) = daysToMonth(e.Year, 13)
      BY YearIsItsMonths
    <2> QED
      BY <1>1, <2>2, <2>3, NextYearLemma
  <1>4. w = (((d + 1) + 4) % 7) + 1 /\ w \in 1 .. 7
    BY WeekLemma DEF Falls
  <1>5. d + 1 = daysToYear[e.Year + 1]
    <2>1. d = daysToYear[e.Year] + daysToMonth(e.Year, 12) + e.Day - 1
      BY DEF Falls
    <2> QED
      BY <1>1, <1>2, <1>3, <2>1, SMT
  <1>6. e.Year + 1 \in 0 .. 136
    <2>1. e.Year # 136
      <3>1. SUFFICES ASSUME e.Year = 136
                     PROVE  FALSE
        OBVIOUS
      <3>2. 136 + 1 = 137
        BY SMT
      <3>3. d + 1 = daysToYear[137]
        BY <1>5, <3>1, <3>2
      <3>4. daysToYear[137] > LastDay
        BY YearRangeLemma
      <3> QED
        BY <3>3, <3>4, LastDayLemma, SMT
    <2> QED
      BY <1>1, <2>1, SMT
  <1>7. /\ daysToMonth(e.Year + 1, 1) = 0
        /\ 1 <= monthLength(e.Year + 1, 1)
    <2>1. 1 \in 1 .. 12
      BY SMT
    <2>2. monthLength(e.Year + 1, 1) \in 28 .. 31
      BY <2>1, LengthLemma
    <2>3. 1 <= monthLength(e.Year + 1, 1)
      BY <2>2, SMT
    <2> QED
      BY <2>3, YearIsItsMonths
  <1>8. d + 1 = daysToYear[e.Year + 1] + daysToMonth(e.Year + 1, 1) + 1 - 1
    BY <1>5, <1>7, SMT
  <1>9. 1 \in 1 .. 31 /\ 1 \in 1 .. 12
    BY SMT
  <1> QED
    BY <1>4, <1>6, <1>7, <1>8, <1>9, Zenon DEF Falls, Dates

-----------------------------------------------------------------------------
\* The first day, Thursday 1 January 1970, satisfies the invariant.
LEMMA InitInvariant == Init => DateInv
  <1> SUFFICES ASSUME Init
               PROVE  DateInv
    OBVIOUS
  <1>1. date = [Year |-> 0, Month |-> 1, Day |-> 1, Wday |-> 5] /\ day = 0
    BY DEF Init
  <1>2. 0 \in 0 .. 136 /\ 1 \in 1 .. 12 /\ 1 \in 1 .. 31 /\ 5 \in 1 .. 7
    BY SMT
  <1>3. daysToYear[0] = 0 /\ daysToMonth(0, 1) = 0
    BY YearRangeLemma, YearIsItsMonths
  <1>4. 1 <= monthLength(0, 1)
    BY SMT DEF monthLength, monthDays
  <1>5. 0 = daysToYear[0] + daysToMonth(0, 1) + 1 - 1 /\ 5 = ((0 + 4) % 7) + 1
    BY <1>3, SMT
  <1>6. Falls(date, 0)
    BY <1>1, <1>2, <1>4, <1>5, Zenon DEF Falls, Dates
  <1>7. 0 \in 0 .. LastDay /\ 0 \in 0 .. LastOfDay
    BY SMT DEF LastDay, LastOfDay, SECS_PER_DAY
  <1>8. Shows(clock, 0) /\ time = 0
    <2>1. clock = [Hour |-> 0, Minute |-> 0, Second |-> 0] /\ time = 0
      BY DEF Init, Midnight
    <2>2. 0 \in 0 .. 23 /\ 0 \in 0 .. 59
      BY SMT
    <2>3. makeSeconds(clock) = 0
      BY <2>1, SMT DEF makeSeconds
    <2> QED
      BY <2>1, <2>2, <2>3 DEF Shows, Times
  <1> QED
    BY <1>1, <1>6, <1>7, <1>8 DEF DateInv

\* The date of the next day lies one day later.
LEMMA DayAfterFalls ==
    ASSUME NEW e, NEW d \in Nat, Falls(e, d), d < LastDay
    PROVE  Falls(DayAfter(e), d + 1)
  <1> DEFINE last == e.Day = LastOfMonth(e)
             w == IF e.Wday = 7 THEN 1 ELSE e.Wday + 1
  <1>1. CASE ~last
    <2>1. DayAfter(e) = [Year |-> e.Year, Month |-> e.Month, Day |-> e.Day + 1,
                         Wday |-> w]
      BY <1>1 DEF DayAfter
    <2> QED
      BY <1>1, <2>1, NextDayFalls
  <1>2. CASE last /\ e.Month # 12
    <2>1. DayAfter(e) = [Year |-> e.Year, Month |-> e.Month + 1, Day |-> 1, Wday |-> w]
      BY <1>2 DEF DayAfter
    <2> QED
      BY <1>2, <2>1, NextMonthFalls
  <1>3. CASE last /\ e.Month = 12
    <2>1. DayAfter(e) = [Year |-> e.Year + 1, Month |-> 1, Day |-> 1, Wday |-> w]
      BY <1>3 DEF DayAfter
    <2> QED
      BY <1>3, <2>1, NextYearFalls
  <1> QED
    BY <1>1, <1>2, <1>3

\* The date advances as the days do, and the clock as the seconds do: the date
\* goes on at the midnight of the clock and at no other second.
LEMMA NextInvariant == DateInv /\ [Next]_vars => DateInv'
  <1> SUFFICES ASSUME DateInv, [Next]_vars
               PROVE  DateInv'
    OBVIOUS
  <1>a. LastDay \in Nat /\ LastOfDay \in Nat /\ SECS_PER_DAY - 1 = LastOfDay
    BY SMT DEF LastDay, LastOfDay, SECS_PER_DAY
  <1>b. LastSecond < LastOfDay /\ LastSecond \in Nat
    BY SMT DEF LastSecond, LastOfDay, SECS_PER_DAY
  <1>0. /\ day \in 0 .. LastDay /\ day \in Nat /\ Falls(date, day)
        /\ time \in 0 .. LastOfDay /\ Shows(clock, time)
    BY <1>a DEF DateInv
  <1>1. SUFFICES /\ day' \in 0 .. LastDay /\ Falls(date', day')
                 /\ time' \in 0 .. LastOfDay /\ Shows(clock', time')
    BY DEF DateInv, Falls, Shows
  <1>2. CASE UNCHANGED vars
    <2>1. UNCHANGED <<day, time, date, clock>>
      BY <1>2 DEF vars
    <2> QED
      BY <1>0, <2>1
  <1>3. CASE NextSecond
    <2>1. clock' = SecondAfter(clock) /\ date' = IF clock' = Midnight THEN DayAfter(date) ELSE date
      BY <1>3 DEF NextSecond
    <2>2. CASE time # LastOfDay
      <3>1. time' = time + 1 /\ day' = day
        BY <1>0, <1>a, <1>b, <1>3, <2>2 DEF NextSecond
      <3>2. Shows(clock', time') /\ clock' # Midnight
        BY <1>0, <2>1, <2>2, <3>1, SecondShows
      <3>3. time' \in 0 .. LastOfDay
        BY <1>0, <1>a, <2>2, <3>1
      <3> QED
        BY <1>0, <2>1, <3>1, <3>2, <3>3
    <2>3. CASE time = LastOfDay
      <3>1. time' = 0 /\ day' = day + 1 /\ day < LastDay
        BY <1>0, <1>a, <1>b, <1>3, <2>3 DEF NextSecond
      <3>2. Shows(clock', time') /\ clock' = Midnight
        BY <1>0, <2>1, <2>3, <3>1, SecondShows
      <3>3. Falls(date', day')
        BY <1>0, <2>1, <3>1, <3>2, DayAfterFalls
      <3>4. day' \in 0 .. LastDay /\ time' \in 0 .. LastOfDay
        BY <1>0, <1>a, <3>1
      <3> QED
        BY <3>2, <3>3, <3>4
    <2> QED
      BY <1>0, <2>2, <2>3
  <1>4. CASE NextDay
    <2>1. day' = day + 1 /\ day < LastDay /\ date' = DayAfter(date)
          /\ UNCHANGED <<time, clock>>
      BY <1>0, <1>a, <1>4 DEF NextDay
    <2>2. Falls(date', day')
      BY <1>0, <2>1, DayAfterFalls
    <2>3. day' \in 0 .. LastDay
      BY <1>0, <1>a, <2>1
    <2> QED
      BY <1>0, <2>1, <2>2, <2>3
  <1> QED
    BY <1>2, <1>3, <1>4 DEF Next

\* At every second walked to, the date is a date of the calendar and lies as many
\* days behind 1 January 1970 as breakTime() is given, and the clock shows a time
\* as many seconds behind midnight (Time.cpp, lines 159-200).
THEOREM DateFollowsDay == Spec => []DateInv
  <1> QED
    BY InitInvariant, NextInvariant, PTL DEF Spec

\* breakTime()'s two loops stop at the date's year and month.
LEMMA BreakLemma == DateInv => BreaksToDate
  <1>0. ASSUME DateInv PROVE breakClock(time) = clock
    BY <1>0, ClockLemma DEF DateInv
  <1> SUFFICES ASSUME DateInv
               PROVE  breakDate(day) = date
    BY <1>0 DEF BreaksToDate
  <1> DEFINE y == date.Year
             m == date.Month
             rest == day - daysToYear[y]
  <1>1. /\ y \in 0 .. 136 /\ m \in 1 .. 12 /\ date.Day \in 1 .. 31
        /\ date.Day <= monthLength(y, m)
        /\ day = daysToYear[y] + daysToMonth(y, m) + date.Day - 1
        /\ date.Wday = ((day + 4) % 7) + 1
        /\ date = [Year |-> y, Month |-> m, Day |-> date.Day, Wday |-> date.Wday]
    BY Zenon DEF DateInv, Falls, Dates
  <1>2. /\ daysToYear[y] \in Nat /\ daysToYear[y + 1] = daysToYear[y] + yearLength(y)
        /\ daysToMonth(y, m) \in Nat
        /\ daysToMonth(y, m + 1) = daysToMonth(y, m) + monthLength(y, m)
        /\ daysToMonth(y, m + 1) <= daysToMonth(y, 13)
        /\ daysToMonth(y, 13) = yearLength(y)
        /\ monthLength(y, m) \in 28 .. 31
    <2>1. /\ m + 1 \in 1 .. 13 /\ m < m + 1 /\ 13 \in 1 .. 13 /\ m < 13
      BY <1>1, SMT
    <2>2. /\ daysToMonth(y, m) \in Nat
          /\ daysToMonth(y, m + 1) = daysToMonth(y, m) + monthLength(y, m)
          /\ daysToMonth(y, m + 1) <= daysToMonth(y, 13)
      BY <1>1, <2>1, MonthsInOrder
    <2> QED
      BY <1>1, <2>2, NextYearLemma, YearIsItsMonths, LengthLemma, SMTT(30)
  <1> HIDE DEF y, m
  <1>3. /\ day \in Nat /\ rest \in Nat /\ rest = daysToMonth(y, m) + date.Day - 1
        /\ daysToYear[y] <= day /\ day < daysToYear[y + 1]
        /\ daysToMonth(y, m) <= rest /\ rest < daysToMonth(y, m + 1)
        /\ rest - daysToMonth(y, m) + 1 = date.Day
    <2> DEFINE Y == daysToYear[y]
               Z == daysToYear[y + 1]
               M == daysToMonth(y, m)
               N == daysToMonth(y, m + 1)
               l == monthLength(y, m)
               d == date.Day
    <2>1. /\ Y \in Nat /\ M \in Nat /\ l \in 28 .. 31 /\ d \in 1 .. 31 /\ d <= l
          /\ N = M + l /\ day = Y + M + d - 1 /\ rest = day - Y
      BY <1>1, <1>2
    <2>2. yearLength(y) \in Nat /\ Z = Y + yearLength(y) /\ N <= yearLength(y)
      BY <1>2, SMT DEF yearLength
    <2> HIDE DEF Y, Z, M, N, l, d, rest
    <2>3. /\ day \in Nat /\ rest \in Nat /\ rest = M + d - 1 /\ Y <= day /\ day < Z
          /\ M <= rest /\ rest < N /\ rest - M + 1 = d
      BY <2>1, <2>2, SMT
    <2> QED
      BY <2>3 DEF Y, Z, M, N, d
  <1>4. y = CHOOSE x \in 0 .. 136 : daysToYear[x] <= day /\ day < daysToYear[x + 1]
    BY <1>1, <1>3, YearFound, Zenon
  <1>5. m = CHOOSE k \in 1 .. 12 :
               daysToMonth(y, k) <= rest /\ rest < daysToMonth(y, k + 1)
    BY <1>1, <1>3, MonthFound
  <1>6. breakDate(day) = [Year |-> y, Month |-> m,
                          Day |-> rest - daysToMonth(y, m) + 1,
                          Wday |-> ((day + 4) % 7) + 1]
    BY <1>4, <1>5, Zenon DEF breakDate
  <1> QED
    BY <1>1, <1>3, <1>6

\* breakTime() finds year, month, day, day of the week, hour, minute and second
\* of every second of the unsigned 32-bit time_t (Time.cpp, lines 159-202).
THEOREM BreakTimeIsRight == Spec => []BreaksToDate
  <1> QED
    BY DateFollowsDay, BreakLemma, PTL

\* makeTime() gets back the days and the seconds of the day from what breakTime()
\* found (Time.cpp, lines 212-233).
THEOREM MakeTimeIsItsInverse == Spec => []MakesTimeAgain
  <1>1. DateInv => MakesTimeAgain
    <2> SUFFICES ASSUME DateInv
                 PROVE  MakesTimeAgain
      OBVIOUS
    <2>1. breakDate(day) = date /\ breakClock(time) = clock
      BY BreakLemma DEF BreaksToDate
    <2>2. /\ date.Year \in 0 .. 136
          /\ day = daysToYear[date.Year] + daysToMonth(date.Year, date.Month)
                      + date.Day - 1
      BY DEF DateInv, Falls, Dates
    <2>3. daysToYear[date.Year] = 365 * date.Year + Cardinality(LeapYears(date.Year))
      BY <2>2, NextYearLemma
    <2>4. date.Year * 365 = 365 * date.Year
      BY <2>2, SMT
    <2>5. makeDays(date) = day
      BY <2>2, <2>3, <2>4, Zenon DEF makeDays
    <2>6. makeSeconds(clock) = time
      BY ClockLemma DEF DateInv
    <2> QED
      BY <2>1, <2>5, <2>6 DEF MakesTimeAgain
  <1> QED
    BY <1>1, DateFollowsDay, PTL

-----------------------------------------------------------------------------
(* The codes of IRremote.                                                   *)

\* A set of naturals has a least element.
LEMMA LeastLemma ==
    ASSUME NEW T, T \subseteq Nat, T # {}
    PROVE  \E x \in T : \A y \in T : x <= y
  <1>1. \E x \in T : \A y \in T : ~(<<y, x>> \in OpToRel(<, Nat))
    BY NatLessThanWellFounded, WFMin, Zenon
  <1>2. PICK x \in T : \A y \in T : ~(<<y, x>> \in OpToRel(<, Nat))
    BY <1>1, Zenon
  <1>3. ASSUME NEW y \in T
        PROVE  x <= y
    <2>1. x \in Nat /\ y \in Nat /\ ~(<<y, x>> \in OpToRel(<, Nat))
      BY <1>2, Zenon
    <2> QED
      BY <2>1, SMT DEF OpToRel
  <1> QED
    BY <1>3

\* Induction over 0 .. N: the set S stands for the property.
LEMMA InductionLemma ==
    ASSUME NEW N \in Nat, NEW S, 0 \in S,
           \A n \in 0 .. N - 1 : n \in S => n + 1 \in S
    PROVE  \A n \in 0 .. N : n \in S
  <1> DEFINE T == (0 .. N) \ S
  <1>1. SUFFICES ASSUME T # {}
                 PROVE  FALSE
    OBVIOUS
  <1>2. T \subseteq Nat
    BY SMT
  <1>3. PICK x \in T : \A y \in T : x <= y
    BY <1>1, <1>2, LeastLemma
  <1>4. x - 1 \in 0 .. N - 1 /\ x - 1 \in S
    <2>1. x # 0 /\ x \in 0 .. N
      OBVIOUS
    <2>2. x - 1 \in 0 .. N - 1 /\ x - 1 \in 0 .. N /\ ~(x <= x - 1)
      BY <2>1, SMT
    <2>3. x - 1 \notin T
      BY <2>2, <1>3
    <2> QED
      BY <2>2, <2>3
  <1>5. (x - 1) + 1 = x
    BY SMT
  <1> QED
    BY <1>4, <1>5

-----------------------------------------------------------------------------
\* A mark is recorded up to 200 us longer than it is, a space as much shorter.
MarkTicks(t, us) == t \in Nat /\ us < 50 * t /\ 50 * t < us + 200
\* A space of us microseconds recorded as t ticks: the detector shortens
\* it, by 150 at most, and the tick timer rounds by at most one tick.
SpaceTicks(t, us) == t \in Nat /\ us < 50 * t + 200 /\ 50 * t < us

\* What is measured of a length is a number of ticks within these bounds.
LEMMA TicksLemma ==
    ASSUME NEW us \in Nat, us >= 200, NEW e \in 50 .. 150, NEW p \in 0 .. 49
    PROVE  /\ MarkTicks((us + p + e) \div 50, us)
           /\ SpaceTicks((us + p + -e) \div 50, us)
  BY SMT DEF MarkTicks, SpaceTicks

\* The margins of 25 percent and a tick take in every measurement.
LEMMA MarkMatches ==
    ASSUME NEW us \in Nat, us >= 300, NEW t, MarkTicks(t, us)
    PROVE  MATCH_MARK(t, us)
  BY SMT DEF MarkTicks, MATCH_MARK, MATCH, MARK_EXCESS

\* A space recorded so is accepted by MATCH_SPACE() for the length that
\* was sent.
LEMMA SpaceMatches ==
    ASSUME NEW us \in Nat, us >= 300, NEW t, SpaceTicks(t, us)
    PROVE  MATCH_SPACE(t, us)
  BY SMT DEF SpaceTicks, MATCH_SPACE, MATCH, MARK_EXCESS

\* A recording of a line: the gap, and a number of ticks for each period.
Heard(h, line) ==
    /\ h.rawlen = Len(line) + 1 /\ h.rawbuf[0] \in Nat
    /\ \A i \in 1 .. Len(line) :
          IF i % 2 = 1 THEN MarkTicks(h.rawbuf[i], line[i].us)
          ELSE SpaceTicks(h.rawbuf[i], line[i].us)

\* A pattern of elements of a set consists of such elements throughout.
LEMMA RepeatedLemma ==
    ASSUME NEW S, NEW pattern \in Seq(S), pattern # <<>>, NEW i \in Nat, i >= 1
    PROVE  Repeated(pattern, i) \in S
  <1>1. PICK n \in Nat : n = Len(pattern) /\ n > 0
    BY LenProperties, EmptySeq
  <1>2. ((i - 1) % n) + 1 \in 1 .. n
    BY <1>1, SMT
  <1> QED
    BY <1>1, <1>2, ElementOfSeq DEF Repeated

\* What the timer interrupt records of a line stays within these
\* margins, whatever the detector's excess and the timer's phase at each edge.
LEMMA MeasuredLemma ==
    ASSUME NEW line, Len(line) \in Nat, Len(line) < RAWBUF,
           \A i \in 1 .. Len(line) : line[i].us \in Nat /\ line[i].us >= 200,
           NEW excess \in Excesses, NEW phase \in Phases,
           NEW gap \in Nat, NEW stale
    PROVE  Heard(Measured(line, excess, phase, gap, stale), line)
  <1> DEFINE h == Measured(line, excess, phase, gap, stale)
  <1>1. /\ RAWBUF \in Nat /\ RAWBUF >= 100
        /\ excess \in Seq(50 .. 150) /\ excess # <<>> /\ phase \in Seq(0 .. 49) /\ phase # <<>>
    BY CodesAssumption
  <1>2. h.rawlen = Len(line) + 1 /\ h.rawbuf[0] \in Nat
    <2>1. h.rawlen = Len(line) + 1
      BY DEF Measured
    <2>2. 0 \in 0 .. RAWBUF - 1
      BY <1>1, SMT
    <2> QED
      BY <2>1, <2>2 DEF Measured
  <1>3. ASSUME NEW i \in 1 .. Len(line)
        PROVE  IF i % 2 = 1 THEN MarkTicks(h.rawbuf[i], line[i].us)
               ELSE SpaceTicks(h.rawbuf[i], line[i].us)
    <2> DEFINE us == line[i].us
               e == Repeated(excess, i)
               p == Repeated(phase, i)
    <2>1. i \in 0 .. RAWBUF - 1 /\ i # 0 /\ ~(i > Len(line)) /\ i \in Nat /\ i >= 1
      BY <1>1, SMT
    <2>2. h.rawbuf[i] = (us + p + (IF i % 2 = 1 THEN e ELSE -e)) \div 50
      BY <2>1 DEF Measured
    <2>9. e \in 50 .. 150 /\ p \in 0 .. 49
      BY <1>1, <2>1, RepeatedLemma
    <2>3. us \in Nat /\ us >= 200
      BY SMTT(30)
    <2> HIDE DEF us, h, e, p
    <2>4. CASE i % 2 = 1
      <3>1. MarkTicks((us + p + e) \div 50, us)
        BY <2>9, <2>3, TicksLemma
      <3>2. h.rawbuf[i] = (us + p + e) \div 50
        BY <2>2, <2>4
      <3> QED
        BY <2>4, <3>1, <3>2, Zenon DEF us
    <2>5. CASE i % 2 # 1
      <3>1. SpaceTicks((us + p + -e) \div 50, us)
        BY <2>9, <2>3, TicksLemma
      <3>2. h.rawbuf[i] = (us + p + -e) \div 50
        BY <2>2, <2>5
      <3> QED
        BY <2>5, <3>1, <3>2, Zenon DEF us
    <2> QED
      BY <2>4, <2>5
  <1> QED
    BY <1>2, <1>3 DEF Heard
-----------------------------------------------------------------------------
\* A piece of the signal: a level and how long it lasts.
Pulses == [level : {"MARK", "SPACE"}, us : Nat]

\* Joining a signal pulse by pulse is a function of how many there are.
JoinedFrom(signal, n, f) == IF n = 0 THEN <<>> ELSE Join(f[n - 1], signal[n])

\* The recursive function that joins pulses of equal level is well
\* defined.
LEMMA JoinedExists ==
    ASSUME NEW signal, NEW N \in Nat
    PROVE  \E f : f = [n \in 0 .. N |-> JoinedFrom(signal, n, f)]
  <1> DEFINE S == {k \in 0 .. N :
                     \E f : f = [n \in 0 .. k |-> JoinedFrom(signal, n, f)]}
  <1>1. 0 \in S
    <2> DEFINE f == [n \in 0 .. 0 |-> <<>>]
    <2>1. f = [n \in 0 .. 0 |-> JoinedFrom(signal, n, f)]
      BY DEF JoinedFrom
    <2>2. 0 \in 0 .. N
      BY SMT
    <2> QED
      BY <2>1, <2>2
  <1>2. ASSUME NEW k \in 0 .. N - 1, k \in S
        PROVE  k + 1 \in S
    <2>1. PICK f : f = [n \in 0 .. k |-> JoinedFrom(signal, n, f)]
      BY <1>2
    <2> DEFINE g == [n \in 0 .. k + 1 |->
                       IF n = k + 1 THEN Join(f[k], signal[k + 1]) ELSE f[n]]
    <2>2. ASSUME NEW n \in 0 .. k + 1
          PROVE  g[n] = JoinedFrom(signal, n, g)
      <3>1. CASE n = k + 1
        <4>1. n # 0 /\ n - 1 = k /\ k \in 0 .. k + 1 /\ k # k + 1
          BY <3>1, SMT
        <4>2. g[n] = Join(f[k], signal[k + 1]) /\ g[k] = f[k]
          BY <3>1, <4>1
        <4> QED
          BY <3>1, <4>1, <4>2 DEF JoinedFrom
      <3>2. CASE n # k + 1
        <4>1. n \in 0 .. k
          BY <3>2, SMT
        <4>2. g[n] = f[n] /\ f[n] = JoinedFrom(signal, n, f)
          BY <2>1, <3>2, <4>1
        <4>3. n # 0 => g[n - 1] = f[n - 1]
          <5>1. n # 0 => n - 1 \in 0 .. k + 1 /\ n - 1 # k + 1
            BY <4>1, SMT
          <5> QED
            BY <5>1
        <4> HIDE DEF g
        <4> QED
          BY <4>2, <4>3 DEF JoinedFrom
      <3> QED
        BY <3>1, <3>2
    <2>3. g = [n \in 0 .. k + 1 |-> JoinedFrom(signal, n, g)]
      <3>1. g = [n \in 0 .. k + 1 |-> g[n]]
        OBVIOUS
      <3> HIDE DEF g
      <3> QED
        BY <2>2, <3>1
    <2>4. k + 1 \in 0 .. N
      BY SMT
    <2> QED
      BY <2>3, <2>4
  <1>3. N \in 0 .. N
    BY SMT
  <1>4. N \in S
    <2> HIDE DEF S
    <2> QED
      BY <1>1, <1>2, <1>3, InductionLemma
  <1> QED
    BY <1>4

\* What the line carries of a signal is the last value of such a function.
LEMMA PeriodsLemma ==
    ASSUME NEW signal, Len(signal) \in Nat
    PROVE  \E f : /\ f[0] = <<>>
                  /\ \A n \in 1 .. Len(signal) : f[n] = Join(f[n - 1], signal[n])
                  /\ Periods(signal) =
                        IF Last(f[Len(signal)]).level = "SPACE"
                        THEN Front(f[Len(signal)]) ELSE f[Len(signal)]
  <1> DEFINE f == CHOOSE g :
                    g = [n \in 0 .. Len(signal) |-> JoinedFrom(signal, n, g)]
  <1>1. f = [n \in 0 .. Len(signal) |-> JoinedFrom(signal, n, f)]
    BY JoinedExists
  <1>2. Periods(signal) = IF Last(f[Len(signal)]).level = "SPACE"
                          THEN Front(f[Len(signal)]) ELSE f[Len(signal)]
    BY DEF Periods, JoinedFrom
  <1> HIDE DEF f
  <1>3. f[0] = <<>>
    <2>1. 0 \in 0 .. Len(signal)
      BY SMT
    <2> QED
      BY <1>1, <2>1 DEF JoinedFrom
  <1>4. ASSUME NEW n \in 1 .. Len(signal)
        PROVE  f[n] = Join(f[n - 1], signal[n])
    <2>1. n \in 0 .. Len(signal) /\ n # 0
      BY SMT
    <2> QED
      BY <1>1, <2>1 DEF JoinedFrom
  <1> QED
    BY <1>2, <1>3, <1>4

\* Nothing is joined where marks and spaces alternate already.
LEMMA AlternatingLemma ==
    ASSUME NEW signal \in Seq(Pulses), signal # <<>>,
           \A n \in 1 .. Len(signal) - 1 : signal[n].level # signal[n + 1].level
    PROVE  Periods(signal) =
              IF Last(signal).level = "SPACE" THEN Front(signal) ELSE signal
  <1> DEFINE N == Len(signal)
  <1>1. N \in Nat /\ N >= 1 /\ (\A n \in 1 .. N : signal[n] \in Pulses)
    BY EmptySeq, LenProperties, ElementOfSeq, SMT
  <1>2. PICK f : /\ f[0] = <<>>
                 /\ \A n \in 1 .. N : f[n] = Join(f[n - 1], signal[n])
                 /\ Periods(signal) = IF Last(f[N]).level = "SPACE"
                                      THEN Front(f[N]) ELSE f[N]
    BY <1>1, PeriodsLemma
  <1> DEFINE S == {n \in 0 .. N : /\ f[n] \in Seq(Pulses) /\ Len(f[n]) = n
                                  /\ \A k \in 1 .. n : f[n][k] = signal[k]}
  <1>3. 0 \in S
    <2>1. 0 \in 0 .. N /\ 1 .. 0 = {}
      BY <1>1, SMT
    <2> QED
      BY <1>2, <2>1, EmptySeq
  <1>4. ASSUME NEW n \in 0 .. N - 1, n \in S
        PROVE  n + 1 \in S
    <2> DEFINE l == f[n]
               p == signal[n + 1]
    <2>1. /\ n \in Nat /\ n + 1 \in 1 .. N /\ n + 1 \in 0 .. N /\ (n + 1) - 1 = n
          /\ p \in Pulses
      BY <1>1, SMT
    <2>2. l \in Seq(Pulses) /\ Len(l) = n /\ \A k \in 1 .. n : l[k] = signal[k]
      BY <1>4
    <2>3. f[n + 1] = Join(l, p)
      BY <1>2, <2>1
    <2>4. ~(l # <<>> /\ Last(l).level = p.level)
      <3>1. CASE n = 0
        BY <2>2, <3>1, EmptySeq
      <3>2. CASE n # 0
        <4>1. n \in 1 .. n /\ n \in 1 .. N - 1
          BY <2>1, <3>2, SMT
        <4>2. Last(l) = signal[n]
          BY <2>2, <4>1 DEF Last
        <4> QED
          BY <4>1, <4>2
      <3> QED
        BY <3>1, <3>2
    <2>5. f[n + 1] = Append(l, p)
      BY <2>3, <2>4 DEF Join
    <2> HIDE DEF l, p
    <2>6. /\ Append(l, p) \in Seq(Pulses) /\ Len(Append(l, p)) = n + 1
          /\ \A k \in 1 .. n : Append(l, p)[k] = l[k]
          /\ Append(l, p)[n + 1] = p
      BY <2>1, <2>2, AppendProperties
    <2>7. ASSUME NEW k \in 1 .. n + 1
          PROVE  f[n + 1][k] = signal[k]
      <3>1. k \in 1 .. n \/ k = n + 1
        BY <2>1, SMT
      <3> QED
        BY <2>2, <2>5, <2>6, <3>1 DEF p
    <2> QED
      BY <2>1, <2>5, <2>6, <2>7
  <1>5. N \in S
    <2>1. N \in 0 .. N
      BY <1>1, SMT
    <2> HIDE DEF S
    <2> QED
      BY <1>1, <1>3, <1>4, <2>1, InductionLemma
  <1>6. f[N] = signal
    BY <1>5, SeqEqual
  <1> QED
    BY <1>2, <1>6
-----------------------------------------------------------------------------
\* The signals of the codes that have a mark and a space for every bit.

\* A function on 1 .. n is a sequence of length n.
LEMMA FunctionIsSeq ==
    ASSUME NEW S, NEW n \in Nat, NEW f \in [1 .. n -> S]
    PROVE  f \in Seq(S) /\ Len(f) = n
  BY SeqDef, LenProperties

\* mark() and space() make the pulses their names say.
LEMMA PulseLemma ==
    ASSUME NEW us \in Nat
    PROVE  /\ Mark(us) \in Pulses /\ Mark(us).level = "MARK" /\ Mark(us).us = us
           /\ Space(us) \in Pulses /\ Space(us).level = "SPACE" /\ Space(us).us = us
  BY DEF Mark, Space, Pulses

\* Marks at the odd places and spaces at the even ones.
Alternates(s) ==
    /\ s \in Seq(Pulses) /\ Len(s) \in Nat
    /\ \A n \in 1 .. Len(s) :
          s[n].level = IF n % 2 = 1 THEN "MARK" ELSE "SPACE"

\* The line carries such a signal as it is, but for a last space.
LEMMA AlternatesLemma ==
    ASSUME NEW s, Alternates(s), s # <<>>
    PROVE  /\ Len(s) % 2 = 1 => Periods(s) = s
           /\ Len(s) % 2 = 0 => Periods(s) = Front(s)
  <1>1. Len(s) \in Nat /\ Len(s) >= 1 /\ s \in Seq(Pulses)
    BY EmptySeq, SMT DEF Alternates
  <1>2. ASSUME NEW n \in 1 .. Len(s) - 1
        PROVE  s[n].level # s[n + 1].level
    <2>1. n \in 1 .. Len(s) /\ n + 1 \in 1 .. Len(s) /\ (n % 2 = 1 <=> (n + 1) % 2 # 1)
      BY <1>1, SMT
    <2> QED
      BY <2>1 DEF Alternates
  <1>3. Last(s).level = IF Len(s) % 2 = 1 THEN "MARK" ELSE "SPACE"
    <2>1. Len(s) \in 1 .. Len(s)
      BY <1>1, SMT
    <2> QED
      BY <2>1 DEF Alternates, Last
  <1>4. Len(s) % 2 = 0 => Len(s) % 2 # 1
    OBVIOUS
  <1>5. Periods(s) = IF Last(s).level = "SPACE" THEN Front(s) ELSE s
    BY <1>1, <1>2, AlternatingLemma
  <1> QED
    BY <1>3, <1>4, <1>5

\* The arithmetic of pairs.
LEMMA PairIndex ==
    ASSUME NEW B \in Nat
    PROVE  /\ \A n \in 1 .. 2 * B : (n + 1) \div 2 \in 1 .. B
           /\ \A i \in 1 .. B :
                 /\ 2 * i - 1 \in 1 .. 2 * B /\ 2 * i \in 1 .. 2 * B
                 /\ (2 * i - 1) % 2 = 1 /\ (2 * i) % 2 # 1
                 /\ ((2 * i - 1) + 1) \div 2 = i /\ (2 * i + 1) \div 2 = i
  <1>1. \A n \in 1 .. 2 * B : (n + 1) \div 2 \in 1 .. B
    BY SMT
  <1>2. ASSUME NEW i \in 1 .. B
        PROVE  /\ 2 * i - 1 \in 1 .. 2 * B /\ 2 * i \in 1 .. 2 * B
               /\ (2 * i - 1) % 2 = 1 /\ (2 * i) % 2 # 1
               /\ ((2 * i - 1) + 1) \div 2 = i /\ (2 * i + 1) \div 2 = i
    BY SMT
  <1> QED
    BY <1>1, <1>2

\* A mark and a space to a bit, one behind the other.
LEMMA PairsAlternate ==
    ASSUME NEW B \in Nat, NEW mark \in [1 .. B -> Nat], NEW space \in [1 .. B -> Nat],
           NEW D \in [1 .. 2 * B -> Pulses],
           \A n \in 1 .. 2 * B :
              D[n] = IF n % 2 = 1 THEN Mark(mark[(n + 1) \div 2])
                     ELSE Space(space[(n + 1) \div 2])
    PROVE  /\ Alternates(D) /\ Len(D) = 2 * B
           /\ \A i \in 1 .. B : D[2 * i - 1].us = mark[i] /\ D[2 * i].us = space[i]
  <1>1. ASSUME NEW n \in 1 .. 2 * B
        PROVE  /\ D[n] \in Pulses
               /\ D[n].level = IF n % 2 = 1 THEN "MARK" ELSE "SPACE"
               /\ n % 2 = 1 => D[n].us = mark[(n + 1) \div 2]
               /\ n % 2 # 1 => D[n].us = space[(n + 1) \div 2]
    <2>1. (n + 1) \div 2 \in 1 .. B
      BY SMT
    <2>2. mark[(n + 1) \div 2] \in Nat /\ space[(n + 1) \div 2] \in Nat
      BY <2>1
    <2>3. n % 2 = 1 \/ n % 2 = 0
      BY SMT
    <2>4. CASE n % 2 = 1
      <3>1. D[n] = Mark(mark[(n + 1) \div 2])
        BY <2>4
      <3> QED
        BY <2>2, <2>4, <3>1, PulseLemma
    <2>5. CASE n % 2 = 0
      <3>1. D[n] = Space(space[(n + 1) \div 2]) /\ n % 2 # 1
        BY <2>5
      <3> QED
        BY <2>2, <3>1, PulseLemma
    <2> QED
      BY <2>3, <2>4, <2>5
  <1>2. D \in Seq(Pulses) /\ Len(D) = 2 * B
    <2>3. PICK m \in Nat : m = 2 * B
      BY SMT
    <2>4. D \in [1 .. m -> Pulses]
      BY <2>3
    <2>5. D \in Seq(Pulses) /\ Len(D) = m
      BY <2>4, FunctionIsSeq
    <2> QED
      BY <2>3, <2>5
  <1>3. ASSUME NEW i \in 1 .. B
        PROVE  D[2 * i - 1].us = mark[i] /\ D[2 * i].us = space[i]
    <2>1. /\ 2 * i - 1 \in 1 .. 2 * B /\ 2 * i \in 1 .. 2 * B
          /\ (2 * i - 1) % 2 = 1 /\ (2 * i) % 2 # 1
          /\ ((2 * i - 1) + 1) \div 2 = i /\ (2 * i + 1) \div 2 = i
      BY PairIndex
    <2> QED
      BY <1>1, <2>1
  <1>4. 2 * B \in Nat
    BY SMT
  <1> QED
    BY <1>1, <1>2, <1>3, <1>4, Zenon DEF Alternates

\* Bits whose spaces tell them apart.
LEMMA SpacesOfBits ==
    ASSUME NEW c, c.bit \in Nat, c.one \in Nat, c.zero \in Nat,
           NEW B \in Nat, NEW data \in [1 .. B -> {0, 1}]
    PROVE  LET D == ForBits(data, LAMBDA i :
                  <<Mark(c.bit), Space(IF data[i] = 1 THEN c.one ELSE c.zero)>>)
           IN  /\ Alternates(D) /\ Len(D) = 2 * B
               /\ \A i \in 1 .. B :
                     /\ D[2 * i - 1].us = c.bit
                     /\ D[2 * i].us = IF data[i] = 1 THEN c.one ELSE c.zero
  <1> DEFINE D == ForBits(data, LAMBDA i :
                  <<Mark(c.bit), Space(IF data[i] = 1 THEN c.one ELSE c.zero)>>)
             mark == [i \in 1 .. B |-> c.bit]
             space == [i \in 1 .. B |-> IF data[i] = 1 THEN c.one ELSE c.zero]
  <1>1. Len(data) = B
    BY FunctionIsSeq
  <1>2. mark \in [1 .. B -> Nat] /\ space \in [1 .. B -> Nat]
    OBVIOUS
  <1>3. ASSUME NEW n \in 1 .. 2 * B
        PROVE  /\ D[n] = IF n % 2 = 1 THEN Mark(mark[(n + 1) \div 2])
                         ELSE Space(space[(n + 1) \div 2])
               /\ D[n] \in Pulses
    <2>1. n % 2 = 1 \/ (n % 2 = 0 /\ n % 2 # 1)
      BY SMT
    <2>2. (n + 1) \div 2 \in 1 .. B
      BY PairIndex
    <2>3. D[n] = IF n % 2 = 1 THEN Mark(mark[(n + 1) \div 2])
                 ELSE Space(space[(n + 1) \div 2])
      BY <1>1, <2>1, <2>2 DEF ForBits
    <2>4. mark[(n + 1) \div 2] \in Nat /\ space[(n + 1) \div 2] \in Nat
      BY <1>2, <2>2
    <2> HIDE DEF D, mark, space
    <2> QED
      BY <2>3, <2>4, PulseLemma
  <1>4. D \in [1 .. 2 * B -> Pulses]
    <2>1. D = [n \in 1 .. 2 * B |-> D[n]]
      BY <1>1, Zenon DEF ForBits
    <2> HIDE DEF D
    <2> QED
      BY <1>3, <2>1, Zenon
  <1>5. \A i \in 1 .. B : /\ mark[i] = c.bit
                          /\ space[i] = IF data[i] = 1 THEN c.one ELSE c.zero
    OBVIOUS
  <1> HIDE DEF D, mark, space
  <1>6. /\ Alternates(D) /\ Len(D) = 2 * B
        /\ \A i \in 1 .. B : D[2 * i - 1].us = mark[i] /\ D[2 * i].us = space[i]
    BY <1>4, <1>2, <1>3, PairsAlternate
  <1>7. /\ Alternates(D) /\ Len(D) = 2 * B
        /\ \A i \in 1 .. B :
              /\ D[2 * i - 1].us = c.bit
              /\ D[2 * i].us = IF data[i] = 1 THEN c.one ELSE c.zero
    BY <1>5, <1>6
  <1> QED
    BY <1>7, Zenon DEF D

\* One signal behind another, of an even number of pulses, alternates too.
Behind(u, s, t) ==
    /\ Alternates(u) /\ Len(u) = Len(s) + Len(t)
    /\ \A n \in 1 .. Len(s) + Len(t) :
          u[n] = IF n <= Len(s) THEN s[n] ELSE t[n - Len(s)]

\* Two alternating signals, the first of even length, alternate put one
\* behind the other.
LEMMA ConcatAlternates ==
    ASSUME NEW s, NEW t, Alternates(s), Alternates(t), Len(s) % 2 = 0
    PROVE  Behind(s \o t, s, t)
  <1> DEFINE u == s \o t
  <1>0. PICK k \in Nat, l \in Nat : k = Len(s) /\ l = Len(t) /\ k % 2 = 0
    BY DEF Alternates
  <1>1. /\ s \in Seq(Pulses) /\ t \in Seq(Pulses)
        /\ \A n \in 1 .. k : s[n].level = IF n % 2 = 1 THEN "MARK" ELSE "SPACE"
        /\ \A n \in 1 .. l : t[n].level = IF n % 2 = 1 THEN "MARK" ELSE "SPACE"
    BY <1>0 DEF Alternates
  <1>2. /\ u \in Seq(Pulses) /\ Len(u) = k + l
        /\ \A n \in 1 .. k + l : u[n] = IF n <= k THEN s[n] ELSE t[n - k]
    BY <1>0, <1>1, ConcatProperties
  <1> HIDE DEF u
  <1>3. ASSUME NEW n \in 1 .. k + l
        PROVE  u[n].level = IF n % 2 = 1 THEN "MARK" ELSE "SPACE"
    <2>1. CASE n <= k
      <3>1. n \in 1 .. k
        BY <2>1, SMT
      <3> QED
        BY <1>1, <1>2, <2>1, <3>1
    <2>2. CASE ~(n <= k)
      <3>1. PICK m \in 1 .. l : m = n - k
        BY <2>2, SMT
      <3>2. PICK h \in Int : k = 2 * h
        BY <1>0, SMT
      <3>3. n = m + 2 * h /\ n \in Int /\ m \in Int
        BY <3>1, <3>2, SMT
      <3>4. n % 2 = m % 2
        BY <3>3, SMT
      <3>5. u[n] = t[m]
        BY <1>2, <2>2, <3>1
      <3>6. t[m].level = IF m % 2 = 1 THEN "MARK" ELSE "SPACE"
        BY <1>1
      <3> QED
        BY <3>4, <3>5, <3>6, Zenon
    <2> QED
      BY <2>1, <2>2
  <1>4. k + l \in Nat
    BY SMT
  <1> QED
    <2>1. /\ Alternates(u) /\ Len(u) = k + l
          /\ \A n \in 1 .. k + l : u[n] = IF n <= k THEN s[n] ELSE t[n - k]
      BY <1>2, <1>3, <1>4 DEF Alternates
    <2> QED
      BY <1>0, <2>1, Zenon DEF Behind, u

\* A single mark alternates.
LEMMA OneMark ==
    ASSUME NEW us \in Nat
    PROVE  /\ Alternates(<<Mark(us)>>) /\ Len(<<Mark(us)>>) = 1
           /\ <<Mark(us)>>[1].us = us
  <1>1. <<Mark(us)>> \in Seq(Pulses) /\ Len(<<Mark(us)>>) = 1 /\ <<Mark(us)>>[1] = Mark(us)
    BY PulseLemma, SMT
  <1>2. \A n \in 1 .. 1 : n = 1 /\ n % 2 = 1
    BY SMT
  <1> QED
    BY <1>1, <1>2, PulseLemma DEF Alternates

\* A mark and a space alternate.
LEMMA Header ==
    ASSUME NEW us \in Nat, NEW vs \in Nat
    PROVE  LET s == <<Mark(us), Space(vs)>>
           IN  Alternates(s) /\ Len(s) = 2 /\ s[1].us = us /\ s[2].us = vs
  <1> DEFINE s == <<Mark(us), Space(vs)>>
  <1>1. s \in Seq(Pulses) /\ Len(s) = 2 /\ s[1] = Mark(us) /\ s[2] = Space(vs)
    BY PulseLemma, SMT
  <1>2. \A n \in 1 .. 2 : (n = 1 /\ n % 2 = 1) \/ (n = 2 /\ n % 2 # 1)
    BY SMT
  <1> HIDE DEF s
  <1>3. Alternates(s) /\ Len(s) = 2 /\ s[1].us = us /\ s[2].us = vs
    BY <1>1, <1>2, PulseLemma DEF Alternates
  <1> QED
    BY <1>3 DEF s

\* What is on the line for a code with a header.
LEMMA HeaderLine ==
    ASSUME NEW c, c.bit \in Nat, c.one \in Nat, c.zero \in Nat,
           c.hdr[1] \in Nat, c.hdr[2] \in Nat,
           NEW B \in Nat, NEW data \in [1 .. B -> {0, 1}]
    PROVE  LET s == Periods(sendDistance(c, data, TRUE))
           IN  /\ Len(s) = 2 * B + 3 /\ Alternates(s)
               /\ s[1].us = c.hdr[1] /\ s[2].us = c.hdr[2]
               /\ \A i \in 1 .. B :
                     /\ s[2 * i + 1].us = c.bit
                     /\ s[2 * i + 2].us = IF data[i] = 1 THEN c.one ELSE c.zero
               /\ s[2 * B + 3].us = c.bit
  <1> DEFINE H == <<Mark(c.hdr[1]), Space(c.hdr[2])>>
             D == ForBits(data, LAMBDA i :
                  <<Mark(c.bit), Space(IF data[i] = 1 THEN c.one ELSE c.zero)>>)
             M == <<Mark(c.bit)>>
             s == sendDistance(c, data, TRUE)
  <1>1. s = (H \o D) \o M
    BY Zenon DEF sendDistance
  <1>2. Alternates(H) /\ Len(H) = 2 /\ H[1].us = c.hdr[1] /\ H[2].us = c.hdr[2]
    BY Header
  <1>3. /\ Alternates(D) /\ Len(D) = 2 * B
        /\ \A i \in 1 .. B :
              /\ D[2 * i - 1].us = c.bit
              /\ D[2 * i].us = IF data[i] = 1 THEN c.one ELSE c.zero
    BY SpacesOfBits, Zenon
  <1>4. Alternates(M) /\ Len(M) = 1 /\ M[1].us = c.bit
    BY OneMark
  <1> HIDE DEF H, D, M, s
  <1>5. 2 % 2 = 0 /\ (2 + 2 * B) % 2 = 0 /\ (2 * B + 3) % 2 = 1
    BY SMT
  <1>6. /\ Alternates(H \o D) /\ Len(H \o D) = 2 + 2 * B
        /\ \A n \in 1 .. 2 + 2 * B : (H \o D)[n] = IF n <= 2 THEN H[n] ELSE D[n - 2]
    <2>1. PICK k \in Nat : k = 2 * B
      BY SMT
    <2>2. Len(D) = k
      BY <1>3, <2>1
    <2>3. /\ Alternates(H \o D) /\ Len(H \o D) = 2 + k
          /\ \A n \in 1 .. 2 + k : (H \o D)[n] = IF n <= 2 THEN H[n] ELSE D[n - 2]
      <3>1. Len(H) % 2 = 0
        BY <1>2, SMT
      <3>2. Behind(H \o D, H, D)
        BY <1>2, <1>3, <3>1, ConcatAlternates, Zenon
      <3> QED
        BY <1>2, <2>2, <3>2, Zenon DEF Behind
    <2> QED
      BY <2>1, <2>3
  <1>7. /\ Alternates(s) /\ Len(s) = (2 + 2 * B) + 1
        /\ \A n \in 1 .. (2 + 2 * B) + 1 :
              s[n] = IF n <= 2 + 2 * B THEN (H \o D)[n] ELSE M[n - (2 + 2 * B)]
    <2>1. PICK k \in Nat : k = 2 + 2 * B
      BY SMT
    <2>2. Len(H \o D) = k /\ k % 2 = 0
      BY <1>5, <1>6, <2>1
    <2>3. /\ Alternates(s) /\ Len(s) = k + 1
          /\ \A n \in 1 .. k + 1 : s[n] = IF n <= k THEN (H \o D)[n] ELSE M[n - k]
      <3>1. Behind(s, H \o D, M)
        BY <1>1, <1>4, <1>6, <2>2, ConcatAlternates, Zenon
      <3> QED
        BY <1>4, <2>2, <3>1, Zenon DEF Behind
    <2> QED
      BY <2>1, <2>3
  <1>8. Len(s) = 2 * B + 3 /\ Len(s) # 0
    BY <1>7, SMT
  <1>9. Periods(s) = s
    BY <1>5, <1>7, <1>8, AlternatesLemma, EmptySeq
  <1>10. s[1].us = c.hdr[1] /\ s[2].us = c.hdr[2]
    <2>1. /\ 1 \in 1 .. (2 + 2 * B) + 1 /\ 2 \in 1 .. (2 + 2 * B) + 1
          /\ 1 \in 1 .. 2 + 2 * B /\ 2 \in 1 .. 2 + 2 * B
          /\ 1 <= 2 + 2 * B /\ 2 <= 2 + 2 * B /\ 1 <= 2 /\ 2 <= 2
      BY SMT
    <2>2. s[1] = H[1] /\ s[2] = H[2]
      <3>1. s[1] = (H \o D)[1] /\ s[2] = (H \o D)[2]
        BY <1>7, <2>1, Zenon
      <3>2. (H \o D)[1] = H[1] /\ (H \o D)[2] = H[2]
        BY <1>6, <2>1, Zenon
      <3> QED
        BY <3>1, <3>2
    <2> QED
      BY <1>2, <2>2
  <1>11. s[2 * B + 3].us = c.bit
    <2>1. PICK n \in 1 .. (2 + 2 * B) + 1 : n = 2 * B + 3
      BY SMT
    <2>2. ~(n <= 2 + 2 * B) /\ n - (2 + 2 * B) = 1
      BY <2>1, SMT
    <2>3. s[n] = M[1]
      BY <1>7, <2>2, Zenon
    <2> QED
      BY <1>4, <2>1, <2>3
  <1>12. ASSUME NEW i \in 1 .. B
         PROVE  /\ s[2 * i + 1].us = c.bit
                /\ s[2 * i + 2].us = IF data[i] = 1 THEN c.one ELSE c.zero
    <2>1. PICK m \in 1 .. (2 + 2 * B) + 1 : m = 2 * i + 1
      BY SMT
    <2>2. PICK n \in 1 .. (2 + 2 * B) + 1 : n = 2 * i + 2
      BY SMT
    <2>3. /\ m <= 2 + 2 * B /\ m \in 1 .. 2 + 2 * B /\ ~(m <= 2) /\ m - 2 = 2 * i - 1
          /\ n <= 2 + 2 * B /\ n \in 1 .. 2 + 2 * B /\ ~(n <= 2) /\ n - 2 = 2 * i
      BY <2>1, <2>2, SMT
    <2>4. s[m] = D[2 * i - 1] /\ s[n] = D[2 * i]
      BY <1>6, <1>7, <2>3, Zenon
    <2> QED
      BY <1>3, <2>1, <2>2, <2>4
  <1>13. /\ Len(s) = 2 * B + 3 /\ Alternates(s)
         /\ s[1].us = c.hdr[1] /\ s[2].us = c.hdr[2]
         /\ \A i \in 1 .. B :
               /\ s[2 * i + 1].us = c.bit
               /\ s[2 * i + 2].us = IF data[i] = 1 THEN c.one ELSE c.zero
         /\ s[2 * B + 3].us = c.bit
    BY <1>7, <1>8, <1>10, <1>11, <1>12
  <1> QED
    BY <1>9, <1>13 DEF s

\* The repeat of JVC is its code without a header.
HeaderlessLine(s, c, B, data) ==
    /\ Len(s) = 2 * B + 1 /\ Alternates(s)
    /\ \A i \in 1 .. B :
          /\ s[2 * i - 1].us = c.bit
          /\ s[2 * i].us = IF data[i] = 1 THEN c.one ELSE c.zero
    /\ s[2 * B + 1].us = c.bit

\* JVC's repeat is the code without its header: data bits and a closing
\* mark.
LEMMA RepeatLine ==
    ASSUME NEW c, c.bit \in Nat, c.one \in Nat, c.zero \in Nat,
           NEW B \in Nat, NEW data \in [1 .. B -> {0, 1}]
    PROVE  HeaderlessLine(Periods(sendDistance(c, data, FALSE)), c, B, data)
  <1> DEFINE D == ForBits(data, LAMBDA i :
                  <<Mark(c.bit), Space(IF data[i] = 1 THEN c.one ELSE c.zero)>>)
             M == <<Mark(c.bit)>>
             s == sendDistance(c, data, FALSE)
  <1>1. /\ Alternates(D) /\ Len(D) = 2 * B
        /\ \A i \in 1 .. B :
              /\ D[2 * i - 1].us = c.bit
              /\ D[2 * i].us = IF data[i] = 1 THEN c.one ELSE c.zero
    BY SpacesOfBits, Zenon
  <1>2. s = D \o M
    <2>1. s = (<<>> \o D) \o M
      BY Zenon DEF sendDistance
    <2>2. D \in Seq(Pulses)
      BY <1>1, Zenon DEF Alternates
    <2> HIDE DEF D, M
    <2> QED
      BY <2>1, <2>2, ConcatEmptySeq
  <1>3. Alternates(M) /\ Len(M) = 1 /\ M[1].us = c.bit
    BY OneMark
  <1> HIDE DEF D, M, s
  <1>4. (2 * B) % 2 = 0 /\ (2 * B + 1) % 2 = 1
    BY SMT
  <1>5. /\ Alternates(s) /\ Len(s) = 2 * B + 1
        /\ \A n \in 1 .. 2 * B + 1 : s[n] = IF n <= 2 * B THEN D[n] ELSE M[n - 2 * B]
    <2>1. PICK k \in Nat : k = 2 * B
      BY SMT
    <2>2. Len(D) = k /\ k % 2 = 0
      BY <1>1, <1>4, <2>1
    <2>3. /\ Alternates(s) /\ Len(s) = k + 1
          /\ \A n \in 1 .. k + 1 : s[n] = IF n <= k THEN D[n] ELSE M[n - k]
      <3>1. Behind(s, D, M)
        BY <1>1, <1>2, <1>3, <2>2, ConcatAlternates, Zenon
      <3> QED
        BY <1>3, <2>2, <3>1, Zenon DEF Behind
    <2> QED
      BY <2>1, <2>3
  <1>6. Len(s) # 0
    BY <1>5, SMT
  <1>7. Periods(s) = s
    BY <1>4, <1>5, <1>6, AlternatesLemma, EmptySeq
  <1>8. s[2 * B + 1].us = c.bit
    <2>1. PICK n \in 1 .. 2 * B + 1 : n = 2 * B + 1
      BY SMT
    <2>2. ~(n <= 2 * B) /\ n - 2 * B = 1
      BY <2>1, SMT
    <2>3. s[n] = M[1]
      BY <1>5, <2>2, Zenon
    <2> QED
      BY <1>3, <2>1, <2>3
  <1>9. ASSUME NEW i \in 1 .. B
        PROVE  /\ s[2 * i - 1].us = c.bit
               /\ s[2 * i].us = IF data[i] = 1 THEN c.one ELSE c.zero
    <2>1. /\ 2 * i - 1 \in 1 .. 2 * B + 1 /\ 2 * i \in 1 .. 2 * B + 1
          /\ 2 * i - 1 <= 2 * B /\ 2 * i <= 2 * B
      BY SMT
    <2>2. s[2 * i - 1] = D[2 * i - 1] /\ s[2 * i] = D[2 * i]
      BY <1>5, <2>1, Zenon
    <2> QED
      BY <1>1, <2>2
  <1>10. /\ Len(s) = 2 * B + 1 /\ Alternates(s)
         /\ \A i \in 1 .. B :
               /\ s[2 * i - 1].us = c.bit
               /\ s[2 * i].us = IF data[i] = 1 THEN c.one ELSE c.zero
         /\ s[2 * B + 1].us = c.bit
    BY <1>5, <1>8, <1>9
  <1> QED
    <2>1. HeaderlessLine(s, c, B, data)
      BY <1>10, Zenon DEF HeaderlessLine
    <2> QED
      BY <1>7, <2>1 DEF s

-----------------------------------------------------------------------------
\* The codes told apart by their spaces: the lengths all of them lie between.
LEMMA DistanceTypes ==
    DOMAIN Distance = {"NEC", "PANASONIC", "LG", "JVC", "SAMSUNG"}
  BY DEF Distance

\* The lengths of a pulse-distance code are far enough apart to be told
\* by MATCH, and its codes fit the recording buffer.
Bounded(c) ==
    /\ c.hdr[1] \in Nat /\ c.hdr[1] >= 3502 /\ c.hdr[2] \in Nat /\ c.hdr[2] >= 1750
    /\ c.bit \in Nat /\ c.bit >= 502 /\ c.bit <= 600
    /\ c.one \in Nat /\ c.one >= 1244 /\ c.one <= 1600
    /\ c.zero \in Nat /\ c.zero >= 400 /\ c.zero <= 560
    /\ c.bits \in Nat /\ c.bits <= 48

\* The four pulse-distance codes have such lengths.
LEMMA DistanceBounded ==
    ASSUME NEW type \in DOMAIN Distance
    PROVE  Bounded(Distance[type])
  <1>1. /\ Distance["NEC"] = [hdr |-> <<9000, 4500>>, bit |-> 560, one |-> 1600,
                              zero |-> 560, bits |-> 32]
        /\ Distance["PANASONIC"] = [hdr |-> <<3502, 1750>>, bit |-> 502, one |-> 1244,
                                    zero |-> 400, bits |-> 48]
        /\ Distance["LG"] = [hdr |-> <<8000, 4000>>, bit |-> 600, one |-> 1600,
                             zero |-> 550, bits |-> 28]
        /\ Distance["JVC"] = [hdr |-> <<8000, 4000>>, bit |-> 600, one |-> 1600,
                              zero |-> 550, bits |-> 16]
        /\ Distance["SAMSUNG"] = [hdr |-> <<5000, 5000>>, bit |-> 560, one |-> 1600,
                                  zero |-> 560, bits |-> 32]
    BY DEF Distance
  <1>2. CASE type = "NEC"
    BY <1>1, <1>2, SMT DEF Bounded
  <1>3. CASE type = "PANASONIC"
    BY <1>1, <1>3, SMT DEF Bounded
  <1>4. CASE type = "LG"
    BY <1>1, <1>4, SMT DEF Bounded
  <1>5. CASE type = "JVC"
    BY <1>1, <1>5, SMT DEF Bounded
  <1>6. CASE type = "SAMSUNG"
    BY <1>1, <1>6, SMT DEF Bounded
  <1> QED
    BY <1>2, <1>3, <1>4, <1>5, <1>6, DistanceTypes

\* A space of a zero is never taken for that of a one.
LEMMA OneOrZero ==
    ASSUME NEW c, Bounded(c), NEW t
    PROVE  /\ SpaceTicks(t, c.one) => MATCH_SPACE(t, c.one)
           /\ SpaceTicks(t, c.zero) => MATCH_SPACE(t, c.zero) /\ ~MATCH_SPACE(t, c.one)
  <1>1. SpaceTicks(t, c.one) => MATCH_SPACE(t, c.one)
    BY SpaceMatches, SMT DEF Bounded
  <1>2. SpaceTicks(t, c.zero) => MATCH_SPACE(t, c.zero)
    BY SpaceMatches, SMT DEF Bounded
  <1>3. ASSUME SpaceTicks(t, c.zero)
        PROVE  ~MATCH_SPACE(t, c.one)
    <2>1. PICK z \in Nat, o \in Nat : z = c.zero /\ o = c.one /\ z <= 560 /\ o >= 1244
      BY DEF Bounded
    <2>2. t \in Nat /\ 50 * t < z
      BY <1>3, <2>1 DEF SpaceTicks
    <2>3. t <= 11 /\ ~((3 * (o - 100)) \div 200 <= t)
      BY <2>1, <2>2, SMT
    <2> QED
      BY <2>1, <2>3 DEF MATCH_SPACE, MATCH, MARK_EXCESS
  <1> QED
    BY <1>1, <1>2, <1>3

\* A recording with the header of a code, its bits and its last mark.
Carries(h, c, data) ==
    /\ h.rawlen = 2 * c.bits + 4 /\ h.rawbuf[0] \in Nat
    /\ MarkTicks(h.rawbuf[1], c.hdr[1]) /\ SpaceTicks(h.rawbuf[2], c.hdr[2])
    /\ \A i \in 1 .. c.bits :
          /\ MarkTicks(h.rawbuf[2 * i + 1], c.bit)
          /\ SpaceTicks(h.rawbuf[2 * i + 2], IF data[i] = 1 THEN c.one ELSE c.zero)
    /\ MarkTicks(h.rawbuf[2 * c.bits + 3], c.bit)

\* A recording of a pulse-distance code carries its header, its bits and
\* its closing mark.
LEMMA HeardCarries ==
    ASSUME NEW type \in DOMAIN Distance,
           NEW data \in [1 .. Distance[type].bits -> {0, 1}], NEW h,
           Heard(h, Periods(sendDistance(Distance[type], data, TRUE)))
    PROVE  Carries(h, Distance[type], data)
  <1> DEFINE c == Distance[type]
             s == Periods(sendDistance(c, data, TRUE))
  <1>1. PICK B \in Nat : B = c.bits
    BY DistanceBounded DEF Bounded
  <1>2. /\ c.bit \in Nat /\ c.one \in Nat /\ c.zero \in Nat
        /\ c.hdr[1] \in Nat /\ c.hdr[2] \in Nat
    BY DistanceBounded DEF Bounded
  <1> HIDE DEF c
  <1>3. /\ Len(s) = 2 * B + 3
        /\ s[1].us = c.hdr[1] /\ s[2].us = c.hdr[2]
        /\ \A i \in 1 .. B :
              /\ s[2 * i + 1].us = c.bit
              /\ s[2 * i + 2].us = IF data[i] = 1 THEN c.one ELSE c.zero
        /\ s[2 * B + 3].us = c.bit
    <2>1. data \in [1 .. B -> {0, 1}]
      BY <1>1 DEF c
    <2> QED
      BY <1>2, <2>1, HeaderLine, ZenonT(60)
  <1> HIDE DEF s
  <1>4. /\ h.rawlen = 2 * B + 4 /\ h.rawbuf[0] \in Nat
        /\ \A n \in 1 .. 2 * B + 3 :
              IF n % 2 = 1 THEN MarkTicks(h.rawbuf[n], s[n].us)
              ELSE SpaceTicks(h.rawbuf[n], s[n].us)
    <2>1. Heard(h, s)
      BY DEF c, s
    <2>2. h.rawlen = Len(s) + 1 /\ h.rawbuf[0] \in Nat
      BY <2>1 DEF Heard
    <2>3. ASSUME NEW n \in 1 .. 2 * B + 3
          PROVE  IF n % 2 = 1 THEN MarkTicks(h.rawbuf[n], s[n].us)
                 ELSE SpaceTicks(h.rawbuf[n], s[n].us)
      BY <1>3, <2>1, ZenonT(60) DEF Heard
    <2>4. h.rawlen = 2 * B + 4
      BY <1>3, <2>2, SMT
    <2> QED
      BY <2>2, <2>3, <2>4
  <1>5. MarkTicks(h.rawbuf[1], c.hdr[1]) /\ SpaceTicks(h.rawbuf[2], c.hdr[2])
    <2>1. 1 \in 1 .. 2 * B + 3 /\ 2 \in 1 .. 2 * B + 3 /\ 1 % 2 = 1 /\ 2 % 2 # 1
      BY SMT
    <2>2. MarkTicks(h.rawbuf[1], s[1].us)
      BY <1>4, <2>1, ZenonT(60)
    <2>3. SpaceTicks(h.rawbuf[2], s[2].us)
      BY <1>4, <2>1, ZenonT(60)
    <2> QED
      BY <1>3, <2>2, <2>3
  <1>6. MarkTicks(h.rawbuf[2 * B + 3], c.bit)
    <2>1. 2 * B + 3 \in 1 .. 2 * B + 3 /\ (2 * B + 3) % 2 = 1
      BY SMT
    <2> QED
      BY <1>3, <1>4, <2>1, ZenonT(60)
  <1>7. ASSUME NEW i \in 1 .. B
        PROVE  /\ MarkTicks(h.rawbuf[2 * i + 1], c.bit)
               /\ SpaceTicks(h.rawbuf[2 * i + 2], IF data[i] = 1 THEN c.one ELSE c.zero)
    <2>1. /\ 2 * i + 1 \in 1 .. 2 * B + 3 /\ (2 * i + 1) % 2 = 1
          /\ 2 * i + 2 \in 1 .. 2 * B + 3 /\ (2 * i + 2) % 2 # 1
      BY SMT
    <2>2. /\ s[2 * i + 1].us = c.bit
          /\ s[2 * i + 2].us = IF data[i] = 1 THEN c.one ELSE c.zero
      BY <1>3
    <2>3. MarkTicks(h.rawbuf[2 * i + 1], s[2 * i + 1].us)
      BY <1>4, <2>1, ZenonT(60)
    <2>4. SpaceTicks(h.rawbuf[2 * i + 2], s[2 * i + 2].us)
      BY <1>4, <2>1, ZenonT(60)
    <2> QED
      BY <2>2, <2>3, <2>4
  <1>8. Carries(h, c, data)
    BY <1>1, <1>4, <1>5, <1>6, <1>7 DEF Carries
  <1> QED
    BY <1>8 DEF c

\* What the bits of such a recording are taken for.
BitsAre(h, c, data) ==
    /\ \A i \in 1 .. c.bits :
          /\ MATCH_MARK(h.rawbuf[2 * i + 1], c.bit)
          /\ \/ MATCH_SPACE(h.rawbuf[2 * i + 2], c.one)
             \/ MATCH_SPACE(h.rawbuf[2 * i + 2], c.zero)
    /\ [i \in 1 .. c.bits |-> IF MATCH_SPACE(h.rawbuf[2 * i + 2], c.one) THEN 1 ELSE 0]
          = data

\* The decoder reads the bits that the recording carries.
LEMMA BitsDecode ==
    ASSUME NEW c, Bounded(c), NEW data \in [1 .. c.bits -> {0, 1}],
           NEW h, Carries(h, c, data)
    PROVE  BitsAre(h, c, data)
  <1> DEFINE one(i) == MATCH_SPACE(h.rawbuf[2 * i + 2], c.one)
  <1>1. ASSUME NEW i \in 1 .. c.bits
        PROVE  /\ MATCH_MARK(h.rawbuf[2 * i + 1], c.bit)
               /\ (IF one(i) THEN 1 ELSE 0) = data[i]
               /\ one(i) \/ MATCH_SPACE(h.rawbuf[2 * i + 2], c.zero)
    <2>1. /\ MarkTicks(h.rawbuf[2 * i + 1], c.bit)
          /\ SpaceTicks(h.rawbuf[2 * i + 2], IF data[i] = 1 THEN c.one ELSE c.zero)
      BY DEF Carries
    <2>2. c.bit \in Nat /\ c.bit >= 300
      BY SMT DEF Bounded
    <2>3. MATCH_MARK(h.rawbuf[2 * i + 1], c.bit)
      BY <2>1, <2>2, MarkMatches
    <2>4. data[i] = 1 \/ (data[i] = 0 /\ data[i] # 1)
      OBVIOUS
    <2>5. CASE data[i] = 1
      BY <2>1, <2>3, <2>5, OneOrZero
    <2>6. CASE data[i] = 0 /\ data[i] # 1
      BY <2>1, <2>3, <2>6, OneOrZero
    <2> QED
      BY <2>4, <2>5, <2>6
  <1> HIDE DEF one
  <1>2. [i \in 1 .. c.bits |-> IF one(i) THEN 1 ELSE 0] = data
    BY <1>1
  <1> QED
    BY <1>1, <1>2, Zenon DEF BitsAre, one

\* Such a recording is decoded by the decoder of its code.
LEMMA DistanceDecodes ==
    ASSUME NEW type \in DOMAIN Distance,
           NEW data \in [1 .. Distance[type].bits -> {0, 1}], NEW h, Carries(h, Distance[type], data),
           NEW shortest \in Nat, shortest <= 2 * Distance[type].bits + 4, NEW stops,
           type = "PANASONIC" => Distance[type].hdr[2] = 1750
    PROVE  decodeDistance(h, type, shortest, stops)
              = Decoded(type, Distance[type].bits, data)
  <1>1. Bounded(Distance[type])
    BY DistanceBounded
  <1>2. MATCH_MARK(h.rawbuf[1], Distance[type].hdr[1])
    <2>1. MarkTicks(h.rawbuf[1], Distance[type].hdr[1])
      BY DEF Carries
    <2>3. Distance[type].hdr[1] \in Nat /\ Distance[type].hdr[1] >= 3502
      BY <1>1, SMTT(30) DEF Bounded
    <2>2. Distance[type].hdr[1] \in Nat /\ Distance[type].hdr[1] >= 300
      BY <2>3, SMT
    <2> QED
      BY <2>1, <2>2, MarkMatches
  <1>3. IF type = "PANASONIC" THEN MATCH_MARK(h.rawbuf[2], Distance[type].hdr[2])
                              ELSE MATCH_SPACE(h.rawbuf[2], Distance[type].hdr[2])
    <2>1. SpaceTicks(h.rawbuf[2], Distance[type].hdr[2]) /\ Distance[type].hdr[2] \in Nat /\ Distance[type].hdr[2] >= 1750
      <3>1. SpaceTicks(h.rawbuf[2], Distance[type].hdr[2])
        BY DEF Carries
      <3>2. Distance[type].hdr[2] \in Nat /\ Distance[type].hdr[2] >= 1750
        BY <1>1, SMTT(30) DEF Bounded
      <3> QED
        BY <3>1, <3>2
    <2>2. MATCH_SPACE(h.rawbuf[2], Distance[type].hdr[2])
      BY <2>1, SpaceMatches, SMT
    <2>3. ASSUME Distance[type].hdr[2] = 1750
          PROVE  MATCH_MARK(h.rawbuf[2], Distance[type].hdr[2])
      BY <2>1, <2>3, SMT DEF SpaceTicks, MATCH_MARK, MATCH, MARK_EXCESS
    <2> QED
      BY <2>2, <2>3
  <1>4. h.rawlen >= shortest
    <2>1. h.rawlen = 2 * Distance[type].bits + 4 /\ Distance[type].bits \in Nat
      BY <1>1 DEF Carries, Bounded
    <2> QED
      BY <2>1, SMT
  <1>5. MATCH_MARK(h.rawbuf[2 * Distance[type].bits + 3], Distance[type].bit)
    <2>1. MarkTicks(h.rawbuf[2 * Distance[type].bits + 3], Distance[type].bit)
      BY DEF Carries
    <2>2. Distance[type].bit \in Nat /\ Distance[type].bit >= 300
      BY <1>1, SMTT(30) DEF Bounded
    <2> QED
      BY <2>1, <2>2, MarkMatches
  <1>6. BitsAre(h, Distance[type], data)
    BY <1>1, BitsDecode
  <1> QED
    <2> DEFINE d == [i \in 1 .. Distance[type].bits |->
                       IF MATCH_SPACE(h.rawbuf[2 * i + 2], Distance[type].one) THEN 1 ELSE 0]
    <2>1. decodeDistance(h, type, shortest, stops) = Decoded(type, Distance[type].bits, d)
      BY <1>2, <1>3, <1>4, <1>5, <1>6 DEF decodeDistance, BitsAre
    <2>2. d = data
      BY <1>6, Zenon DEF BitsAre
    <2> HIDE DEF d
    <2> QED
      BY <2>1, <2>2

-----------------------------------------------------------------------------
\* The levels of an entry, by the first multiple of t1 that it matches.
Excess(i) == IF i % 2 = 1 THEN MARK_EXCESS ELSE -MARK_EXCESS
\* The level that entry i of a recording stands for.
Level(i) == IF i % 2 = 1 THEN "MARK" ELSE "SPACE"
\* What an entry that lasts w units adds to the levels.
Run(i, w) == [n \in 1 .. w |-> Level(i)]
\* Entry i lasts w units, by the comparison of getRClevel().
Fits(h, i, t1, w) == MATCH(h.rawbuf[i], w * t1 + Excess(i))

\* An entry that fits none of the three widths is an error.
LEMMA EntryError ==
    ASSUME NEW h, NEW i, NEW t1,
           ~Fits(h, i, t1, 1), ~Fits(h, i, t1, 2), ~Fits(h, i, t1, 3)
    PROVE  entryLevels(h, i, t1) = <<"error">>
  <1> DEFINE I == {n \in 1 .. Len(<<1, 2, 3>>) : Fits(h, i, t1, <<1, 2, 3>>[n])}
  <1>1. I = {}
    <2>1. ASSUME NEW n \in 1 .. Len(<<1, 2, 3>>)
          PROVE  (n = 1 \/ n = 2 \/ n = 3) /\ <<1, 2, 3>>[n] = n
      BY SMT
    <2>2. ASSUME NEW n \in 1 .. Len(<<1, 2, 3>>)
          PROVE  ~Fits(h, i, t1, <<1, 2, 3>>[n])
      BY <2>1, Zenon
    <2> QED
      BY <2>2
  <1>2. entryLevels(h, i, t1) = IF (IF I # {} THEN Min(I) ELSE 0) = 0 THEN <<"error">>
            ELSE [n \in 1 .. IF I # {} THEN Min(I) ELSE 0 |-> Level(i)]
    BY Zenon DEF entryLevels, SelectInSeq, Fits, Excess, Level
  <1> HIDE DEF I
  <1> QED
    BY <1>1, <1>2

\* An entry adds as many levels as the first width it fits.
LEMMA EntryLevels ==
    ASSUME NEW h, NEW i, NEW t1, NEW w \in 1 .. 3,
           Fits(h, i, t1, w), \A n \in 1 .. w - 1 : ~Fits(h, i, t1, n)
    PROVE  entryLevels(h, i, t1) = Run(i, w)
  <1> DEFINE I == {n \in 1 .. Len(<<1, 2, 3>>) : Fits(h, i, t1, <<1, 2, 3>>[n])}
             m == IF I # {} THEN Min(I) ELSE 0
  <1>1. ASSUME NEW n \in 1 .. 3
        PROVE  n \in 1 .. Len(<<1, 2, 3>>) /\ <<1, 2, 3>>[n] = n
    BY SMT
  <1>2. w \in I
    BY <1>1, Zenon
  <1>3. ASSUME NEW n \in I
        PROVE  n \in 1 .. 3 /\ w <= n
    <2>1. n \in 1 .. 3
      BY SMT
    <2>2. Fits(h, i, t1, n)
      BY <1>1, <2>1, Zenon
    <2>3. n \notin 1 .. w - 1
      BY <2>2
    <2> QED
      BY <2>1, <2>3, SMT
  <1>4. entryLevels(h, i, t1) = IF m = 0 THEN <<"error">> ELSE Run(i, m)
    BY Zenon DEF Run, entryLevels, SelectInSeq, Fits, Excess, Level
  <1> HIDE DEF I
  <1>5. Min(I) = w
    <2>1. w \in I /\ \A n \in I : w <= n
      BY <1>2, <1>3
    <2>2. \A x \in I : (\A y \in I : x <= y) => x = w
      <3>1. ASSUME NEW x \in I, \A y \in I : x <= y
            PROVE  x = w
        <4>1. x <= w /\ w <= x /\ x \in 1 .. 3
          BY <1>2, <1>3, <3>1
        <4> QED
          BY <4>1, SMT
      <3> QED
        BY <3>1
    <2> QED
      BY <2>1, <2>2, Zenon DEF Min
  <1>6. m = w /\ w # 0
    BY <1>2, <1>5
  <1> HIDE DEF m
  <1> QED
    BY <1>4, <1>6, Zenon
-----------------------------------------------------------------------------
\* Putting sequences together, one behind the other.
FlatFrom(seqs, n, f) == IF n = 1 THEN seqs[n] ELSE f[n - 1] \o seqs[n]

\* The recursive function that concatenates sequences is well defined.
LEMMA FlatExists ==
    ASSUME NEW seqs, NEW N \in Nat
    PROVE  \E f : f = [n \in 1 .. N |-> FlatFrom(seqs, n, f)]
  <1> DEFINE S == {k \in 0 .. N : \E f : f = [n \in 1 .. k |-> FlatFrom(seqs, n, f)]}
  <1>1. 0 \in S
    <2> DEFINE f == [n \in {} |-> <<>>]
    <2>1. 1 .. 0 = {} /\ 0 \in 0 .. N
      BY SMT
    <2>2. f = [n \in 1 .. 0 |-> FlatFrom(seqs, n, f)]
      BY <2>1
    <2> QED
      BY <2>1, <2>2
  <1>2. ASSUME NEW k \in 0 .. N - 1, k \in S
        PROVE  k + 1 \in S
    <2>1. PICK f : f = [n \in 1 .. k |-> FlatFrom(seqs, n, f)]
      BY <1>2
    <2> DEFINE g == [n \in 1 .. k + 1 |->
                       IF n = k + 1 THEN FlatFrom(seqs, n, f) ELSE f[n]]
    <2>2. ASSUME NEW n \in 1 .. k + 1
          PROVE  g[n] = FlatFrom(seqs, n, g)
      <3>1. n = 1 \/ (n # 1 /\ n - 1 \in 1 .. k + 1 /\ n - 1 # k + 1)
        BY SMT
      <3>2. FlatFrom(seqs, n, g) = FlatFrom(seqs, n, f)
        <4>1. n # 1 => g[n - 1] = f[n - 1]
          BY <3>1
        <4> HIDE DEF g
        <4> QED
          BY <4>1 DEF FlatFrom
      <3>3. g[n] = FlatFrom(seqs, n, f)
        <4>1. CASE n = k + 1
          BY <4>1
        <4>2. CASE n # k + 1
          <5>1. n \in 1 .. k
            BY <4>2, SMT
          <5> QED
            BY <2>1, <4>2, <5>1
        <4> QED
          BY <4>1, <4>2
      <3> QED
        BY <3>2, <3>3
    <2>3. g = [n \in 1 .. k + 1 |-> FlatFrom(seqs, n, g)]
      <3>1. g = [n \in 1 .. k + 1 |-> g[n]]
        OBVIOUS
      <3> HIDE DEF g
      <3> QED
        BY <2>2, <3>1
    <2>4. k + 1 \in 0 .. N
      BY SMT
    <2> QED
      BY <2>3, <2>4
  <1>3. N \in 0 .. N
    BY SMT
  <1>4. N \in S
    <2> HIDE DEF S
    <2> QED
      BY <1>1, <1>2, <1>3, InductionLemma
  <1> QED
    BY <1>4

\* FlattenSeq is the last of the partial concatenations.
LEMMA FlattenLemma ==
    ASSUME NEW seqs, Len(seqs) \in Nat, Len(seqs) # 0
    PROVE  \E f : /\ f[1] = seqs[1]
                  /\ \A n \in 2 .. Len(seqs) : f[n] = f[n - 1] \o seqs[n]
                  /\ FlattenSeq(seqs) = f[Len(seqs)]
  <1> DEFINE f == CHOOSE g : g = [n \in 1 .. Len(seqs) |-> FlatFrom(seqs, n, g)]
  <1>1. f = [n \in 1 .. Len(seqs) |-> FlatFrom(seqs, n, f)]
    BY FlatExists
  <1>2. FlattenSeq(seqs) = f[Len(seqs)]
    BY DEF FlattenSeq, FlatFrom
  <1> HIDE DEF f
  <1>3. f[1] = seqs[1]
    <2>1. 1 \in 1 .. Len(seqs)
      BY SMT
    <2> QED
      BY <1>1, <2>1 DEF FlatFrom
  <1>4. ASSUME NEW n \in 2 .. Len(seqs)
        PROVE  f[n] = f[n - 1] \o seqs[n]
    <2>1. n \in 1 .. Len(seqs) /\ n # 1
      BY SMT
    <2> QED
      BY <1>1, <2>1 DEF FlatFrom
  <1> QED
    BY <1>2, <1>3, <1>4

\* What getRClevel() returns.
LevelSet == {"MARK", "SPACE", "error"}
\* f holds the partial concatenations of the first N sequences.
Flattens(f, seqs, N) ==
    /\ \A n \in 1 .. N : seqs[n] \in Seq(LevelSet)
    /\ f[1] = seqs[1] /\ \A n \in 2 .. N : f[n] = f[n - 1] \o seqs[n]
\* p is a prefix of l.
Begins(l, p) ==
    /\ l \in Seq(LevelSet) /\ p \in Seq(LevelSet) /\ Len(p) <= Len(l)
    /\ \A k \in 1 .. Len(p) : l[k] = p[k]

\* An entry is an error or a run of a width it fits.
LEMMA EntryIsSeq ==
    ASSUME NEW h, NEW i, NEW t1
    PROVE  /\ entryLevels(h, i, t1) \in Seq(LevelSet)
           /\ \/ entryLevels(h, i, t1) = <<"error">>
              \/ \E w \in 1 .. 3 : /\ entryLevels(h, i, t1) = Run(i, w)
                                   /\ Fits(h, i, t1, w)
  <1> DEFINE Result == /\ entryLevels(h, i, t1) \in Seq(LevelSet)
                       /\ \/ entryLevels(h, i, t1) = <<"error">>
                          \/ \E w \in 1 .. 3 :
                                 /\ entryLevels(h, i, t1) = Run(i, w)
                                 /\ Fits(h, i, t1, w)
  <1> SUFFICES Result
    OBVIOUS
  <1>1. CASE ~Fits(h, i, t1, 1) /\ ~Fits(h, i, t1, 2) /\ ~Fits(h, i, t1, 3)
    <2>1. entryLevels(h, i, t1) = <<"error">>
      BY <1>1, EntryError
    <2>2. <<"error">> \in Seq(LevelSet)
      BY DEF LevelSet
    <2> QED
      BY <2>1, <2>2
  <1>2. ASSUME NEW w \in 1 .. 3, Fits(h, i, t1, w), \A n \in 1 .. w - 1 : ~Fits(h, i, t1, n)
        PROVE  Result
    <2>1. entryLevels(h, i, t1) = Run(i, w)
      BY <1>2, EntryLevels
    <2>2. Run(i, w) \in [1 .. w -> LevelSet] /\ w \in Nat
      BY DEF Run, Level, LevelSet
    <2>3. entryLevels(h, i, t1) \in Seq(LevelSet)
      BY <2>1, <2>2, FunctionIsSeq
    <2> QED
      BY <1>2, <2>1, <2>3, Zenon
  <1> HIDE DEF Result
  <1>3. CASE Fits(h, i, t1, 1)
    <2>1. 1 \in 1 .. 3 /\ \A n \in 1 .. 1 - 1 : ~Fits(h, i, t1, n)
      BY SMT
    <2> QED
      BY <1>2, <1>3, <2>1
  <1>4. CASE ~Fits(h, i, t1, 1) /\ Fits(h, i, t1, 2)
    <2>1. 2 \in 1 .. 3 /\ \A n \in 1 .. 2 - 1 : n = 1
      BY SMT
    <2>2. \A n \in 1 .. 2 - 1 : ~Fits(h, i, t1, n)
      BY <1>4, <2>1
    <2> QED
      BY <1>2, <1>4, <2>1, <2>2
  <1>5. CASE ~Fits(h, i, t1, 1) /\ ~Fits(h, i, t1, 2) /\ Fits(h, i, t1, 3)
    <2>1. 3 \in 1 .. 3 /\ \A n \in 1 .. 3 - 1 : n = 1 \/ n = 2
      BY SMT
    <2>2. \A n \in 1 .. 3 - 1 : ~Fits(h, i, t1, n)
      BY <1>5, <2>1
    <2> QED
      BY <1>2, <1>5, <2>1, <2>2
  <1>6. \/ ~Fits(h, i, t1, 1) /\ ~Fits(h, i, t1, 2) /\ ~Fits(h, i, t1, 3)
        \/ Fits(h, i, t1, 1) \/ (~Fits(h, i, t1, 1) /\ Fits(h, i, t1, 2))
        \/ (~Fits(h, i, t1, 1) /\ ~Fits(h, i, t1, 2) /\ Fits(h, i, t1, 3))
    BY Zenon
  <1> QED
    BY <1>1, <1>3, <1>4, <1>5, <1>6, Zenon

\* What has been put together stays at the beginning.
LEMMA PrefixLemma ==
    ASSUME NEW N \in Nat, NEW seqs, NEW f, Flattens(f, seqs, N), NEW m \in 1 .. N
    PROVE  Begins(f[N], f[m])
  <1>0. /\ \A n \in 1 .. N : seqs[n] \in Seq(LevelSet)
        /\ f[1] = seqs[1] /\ \A n \in 2 .. N : f[n] = f[n - 1] \o seqs[n]
    BY DEF Flattens
  <1> DEFINE A == {n \in 0 .. N : n = 0 \/ f[n] \in Seq(LevelSet)}
             D == {d \in 0 .. N - m : /\ Len(f[m]) <= Len(f[m + d])
                                      /\ \A k \in 1 .. Len(f[m]) : f[m + d][k] = f[m][k]}
  <1>1. 0 \in A
    BY SMT
  <1>2. ASSUME NEW n \in 0 .. N - 1, n \in A
        PROVE  n + 1 \in A
    <2>1. n + 1 \in 1 .. N /\ n + 1 \in 0 .. N /\ (n + 1) - 1 = n
      BY SMT
    <2>2. CASE n = 0
      BY <1>0, <2>1, <2>2
    <2>3. CASE n # 0
      <3>1. n + 1 \in 2 .. N
        BY <2>1, <2>3, SMT
      <3>2. f[n + 1] = f[n] \o seqs[n + 1]
        BY <1>0, <2>1, <3>1
      <3>3. f[n] \in Seq(LevelSet) /\ seqs[n + 1] \in Seq(LevelSet)
        BY <1>0, <1>2, <2>1, <2>3
      <3>4. f[n + 1] \in Seq(LevelSet)
        BY <3>2, <3>3, ConcatProperties
      <3> QED
        BY <2>1, <3>4
    <2> QED
      BY <2>2, <2>3
  <1>3. ASSUME NEW n \in 1 .. N
        PROVE  f[n] \in Seq(LevelSet)
    <2>1. \A k \in 0 .. N : k \in A
      <3> HIDE DEF A
      <3> QED
        BY <1>1, <1>2, InductionLemma
    <2>2. n \in 0 .. N /\ n # 0
      BY SMT
    <2> QED
      BY <2>1, <2>2
  <1>4. 0 \in D
    <2>1. 0 \in 0 .. N - m /\ m + 0 = m
      BY SMT
    <2>2. Len(f[m]) <= Len(f[m])
      BY <1>3, LenProperties, SMT
    <2> QED
      BY <2>1, <2>2
  <1>5. ASSUME NEW d \in 0 .. N - m - 1, d \in D
        PROVE  d + 1 \in D
    <2>1. PICK e \in 1 .. N : e = m + d
      BY SMT
    <2>2. d + 1 \in 0 .. N - m /\ m + (d + 1) = e + 1 /\ e + 1 \in 2 .. N /\ (e + 1) - 1 = e
      BY <2>1, SMT
    <2>3. f[e + 1] = f[e] \o seqs[e + 1] /\ e + 1 \in 1 .. N
      <3>1. f[e + 1] = f[(e + 1) - 1] \o seqs[e + 1]
        BY <1>0, <2>2, Zenon
      <3>2. e + 1 \in 1 .. N
        BY <2>2, SMT
      <3> QED
        BY <2>2, <3>1, <3>2
    <2>4. f[e] \in Seq(LevelSet) /\ seqs[e + 1] \in Seq(LevelSet) /\ f[m] \in Seq(LevelSet)
      BY <1>0, <1>3, <2>3
    <2>5. PICK a \in Nat, b \in Nat, c \in Nat :
             a = Len(f[m]) /\ b = Len(f[e]) /\ c = Len(seqs[e + 1])
      BY <2>4, LenProperties
    <2>6. /\ Len(f[e] \o seqs[e + 1]) = b + c
          /\ \A k \in 1 .. b + c :
                (f[e] \o seqs[e + 1])[k] = IF k <= b THEN f[e][k] ELSE seqs[e + 1][k - b]
      BY <2>4, <2>5, ConcatProperties
    <2>7. a <= b /\ \A k \in 1 .. a : f[e][k] = f[m][k]
      BY <1>5, <2>1, <2>5
    <2>8. a <= b + c
      BY <2>7, SMT
    <2>9. ASSUME NEW k \in 1 .. a
          PROVE  f[e + 1][k] = f[m][k]
      <3>1. k \in 1 .. b + c /\ k <= b
        BY <2>7, SMT
      <3> QED
        BY <2>3, <2>6, <2>7, <3>1
    <2>10. Len(f[m]) <= Len(f[e + 1]) /\ \A k \in 1 .. Len(f[m]) : f[e + 1][k] = f[m][k]
      BY <2>3, <2>5, <2>6, <2>8, <2>9
    <2> QED
      BY <2>2, <2>10
  <1>6. N - m \in Nat /\ m + (N - m) = N /\ N \in 1 .. N
    BY SMT
  <1>7. N - m \in D
    <2>1. N - m \in 0 .. N - m
      BY <1>6, SMT
    <2> HIDE DEF D
    <2> QED
      BY <1>4, <1>5, <1>6, <2>1, InductionLemma
  <1> QED
    BY <1>3, <1>6, <1>7 DEF Begins

\* The levels of a recording begin with those of its first two entries.
LEMMA LevelsBegin ==
    ASSUME NEW h, NEW from \in Nat, NEW t1, NEW N \in Nat, N = h.rawlen - from, N >= 2
    PROVE  LET l == levels(h, from, t1)
               p == entryLevels(h, from, t1) \o entryLevels(h, from + 1, t1)
           IN  Begins(l, p)
  <1> DEFINE seqs == [k \in 1 .. N |-> entryLevels(h, from + k - 1, t1)]
             l == levels(h, from, t1)
             p == entryLevels(h, from, t1) \o entryLevels(h, from + 1, t1)
  <1>1. \A k \in 1 .. N : seqs[k] \in Seq(LevelSet)
    BY EntryIsSeq
  <1>2. Len(seqs) = N
    BY SMT
  <1>3. l = FlattenSeq(seqs)
    BY DEF levels
  <1>4. seqs[1] \o seqs[2] = p
    <2>1. 1 \in 1 .. N /\ 2 \in 1 .. N /\ from + 1 - 1 = from /\ from + 2 - 1 = from + 1
      BY SMT
    <2> QED
      BY <2>1
  <1> HIDE DEF seqs, l, p
  <1>5. PICK f : /\ f[1] = seqs[1] /\ \A n \in 2 .. N : f[n] = f[n - 1] \o seqs[n]
                 /\ l = f[N]
    <2>1. Len(seqs) \in Nat /\ Len(seqs) # 0
      BY <1>2, SMT
    <2>2. PICK f : /\ f[1] = seqs[1]
                   /\ \A n \in 2 .. Len(seqs) : f[n] = f[n - 1] \o seqs[n]
                   /\ FlattenSeq(seqs) = f[Len(seqs)]
      BY <2>1, FlattenLemma, Zenon
    <2>3. f[1] = seqs[1] /\ l = f[N] /\ \A n \in 2 .. N : f[n] = f[n - 1] \o seqs[n]
      BY <1>2, <1>3, <2>2, Zenon
    <2> QED
      BY <2>3, Zenon
  <1>6. 2 \in 2 .. N /\ 2 \in 1 .. N /\ 2 - 1 = 1
    BY SMT
  <1>7. f[2] = p
    BY <1>4, <1>5, <1>6
  <1>8. Flattens(f, seqs, N)
    BY <1>1, <1>5 DEF Flattens
  <1>9. Begins(f[N], f[2])
    BY <1>6, <1>8, PrefixLemma
  <1> QED
    BY <1>5, <1>7, <1>9, Zenon DEF l, p

-----------------------------------------------------------------------------
\* What makes a decoder give up.
LEMMA RejectHeader ==
    ASSUME NEW h, NEW type, NEW shortest, NEW stops,
           ~MATCH_MARK(h.rawbuf[1], Distance[type].hdr[1])
    PROVE  decodeDistance(h, type, shortest, stops) = Nothing
  BY Zenon DEF decodeDistance

\* A decoder of a pulse-distance code refuses a recording that is too
\* short.
LEMMA RejectShort ==
    ASSUME NEW h, NEW type, NEW shortest, NEW stops, ~(h.rawlen >= shortest)
    PROVE  decodeDistance(h, type, shortest, stops) = Nothing
  BY Zenon DEF decodeDistance

\* A repeat code has a length of its own.
LEMMA RejectRepeat ==
    ASSUME NEW h, NEW type, IF type = "JVC" THEN h.rawlen # 34 ELSE h.rawlen # 4
    PROVE  decodeRepeat(h, type) = Nothing
  BY DEF decodeRepeat

\* All that a decoder of a pulse-width code finds in another one's recording:
\* the gap of a double click.
GapOnly(h, double) ==
    IF h.rawlen < 26 THEN Nothing
    ELSE IF h.rawbuf[0] < double THEN Repeat("SANYO") ELSE Nothing

\* A decoder of a pulse-width code looks at the gap first, and refuses a
\* recording whose header is not its own.
LEMMA RejectWidth ==
    ASSUME NEW h, NEW type, NEW double, NEW headerOK, NEW from, NEW space, NEW one, NEW zero,
           ~headerOK
    PROVE  decodeWidth(h, type, double, headerOK, from, space, one, zero) = GapOnly(h, double)
  BY Zenon DEF decodeWidth, GapOnly

\* SONY refuses another first mark.
LEMMA RejectSony ==
    ASSUME NEW h, ~MATCH_MARK(h.rawbuf[1], 2400)
    PROVE  decodeSony(h) = GapOnly(h, 500)
  BY RejectWidth DEF decodeSony

\* SANYO refuses unless both of the first entries last 3500.
LEMMA RejectSanyo ==
    ASSUME NEW h, ~MATCH_MARK(h.rawbuf[1], 3500) \/ ~MATCH_MARK(h.rawbuf[2], 3500)
    PROVE  decodeSanyo(h) = GapOnly(h, 800)
  <1> DEFINE headerOK == \A i \in 1 .. 2 : MATCH_MARK(h.rawbuf[i], 3500)
  <1>1. 1 \in 1 .. 2 /\ 2 \in 1 .. 2
    BY SMT
  <1>2. ~headerOK
    BY <1>1
  <1>3. decodeSanyo(h) = decodeWidth(h, "SANYO", 800, headerOK, 3, 950, 2400, 700)
    BY Zenon DEF decodeSanyo
  <1> HIDE DEF headerOK
  <1> QED
    BY <1>2, <1>3, RejectWidth

\* MITSUBISHI refuses a first mark that is not 350.
LEMMA RejectMitsubishi ==
    ASSUME NEW h, ~MATCH_MARK(h.rawbuf[1], 350)
    PROVE  decodeMitsubishi(h) = Nothing
  BY DEF decodeMitsubishi

\* RC6 refuses another first mark.
LEMMA RejectRC6 ==
    ASSUME NEW h, ~MATCH_MARK(h.rawbuf[1], 2666)
    PROVE  decodeRC6(h) = Nothing
  BY DEF decodeRC6

\* RC5 begins with a mark, a space and a mark of one level each.
StartBits == <<"MARK", "SPACE", "MARK">>
\* Among the first three levels there is one that is not RC5's start
\* bits.
Differs(p) == \E k \in 1 .. 3 : k \in 1 .. Len(p) /\ p[k] # StartBits[k]

\* RC5 refuses a recording whose first two entries differ from its start
\* bits.
LEMMA RejectRC5 ==
    ASSUME NEW h, h.rawlen \in Nat, h.rawlen >= 3,
           Differs(entryLevels(h, 1, RC5_T1) \o entryLevels(h, 2, RC5_T1))
    PROVE  decodeRC5(h) = Nothing
  <1> DEFINE l == levels(h, 1, RC5_T1)
             p == entryLevels(h, 1, RC5_T1) \o entryLevels(h, 2, RC5_T1)
  <1>1. Begins(l, p)
    <2>1. 1 + 1 = 2 /\ 1 \in Nat
      BY SMT
    <2>2. PICK N \in Nat : N = h.rawlen - 1 /\ N >= 2
      BY SMT
    <2> QED
      BY <2>1, <2>2, LevelsBegin
  <1>3. PICK k \in 1 .. 3 : k \in 1 .. Len(p) /\ p[k] # StartBits[k]
    BY DEF Differs
  <1> HIDE DEF l, p
  <1>2. ASSUME Len(l) >= 3
        PROVE  SubSeq(l, 1, 3) # StartBits
    <2>1. l \in Seq(LevelSet) /\ l[k] = p[k]
      BY <1>1, <1>3 DEF Begins
    <2>2. Len(l) \in Nat /\ 1 \in 1 .. Len(l) + 1 /\ 3 \in 1 - 1 .. Len(l) /\ k \in 1 .. 3 - 1 + 1
      BY <1>2, <2>1, LenProperties, SMT
    <2>3. SubSeq(l, 1, 3)[k] = l[1 + k - 1]
      BY <2>1, <2>2, SubSeqProperties
    <2>4. 1 + k - 1 = k
      BY SMT
    <2> QED
      BY <1>3, <2>1, <2>3, <2>4
  <1> QED
    BY <1>2 DEF decodeRC5, StartBits, l

\* An entry that is an error, or longer than a bit, differs.
LEMMA FirstDiffers ==
    ASSUME NEW a \in Seq(LevelSet), NEW b \in Seq(LevelSet),
           NEW k \in 1 .. 3, k \in 1 .. Len(a), a[k] # StartBits[k]
    PROVE  Differs(a \o b)
  <1>1. /\ a \o b \in Seq(LevelSet) /\ Len(a \o b) = Len(a) + Len(b)
        /\ \A n \in 1 .. Len(a) + Len(b) :
              (a \o b)[n] = IF n <= Len(a) THEN a[n] ELSE b[n - Len(a)]
    BY ConcatProperties
  <1>2. Len(a) \in Nat /\ Len(b) \in Nat
    BY LenProperties
  <1>3. k \in 1 .. Len(a) + Len(b) /\ k <= Len(a)
    BY <1>2, SMT
  <1> QED
    BY <1>1, <1>3 DEF Differs

\* A level of the second entry that differs is a level of the recording
\* that differs.
LEMMA SecondDiffers ==
    ASSUME NEW a \in Seq(LevelSet), NEW b \in Seq(LevelSet),
           NEW k \in 1 .. 3, NEW m \in 1 .. Len(b), k = Len(a) + m, b[m] # StartBits[k]
    PROVE  Differs(a \o b)
  <1>1. /\ a \o b \in Seq(LevelSet) /\ Len(a \o b) = Len(a) + Len(b)
        /\ \A n \in 1 .. Len(a) + Len(b) :
              (a \o b)[n] = IF n <= Len(a) THEN a[n] ELSE b[n - Len(a)]
    BY ConcatProperties
  <1>2. Len(a) \in Nat /\ Len(b) \in Nat
    BY LenProperties
  <1>3. k \in 1 .. Len(a) + Len(b) /\ ~(k <= Len(a)) /\ k - Len(a) = m
    BY <1>2, SMT
  <1> QED
    BY <1>1, <1>3 DEF Differs

\* An error counts as one level.
LEMMA ErrorLevel ==
    <<"error">> \in Seq(LevelSet) /\ Len(<<"error">>) = 1 /\ <<"error">>[1] = "error"
  BY DEF LevelSet

\* A run of w units is w times the level of its entry.
LEMMA RunLevels ==
    ASSUME NEW i, NEW w \in 1 .. 3
    PROVE  /\ Run(i, w) \in Seq(LevelSet) /\ Len(Run(i, w)) = w
           /\ \A n \in 1 .. w : Run(i, w)[n] = Level(i)
  <1>1. Run(i, w) \in [1 .. w -> LevelSet] /\ w \in Nat
    BY DEF Run, Level, LevelSet
  <1>2. Run(i, w) \in Seq(LevelSet) /\ Len(Run(i, w)) = w
    BY <1>1, FunctionIsSeq
  <1>3. \A n \in 1 .. w : Run(i, w)[n] = Level(i)
    BY DEF Run
  <1> QED
    BY <1>2, <1>3

-----------------------------------------------------------------------------
\* A code told apart by its spaces is not taken for one of the others.
LEMMA HeaderRejected ==
    ASSUME NEW h, NEW c, Bounded(c), NEW data, Carries(h, c, data),
           c.hdr[1] >= 5000 \/ c.hdr[2] = 1750
    PROVE  /\ decodeSony(h) = GapOnly(h, 500) /\ decodeSanyo(h) = GapOnly(h, 800)
           /\ decodeMitsubishi(h) = Nothing
           /\ decodeRC5(h) = Nothing /\ decodeRC6(h) = Nothing
  <1> DEFINE s == h.rawbuf[1]
             t == h.rawbuf[2]
             us == c.hdr[1]
             vs == c.hdr[2]
  <1>1. /\ s \in Nat /\ t \in Nat /\ us \in Nat /\ vs \in Nat
        /\ us >= 3502 /\ (us >= 5000 \/ vs = 1750)
        /\ us < 50 * s /\ 50 * t < vs
    <2>1. MarkTicks(h.rawbuf[1], c.hdr[1]) /\ SpaceTicks(h.rawbuf[2], c.hdr[2])
      BY DEF Carries
    <2>2. c.hdr[1] \in Nat /\ c.hdr[2] \in Nat /\ c.hdr[1] >= 3502
      BY DEF Bounded
    <2> QED
      BY <2>1, <2>2 DEF MarkTicks, SpaceTicks
  <1> HIDE DEF s, t, us, vs
  <1>2. s >= 71 /\ (s >= 101 \/ t <= 34)
    BY <1>1, SMT
  <1>3. /\ ~MATCH_MARK(s, 2400) /\ ~MATCH_MARK(s, 350) /\ ~MATCH_MARK(s, 2666)
        /\ ~MATCH_MARK(s, 3500) \/ ~MATCH_MARK(t, 3500)
    BY <1>1, <1>2, SMT DEF MATCH_MARK, MATCH, MARK_EXCESS
  <1>4. decodeRC5(h) = Nothing
    <2>1. h.rawlen \in Nat /\ h.rawlen >= 3
      <3>1. h.rawlen = 2 * c.bits + 4 /\ c.bits \in Nat
        BY DEF Carries, Bounded
      <3> QED
        BY <3>1, SMT
    <2>2. ~Fits(h, 1, RC5_T1, 1) /\ ~Fits(h, 1, RC5_T1, 2) /\ ~Fits(h, 1, RC5_T1, 3)
      BY <1>1, <1>2, SMT DEF s, Fits, RC5_T1, MATCH, Excess, MARK_EXCESS
    <2> DEFINE e == entryLevels(h, 2, RC5_T1)
               error == <<"error">>
    <2>3. entryLevels(h, 1, RC5_T1) = error
      BY <2>2, EntryError
    <2>4. e \in Seq(LevelSet)
      BY EntryIsSeq
    <2>5. error \in Seq(LevelSet) /\ Len(error) = 1 /\ error[1] = "error"
      BY ErrorLevel
    <2> HIDE DEF e, error
    <2>7. 1 \in 1 .. 3 /\ 1 \in 1 .. 1 /\ "error" # StartBits[1]
      BY SMT DEF StartBits
    <2>8. Differs(error \o e)
      BY <2>4, <2>5, <2>7, FirstDiffers
    <2> QED
      BY <2>1, <2>3, <2>8, RejectRC5 DEF e
  <1> QED
    BY <1>3, <1>4, RejectSony, RejectSanyo, RejectMitsubishi, RejectRC6 DEF s, t

\* A decoded code is an answer.
LEMMA DecodedIsSomething ==
    ASSUME NEW type, type # "none", NEW bits, NEW data
    PROVE  Decoded(type, bits, data) # Nothing
  BY DEF Decoded, Nothing

\* The headers are far enough apart.
LEMMA HeadersDiffer ==
    ASSUME NEW s
    PROVE  /\ MarkTicks(s, 3502) => ~MATCH_MARK(s, 9000)
           /\ MarkTicks(s, 8000) => ~MATCH_MARK(s, 3502)
           /\ MarkTicks(s, 5000) => /\ ~MATCH_MARK(s, 9000) /\ ~MATCH_MARK(s, 3502)
                                    /\ ~MATCH_MARK(s, 8000)
           /\ MarkTicks(s, 600) => /\ ~MATCH_MARK(s, 9000) /\ ~MATCH_MARK(s, 2400)
                                   /\ ~MATCH_MARK(s, 3500) /\ ~MATCH_MARK(s, 350)
                                   /\ ~MATCH_MARK(s, 2666) /\ ~MATCH_MARK(s, 3502)
                                   /\ ~MATCH_MARK(s, 8000)
  BY SMT DEF MarkTicks, MATCH_MARK, MATCH, MARK_EXCESS

\* The lengths that tell the pulse-distance codes apart.
LEMMA DistanceValues ==
    /\ Distance["NEC"].hdr[1] = 9000 /\ Distance["NEC"].bits = 32
    /\ Distance["PANASONIC"].hdr[1] = 3502 /\ Distance["PANASONIC"].hdr[2] = 1750
    /\ Distance["PANASONIC"].bits = 48
    /\ Distance["LG"].hdr[1] = 8000 /\ Distance["LG"].bits = 28
    /\ Distance["JVC"].hdr[1] = 8000 /\ Distance["JVC"].bits = 16
    /\ Distance["JVC"].bit = 600 /\ Distance["JVC"].one = 1600 /\ Distance["JVC"].zero = 550
    /\ Distance["SAMSUNG"].hdr[1] = 5000 /\ Distance["SAMSUNG"].bits = 32
  <1>1. /\ Distance["NEC"] = [hdr |-> <<9000, 4500>>, bit |-> 560, one |-> 1600,
                              zero |-> 560, bits |-> 32]
        /\ Distance["PANASONIC"] = [hdr |-> <<3502, 1750>>, bit |-> 502, one |-> 1244,
                                    zero |-> 400, bits |-> 48]
        /\ Distance["LG"] = [hdr |-> <<8000, 4000>>, bit |-> 600, one |-> 1600,
                             zero |-> 550, bits |-> 28]
        /\ Distance["JVC"] = [hdr |-> <<8000, 4000>>, bit |-> 600, one |-> 1600,
                              zero |-> 550, bits |-> 16]
        /\ Distance["SAMSUNG"] = [hdr |-> <<5000, 5000>>, bit |-> 560, one |-> 1600,
                                  zero |-> 560, bits |-> 32]
    BY DEF Distance
  <1>2. /\ Distance["NEC"].hdr = <<9000, 4500>> /\ Distance["NEC"].bits = 32
        /\ Distance["PANASONIC"].hdr = <<3502, 1750>> /\ Distance["PANASONIC"].bits = 48
        /\ Distance["LG"].hdr = <<8000, 4000>> /\ Distance["LG"].bits = 28
        /\ Distance["JVC"].hdr = <<8000, 4000>> /\ Distance["JVC"].bits = 16
        /\ Distance["JVC"].bit = 600 /\ Distance["JVC"].one = 1600 /\ Distance["JVC"].zero = 550
        /\ Distance["SAMSUNG"].hdr = <<5000, 5000>> /\ Distance["SAMSUNG"].bits = 32
    BY <1>1
  <1> QED
    BY <1>2

\* The decoders that are tried behind those that look at the gap.
Later(h) ==
    OrElse(decodeMitsubishi(h),
    OrElse(decodeRC5(h),                OrElse(decodeRC6(h),
    OrElse(decodeDistance(h, "PANASONIC", 0, 0),
    OrElse(decodeDistance(h, "LG", 57, 1),
    OrElse(decodeRepeat(h, "JVC"),      OrElse(decodeDistance(h, "JVC", 33, 1),
    OrElse(decodeRepeat(h, "SAMSUNG"),  OrElse(decodeDistance(h, "SAMSUNG", 68, 0),
           decodeHash(h))))))))))

\* What is neither NEC nor of the widths of Sony and Sanyo is left to those
\* decoders, unless the gap is taken for the one of a double click.
LEMMA DecodedLater ==
    ASSUME NEW h, NEW type, type # "NEC", type # "SONY",
           h.rawlen \in Nat, h.rawbuf[0] \in Nat,
           decodeRepeat(h, "NEC") = Nothing, decodeDistance(h, "NEC", 68, 0) = Nothing,
           decodeSony(h) = GapOnly(h, 500), decodeSanyo(h) = GapOnly(h, 800)
    PROVE  decode(h) = IF Doubled(type, h) THEN Repeat("SANYO") ELSE Later(h)
  <1>1. Repeat("SANYO") # Nothing
    BY DecodedIsSomething DEF Repeat
  <1>2. decode(h) = OrElse(decodeRepeat(h, "NEC"), OrElse(decodeDistance(h, "NEC", 68, 0),
                    OrElse(decodeSony(h), OrElse(decodeSanyo(h), Later(h)))))
    BY Zenon DEF decode, Later
  <1>3. decode(h) = IF GapOnly(h, 500) # Nothing THEN GapOnly(h, 500)
                    ELSE IF GapOnly(h, 800) # Nothing THEN GapOnly(h, 800) ELSE Later(h)
    <2>1. ASSUME NEW x
          PROVE  OrElse(Nothing, x) = x
      BY Zenon DEF OrElse
    <2>2. decode(h) = OrElse(Nothing, OrElse(Nothing,
                      OrElse(GapOnly(h, 500), OrElse(GapOnly(h, 800), Later(h)))))
      BY <1>2, Zenon
    <2> DEFINE rest == OrElse(GapOnly(h, 500), OrElse(GapOnly(h, 800), Later(h)))
    <2>3. decode(h) = rest
      <3> HIDE DEF rest
      <3>1. decode(h) = OrElse(Nothing, OrElse(Nothing, rest))
        BY <2>2, Zenon DEF rest
      <3> QED
        BY <2>1, <3>1, Zenon
    <2> QED
      BY <2>3, Zenon DEF OrElse
  <1>4. CASE h.rawlen < 26
    <2>1. GapOnly(h, 500) = Nothing /\ GapOnly(h, 800) = Nothing
      BY <1>4 DEF GapOnly
    <2>2. ~Doubled(type, h)
      BY <1>4, SMT DEF Doubled
    <2> QED
      BY <1>3, <2>1, <2>2
  <1>5. CASE ~(h.rawlen < 26) /\ h.rawbuf[0] < 800
    <2>1. GapOnly(h, 800) = Repeat("SANYO")
      BY <1>5 DEF GapOnly
    <2>2. GapOnly(h, 500) = Repeat("SANYO") \/ GapOnly(h, 500) = Nothing
      BY DEF GapOnly
    <2>3. h.rawlen >= 26
      BY <1>5, SMT
    <2>4. Doubled(type, h)
      BY <1>5, <2>3 DEF Doubled
    <2> QED
      BY <1>1, <1>3, <2>1, <2>2, <2>4
  <1>6. CASE ~(h.rawlen < 26) /\ ~(h.rawbuf[0] < 800)
    <2>1. ~(h.rawbuf[0] < 500)
      BY <1>6, SMT
    <2>2. GapOnly(h, 500) = Nothing /\ GapOnly(h, 800) = Nothing
      BY <1>6, <2>1 DEF GapOnly
    <2>3. ~Doubled(type, h)
      BY <1>6 DEF Doubled
    <2> QED
      BY <1>3, <2>2, <2>3
  <1> QED
    BY <1>4, <1>5, <1>6

\* A code of each of these kinds is decoded, whatever its value, unless the
\* gap before it is short.
LEMMA DistanceDecoded ==
    ASSUME NEW type \in DOMAIN Distance,
           NEW data \in [1 .. Distance[type].bits -> {0, 1}], NEW h,
           Heard(h, Periods(sendDistance(Distance[type], data, TRUE)))
    PROVE  decode(h) = IF Doubled(type, h) THEN Repeat("SANYO")
                       ELSE Decoded(type, Distance[type].bits, data)
  <1>1. Carries(h, Distance[type], data) /\ Bounded(Distance[type])
    BY HeardCarries, DistanceBounded
  <1>2. h.rawlen = 2 * Distance[type].bits + 4 /\ MarkTicks(h.rawbuf[1], Distance[type].hdr[1])
    BY <1>1 DEF Carries
  <1> DEFINE r == Decoded(type, Distance[type].bits, data)
  <1>3. r # Nothing
    BY DistanceTypes, DecodedIsSomething
  <1>4. ASSUME NEW shortest \in Nat, shortest <= h.rawlen, NEW stops
        PROVE  decodeDistance(h, type, shortest, stops) = r
    <2>1. type = "PANASONIC" => Distance[type].hdr[2] = 1750
      BY DistanceValues
    <2>2. shortest <= 2 * Distance[type].bits + 4
      BY <1>2, <1>4
    <2> QED
      BY <1>1, <2>1, <2>2, DistanceDecodes
  <1>5. Distance[type].hdr[1] >= 5000 \/ Distance[type].hdr[2] = 1750
    BY DistanceTypes, DistanceValues
  <1>6. /\ decodeSony(h) = GapOnly(h, 500) /\ decodeSanyo(h) = GapOnly(h, 800)
        /\ decodeMitsubishi(h) = Nothing
        /\ decodeRC5(h) = Nothing /\ decodeRC6(h) = Nothing
    BY <1>1, <1>5, HeaderRejected
  <1> HIDE DEF r
  <1>12. h.rawbuf[0] \in Nat
    BY <1>1 DEF Carries
  <1>7. CASE type = "NEC"
    <2>1. h.rawlen = 68 /\ MarkTicks(h.rawbuf[1], 9000)
      BY <1>2, <1>7, DistanceValues
    <2>2. h.rawlen # 4
      BY <2>1, SMT
    <2>3. decodeRepeat(h, "NEC") = Nothing
      BY <2>2, RejectRepeat
    <2>4. 68 \in Nat /\ 68 <= h.rawlen
      BY <2>1, SMT
    <2>5. decodeDistance(h, "NEC", 68, 0) = r
      BY <1>4, <1>7, <2>4
    <2>6. ~Doubled(type, h)
      BY <1>7 DEF Doubled
    <2> QED
      BY <1>3, <2>3, <2>5, <2>6 DEF decode, OrElse, r
  <1>8. CASE type = "PANASONIC"
    <2>1. h.rawlen = 100 /\ MarkTicks(h.rawbuf[1], 3502)
      BY <1>2, <1>8, DistanceValues
    <2>2. h.rawlen # 4
      BY <2>1, SMT
    <2>3. decodeRepeat(h, "NEC") = Nothing
      BY <2>2, RejectRepeat
    <2>4. ~MATCH_MARK(h.rawbuf[1], Distance["NEC"].hdr[1])
      BY <2>1, HeadersDiffer, DistanceValues
    <2>5. decodeDistance(h, "NEC", 68, 0) = Nothing
      BY <2>4, RejectHeader
    <2>6. 0 \in Nat /\ 0 <= h.rawlen
      BY <2>1, SMT
    <2>7. decodeDistance(h, "PANASONIC", 0, 0) = r
      BY <1>4, <1>8, <2>6
    <2>10. Later(h) = r
      BY <1>3, <1>6, <2>7 DEF Later, OrElse
    <2>11. h.rawlen \in Nat /\ type # "NEC" /\ type # "SONY"
      BY <1>8, <2>1
    <2> QED
      BY <1>6, <1>12, <2>3, <2>5, <2>10, <2>11, DecodedLater DEF r
  <1>9. CASE type = "LG"
    <2>1. h.rawlen = 60 /\ MarkTicks(h.rawbuf[1], 8000)
      BY <1>2, <1>9, DistanceValues
    <2>2. h.rawlen # 4
      BY <2>1, SMT
    <2>3. decodeRepeat(h, "NEC") = Nothing
      BY <2>2, RejectRepeat
    <2>4. ~(h.rawlen >= 68)
      BY <2>1, SMT
    <2>5. decodeDistance(h, "NEC", 68, 0) = Nothing
      BY <2>4, RejectShort
    <2>6. ~MATCH_MARK(h.rawbuf[1], Distance["PANASONIC"].hdr[1])
      BY <2>1, HeadersDiffer, DistanceValues
    <2>7. decodeDistance(h, "PANASONIC", 0, 0) = Nothing
      BY <2>6, RejectHeader
    <2>8. 57 \in Nat /\ 57 <= h.rawlen
      BY <2>1, SMT
    <2>9. decodeDistance(h, "LG", 57, 1) = r
      BY <1>4, <1>9, <2>8
    <2>10. Later(h) = r
      BY <1>3, <1>6, <2>7, <2>9 DEF Later, OrElse
    <2>11. h.rawlen \in Nat /\ type # "NEC" /\ type # "SONY"
      BY <1>9, <2>1
    <2> QED
      BY <1>6, <1>12, <2>3, <2>5, <2>10, <2>11, DecodedLater DEF r
  <1>10. CASE type = "JVC"
    <2>1. h.rawlen = 36 /\ MarkTicks(h.rawbuf[1], 8000)
      BY <1>2, <1>10, DistanceValues
    <2>2. h.rawlen # 4 /\ h.rawlen # 34
      BY <2>1, SMT
    <2>3. /\ decodeRepeat(h, "NEC") = Nothing
          /\ decodeRepeat(h, "JVC") = Nothing
      BY <2>2, RejectRepeat
    <2>4. ~(h.rawlen >= 68) /\ ~(h.rawlen >= 57)
      BY <2>1, SMT
    <2>5. /\ decodeDistance(h, "NEC", 68, 0) = Nothing
          /\ decodeDistance(h, "LG", 57, 1) = Nothing
      BY <2>4, RejectShort
    <2>6. ~MATCH_MARK(h.rawbuf[1], Distance["PANASONIC"].hdr[1])
      BY <2>1, HeadersDiffer, DistanceValues
    <2>7. decodeDistance(h, "PANASONIC", 0, 0) = Nothing
      BY <2>6, RejectHeader
    <2>8. 33 \in Nat /\ 33 <= h.rawlen
      BY <2>1, SMT
    <2>9. decodeDistance(h, "JVC", 33, 1) = r
      BY <1>4, <1>10, <2>8
    <2>10. Later(h) = r
      BY <1>3, <1>6, <2>3, <2>5, <2>7, <2>9 DEF Later, OrElse
    <2>11. h.rawlen \in Nat /\ type # "NEC" /\ type # "SONY"
      BY <1>10, <2>1
    <2> QED
      BY <1>6, <1>12, <2>3, <2>5, <2>10, <2>11, DecodedLater DEF r
  <1>11. CASE type = "SAMSUNG"
    <2>1. h.rawlen = 68 /\ MarkTicks(h.rawbuf[1], 5000)
      BY <1>2, <1>11, DistanceValues
    <2>2. h.rawlen # 4 /\ h.rawlen # 34
      BY <2>1, SMT
    <2>3. /\ decodeRepeat(h, "NEC") = Nothing
          /\ decodeRepeat(h, "JVC") = Nothing
          /\ decodeRepeat(h, "SAMSUNG") = Nothing
      BY <2>2, RejectRepeat
    <2>4. /\ ~MATCH_MARK(h.rawbuf[1], Distance["NEC"].hdr[1])
          /\ ~MATCH_MARK(h.rawbuf[1], Distance["PANASONIC"].hdr[1])
          /\ ~MATCH_MARK(h.rawbuf[1], Distance["LG"].hdr[1])
          /\ ~MATCH_MARK(h.rawbuf[1], Distance["JVC"].hdr[1])
      BY <2>1, HeadersDiffer, DistanceValues
    <2>5. /\ decodeDistance(h, "NEC", 68, 0) = Nothing
          /\ decodeDistance(h, "PANASONIC", 0, 0) = Nothing
          /\ decodeDistance(h, "LG", 57, 1) = Nothing
          /\ decodeDistance(h, "JVC", 33, 1) = Nothing
      BY <2>4, RejectHeader
    <2>6. 68 \in Nat /\ 68 <= h.rawlen
      BY <2>1, SMT
    <2>7. decodeDistance(h, "SAMSUNG", 68, 0) = r
      BY <1>4, <1>11, <2>6
    <2>10. Later(h) = r
      BY <1>3, <1>6, <2>3, <2>5, <2>7 DEF Later, OrElse
    <2>11. h.rawlen \in Nat /\ type # "NEC" /\ type # "SONY"
      BY <1>11, <2>1
    <2> QED
      BY <1>6, <1>12, <2>3, <2>5, <2>10, <2>11, DecodedLater DEF r
  <1> QED
    BY <1>7, <1>8, <1>9, <1>10, <1>11, DistanceTypes

\* The repeat of JVC has no header: a mark of 600 us, and a space of 550 or 1600.
LEMMA RepeatDecoded ==
    ASSUME NEW data \in [1 .. 16 -> {0, 1}], NEW h,
           Heard(h, Periods(sendDistance(Distance["JVC"], data, FALSE)))
    PROVE  decode(h) = IF Doubled("JVC", h) THEN Repeat("SANYO") ELSE Repeat("JVC")
  <1> DEFINE s == Periods(sendDistance(Distance["JVC"], data, FALSE))
  <1>1. /\ Len(s) = 2 * 16 + 1
        /\ \A i \in 1 .. 16 : /\ s[2 * i - 1].us = 600
                              /\ s[2 * i].us = IF data[i] = 1 THEN 1600 ELSE 550
        /\ s[2 * 16 + 1].us = 600
    <2>1. /\ Distance["JVC"].bit \in Nat /\ Distance["JVC"].one \in Nat
          /\ Distance["JVC"].zero \in Nat /\ 16 \in Nat
      BY DistanceValues
    <2>2. /\ Len(s) = 2 * 16 + 1
          /\ \A i \in 1 .. 16 :
                /\ s[2 * i - 1].us = Distance["JVC"].bit
                /\ s[2 * i].us = IF data[i] = 1 THEN Distance["JVC"].one
                                                ELSE Distance["JVC"].zero
          /\ s[2 * 16 + 1].us = Distance["JVC"].bit
      <3>1. HeaderlessLine(s, Distance["JVC"], 16, data)
        BY <2>1, RepeatLine
      <3> HIDE DEF s
      <3> QED
        BY <3>1 DEF HeaderlessLine
    <2> HIDE DEF s
    <2> QED
      BY <2>2, DistanceValues
  <1> HIDE DEF s
  <1>2. /\ h.rawlen = 34 /\ h.rawbuf[0] \in Nat
        /\ MarkTicks(h.rawbuf[1], 600) /\ MarkTicks(h.rawbuf[33], 600)
        /\ SpaceTicks(h.rawbuf[2], 1600) \/ SpaceTicks(h.rawbuf[2], 550)
    <2>1. Heard(h, s)
      BY DEF s
    <2>2. Len(s) = 33 /\ s[1].us = 600 /\ s[33].us = 600 /\ (s[2].us = 1600 \/ s[2].us = 550)
      <3>1. 1 \in 1 .. 16 /\ 2 * 1 - 1 = 1 /\ 2 * 1 = 2 /\ 2 * 16 + 1 = 33
        BY SMT
      <3>2. s[2 * 1 - 1].us = 600 /\ (s[2 * 1].us = 1600 \/ s[2 * 1].us = 550)
        BY <1>1, <3>1
      <3> QED
        BY <1>1, <3>1, <3>2
    <2>3. h.rawlen = 34 /\ h.rawbuf[0] \in Nat
      <3>1. h.rawlen = Len(s) + 1 /\ h.rawbuf[0] \in Nat
        BY <2>1 DEF Heard
      <3> QED
        BY <2>2, <3>1, SMT
    <2>4. /\ 1 \in 1 .. 33 /\ 1 % 2 = 1 /\ 33 \in 1 .. 33 /\ 33 % 2 = 1
          /\ 2 \in 1 .. 33 /\ ~(2 % 2 = 1)
      BY SMT
    <2>5. \A i \in 1 .. 33 : IF i % 2 = 1 THEN MarkTicks(h.rawbuf[i], s[i].us)
                             ELSE SpaceTicks(h.rawbuf[i], s[i].us)
      <3>1. \A i \in 1 .. Len(s) : IF i % 2 = 1 THEN MarkTicks(h.rawbuf[i], s[i].us)
                                   ELSE SpaceTicks(h.rawbuf[i], s[i].us)
        BY <2>1, Zenon DEF Heard
      <3> QED
        BY <2>2, <3>1, Zenon
    <2>6. /\ MarkTicks(h.rawbuf[1], s[1].us) /\ MarkTicks(h.rawbuf[33], s[33].us)
          /\ SpaceTicks(h.rawbuf[2], s[2].us)
      BY <2>4, <2>5
    <2> QED
      BY <2>2, <2>3, <2>6
  <1>3. decodeRC5(h) = Nothing
    <2> DEFINE a == entryLevels(h, 1, RC5_T1)
               b == entryLevels(h, 2, RC5_T1)
    <2>1. a \in Seq(LevelSet) /\ b \in Seq(LevelSet)
      BY EntryIsSeq
    <2>2. 0 + 1 = 1 /\ 1 \in 1 .. 3 /\ 2 \in 1 .. 3 /\ 3 \in 1 .. 3 /\ 1 + 1 = 2 /\ 1 + 2 = 3
      BY SMT
    <2>3. StartBits[1] = "MARK" /\ StartBits[2] = "SPACE" /\ StartBits[3] = "MARK"
      BY DEF StartBits
    <2>4. a = Run(1, 1) \/ a = <<"error">>
      <3>1. ~Fits(h, 1, RC5_T1, 2) /\ ~Fits(h, 1, RC5_T1, 3)
        BY <1>2, SMT DEF MarkTicks, Fits, RC5_T1, MATCH, Excess, MARK_EXCESS
      <3>2. CASE Fits(h, 1, RC5_T1, 1)
        <4>1. \A n \in 1 .. 1 - 1 : ~Fits(h, 1, RC5_T1, n)
          BY SMT
        <4> QED
          BY <2>2, <3>2, <4>1, EntryLevels
      <3>3. CASE ~Fits(h, 1, RC5_T1, 1)
        BY <3>1, <3>3, EntryError
      <3> QED
        BY <3>2, <3>3
    <2>5. b = Run(2, 2) \/ b = <<"error">>
      <3>1. ~Fits(h, 2, RC5_T1, 1)
        BY <1>2, SMT DEF SpaceTicks, Fits, RC5_T1, MATCH, Excess, MARK_EXCESS
      <3>2. CASE Fits(h, 2, RC5_T1, 2)
        <4>1. \A n \in 1 .. 2 - 1 : n = 1
          BY SMT
        <4>2. \A n \in 1 .. 2 - 1 : ~Fits(h, 2, RC5_T1, n)
          BY <3>1, <4>1
        <4> QED
          BY <2>2, <3>2, <4>2, EntryLevels
      <3>3. CASE ~Fits(h, 2, RC5_T1, 2)
        <4>1. ~Fits(h, 2, RC5_T1, 3)
          BY <1>2, <3>3, SMT DEF SpaceTicks, Fits, RC5_T1, MATCH, Excess, MARK_EXCESS
        <4> QED
          BY <3>1, <3>3, <4>1, EntryError
      <3> QED
        BY <3>2, <3>3
    <2> HIDE DEF a, b
    <2>7. h.rawlen \in Nat /\ h.rawlen >= 3
      BY <1>2, SMT
    <2>6. CASE a = <<"error">>
      <3>1. Len(a) = 1 /\ a[1] # StartBits[1]
        BY <2>3, <2>6, ErrorLevel
      <3>2. 1 \in 1 .. 3 /\ 1 \in 1 .. Len(a)
        BY <3>1, SMT
      <3>3. Differs(a \o b)
        BY <2>1, <3>1, <3>2, FirstDiffers
      <3> QED
        BY <2>7, <3>3, RejectRC5 DEF a, b
    <2>8. CASE a = Run(1, 1) /\ b = <<"error">>
      <3>1. Len(a) = 1 /\ Len(b) = 1 /\ b[1] # StartBits[2]
        BY <2>2, <2>3, <2>8, ErrorLevel, RunLevels
      <3>2. 2 \in 1 .. 3 /\ 1 \in 1 .. Len(b) /\ 2 = Len(a) + 1
        BY <3>1, SMT
      <3>3. Differs(a \o b)
        BY <2>1, <3>1, <3>2, SecondDiffers
      <3> QED
        BY <2>7, <3>3, RejectRC5 DEF a, b
    <2>9. CASE a = Run(1, 1) /\ b = Run(2, 2)
      <3>1. Len(a) = 1 /\ Len(b) = 2 /\ b[2] = Level(2)
        <4>1. 2 \in 1 .. 2
          BY SMT
        <4> QED
          BY <2>2, <2>9, <4>1, RunLevels
      <3>2. 3 \in 1 .. 3 /\ 2 \in 1 .. Len(b) /\ 3 = Len(a) + 2
        BY <3>1, SMT
      <3>3. b[2] # StartBits[3]
        BY <2>3, <3>1, SMT DEF Level
      <3>4. Differs(a \o b)
        BY <2>1, <3>1, <3>2, <3>3, SecondDiffers
      <3> QED
        BY <2>7, <3>4, RejectRC5 DEF a, b
    <2> QED
      BY <2>4, <2>5, <2>6, <2>8, <2>9
  <1>4. /\ decodeRepeat(h, "NEC") = Nothing
        /\ decodeDistance(h, "NEC", 68, 0) = Nothing
        /\ decodeDistance(h, "PANASONIC", 0, 0) = Nothing
        /\ decodeDistance(h, "LG", 57, 1) = Nothing
    <2>1. h.rawlen # 4
      BY <1>2, SMT
    <2>2. /\ ~MATCH_MARK(h.rawbuf[1], Distance["NEC"].hdr[1])
          /\ ~MATCH_MARK(h.rawbuf[1], Distance["PANASONIC"].hdr[1])
          /\ ~MATCH_MARK(h.rawbuf[1], Distance["LG"].hdr[1])
      BY <1>2, HeadersDiffer, DistanceValues
    <2> QED
      BY <2>1, <2>2, RejectRepeat, RejectHeader
  <1>5. /\ decodeSony(h) = GapOnly(h, 500) /\ decodeSanyo(h) = GapOnly(h, 800)
        /\ decodeMitsubishi(h) = Nothing /\ decodeRC6(h) = Nothing
    BY <1>2, HeadersDiffer, RejectSony, RejectSanyo, RejectMitsubishi, RejectRC6
  <1>6. decodeRepeat(h, "JVC") = Repeat("JVC")
    <2>1. MATCH_MARK(h.rawbuf[1], 600) /\ MATCH_MARK(h.rawbuf[33], 600)
      BY <1>2, MarkMatches
    <2> QED
      BY <1>2, <2>1, DistanceValues DEF decodeRepeat
  <1>7. Repeat("JVC") # Nothing
    BY DecodedIsSomething DEF Repeat
  <1>8. Later(h) = Repeat("JVC")
    BY <1>3, <1>4, <1>5, <1>6, <1>7 DEF Later, OrElse
  <1>9. h.rawlen \in Nat /\ "JVC" # "NEC" /\ "JVC" # "SONY"
    BY <1>2
  <1> QED
    BY <1>2, <1>4, <1>5, <1>8, <1>9, DecodedLater

-----------------------------------------------------------------------------
\* Sony: what tells the bits apart is the mark, and the last space is not
\* recorded.
SonyMark(data, i) == IF data[i] = 1 THEN 1200 ELSE 600
\* The signal of a SONY code: a header, then for each bit a space and a
\* mark that carries it.
IsSonyLine(l, data) ==
    /\ Len(l) = 25
    /\ l[1].us = 2400
    /\ \A i \in 1 .. 12 : l[2 * i].us = 600 /\ l[2 * i + 1].us = SonyMark(data, i)

\* A signal without its last piece keeps the others.
LEMMA FrontLemma ==
    ASSUME NEW s \in Seq(Pulses), NEW N \in Nat, Len(s) = N + 1
    PROVE  /\ Front(s) \in Seq(Pulses) /\ Len(Front(s)) = N
           /\ \A n \in 1 .. N : Front(s)[n] = s[n]
  <1>1. /\ Len(s) - 1 = N /\ 1 \in 1 .. Len(s) + 1 /\ N \in 1 - 1 .. Len(s)
        /\ N - 1 + 1 = N
    BY SMT
  <1>2. Front(s) = SubSeq(s, 1, N)
    BY <1>1 DEF Front
  <1>3. /\ SubSeq(s, 1, N) \in Seq(Pulses)
        /\ Len(SubSeq(s, 1, N)) = IF 1 <= N THEN N - 1 + 1 ELSE 0
        /\ \A n \in 1 .. N - 1 + 1 : SubSeq(s, 1, N)[n] = s[1 + n - 1]
    BY <1>1, SubSeqProperties
  <1>4. Len(SubSeq(s, 1, N)) = N
    BY <1>3, SMT
  <1>5. ASSUME NEW n \in 1 .. N
        PROVE  SubSeq(s, 1, N)[n] = s[n]
    <2>1. n \in 1 .. N - 1 + 1 /\ 1 + n - 1 = n
      BY SMT
    <2> QED
      BY <1>3, <2>1
  <1> QED
    BY <1>2, <1>3, <1>4, <1>5

\* The part of a SONY code behind the header.
SonyBits(D, B, data) ==
    /\ Alternates(D) /\ Len(D) = 2 * B
    /\ \A i \in 1 .. B : D[2 * i - 1].us = SonyMark(data, i) /\ D[2 * i].us = 600

\* sendSony()'s loop sends a mark that carries the bit, and a space.
LEMMA MarksOfBits ==
    ASSUME NEW B \in Nat, NEW data \in [1 .. B -> {0, 1}]
    PROVE  SonyBits(ForBits(data, LAMBDA i :
                       <<Mark(IF data[i] = 1 THEN 1200 ELSE 600), Space(600)>>), B, data)
  <1> DEFINE D == ForBits(data, LAMBDA i :
                     <<Mark(IF data[i] = 1 THEN 1200 ELSE 600), Space(600)>>)
             mark == [i \in 1 .. B |-> SonyMark(data, i)]
             space == [i \in 1 .. B |-> 600]
  <1>1. Len(data) = B
    BY FunctionIsSeq
  <1>2. mark \in [1 .. B -> Nat] /\ space \in [1 .. B -> Nat]
    BY DEF SonyMark
  <1>3. ASSUME NEW n \in 1 .. 2 * B
        PROVE  /\ D[n] = IF n % 2 = 1 THEN Mark(mark[(n + 1) \div 2])
                         ELSE Space(space[(n + 1) \div 2])
               /\ D[n] \in Pulses
    <2>1. n % 2 = 1 \/ (n % 2 = 0 /\ n % 2 # 1)
      BY SMT
    <2>2. (n + 1) \div 2 \in 1 .. B
      BY PairIndex
    <2>3. D[n] = IF n % 2 = 1 THEN Mark(mark[(n + 1) \div 2])
                 ELSE Space(space[(n + 1) \div 2])
      BY <1>1, <2>1, <2>2 DEF ForBits, SonyMark
    <2>4. mark[(n + 1) \div 2] \in Nat /\ space[(n + 1) \div 2] \in Nat
      BY <1>2, <2>2
    <2> HIDE DEF D, mark, space
    <2> QED
      BY <2>3, <2>4, PulseLemma
  <1>4. D \in [1 .. 2 * B -> Pulses]
    <2>1. D = [n \in 1 .. 2 * B |-> D[n]]
      BY <1>1 DEF ForBits
    <2> HIDE DEF D
    <2> QED
      BY <1>3, <2>1, Zenon
  <1>5. \A i \in 1 .. B : mark[i] = SonyMark(data, i) /\ space[i] = 600
    OBVIOUS
  <1> HIDE DEF D, mark, space
  <1>6. /\ Alternates(D) /\ Len(D) = 2 * B
        /\ \A i \in 1 .. B : D[2 * i - 1].us = mark[i] /\ D[2 * i].us = space[i]
    BY <1>4, <1>2, <1>3, PairsAlternate
  <1>7. SonyBits(D, B, data)
    <2>1. ASSUME NEW i \in 1 .. B
          PROVE  D[2 * i - 1].us = SonyMark(data, i) /\ D[2 * i].us = 600
      <3>1. mark[i] = SonyMark(data, i) /\ space[i] = 600
        BY <1>5
      <3> QED
        BY <1>6, <3>1
    <2> QED
      BY <1>6, <2>1 DEF SonyBits
  <1> QED
    BY <1>7, Zenon DEF D

\* sendSony() puts such a signal on the line.
LEMMA SonyLine ==
    ASSUME NEW data \in [1 .. 12 -> {0, 1}]
    PROVE  IsSonyLine(Periods(sendSony(data)), data)
  <1> DEFINE H == <<Mark(2400), Space(600)>>
             D == ForBits(data, LAMBDA i :
                     <<Mark(IF data[i] = 1 THEN 1200 ELSE 600), Space(600)>>)
             s == sendSony(data)
  <1>0. PICK B \in Nat : B = 12
    OBVIOUS
  <1>1. data \in [1 .. B -> {0, 1}]
    BY <1>0
  <1>6. s = H \o D
    BY Zenon DEF sendSony
  <1>7. Alternates(H) /\ Len(H) = 2 /\ H[1].us = 2400 /\ H[2].us = 600
    BY Header
  <1>8. SonyBits(D, B, data)
    BY <1>1, MarksOfBits, Zenon
  <1> HIDE DEF D, H, s
  <1>5. Alternates(D) /\ Len(D) = 2 * B
    BY <1>8 DEF SonyBits
  <1>9. Behind(s, H, D)
    <2>1. Len(H) % 2 = 0
      BY <1>7, SMT
    <2>2. Alternates(H) /\ Alternates(D)
      BY <1>5, <1>7
    <2> QED
      BY <1>6, <2>1, <2>2, ConcatAlternates, Zenon
  <1>10. /\ Alternates(s) /\ Len(s) = 26
         /\ \A n \in 1 .. 26 : s[n] = IF n <= 2 THEN H[n] ELSE D[n - 2]
    <2>1. Len(H) + Len(D) = 26
      BY <1>0, <1>5, <1>7, SMT
    <2>2. PICK k \in Nat : k = 2
      OBVIOUS
    <2>3. PICK m \in Nat : m = 26
      OBVIOUS
    <2>4. Len(H) = k /\ Len(H) + Len(D) = m
      BY <1>7, <2>1, <2>2, <2>3
    <2>5. /\ Alternates(s) /\ Len(s) = m
          /\ \A n \in 1 .. m : s[n] = IF n <= k THEN H[n] ELSE D[n - k]
      BY <1>9, <2>4, Zenon DEF Behind
    <2> QED
      BY <2>2, <2>3, <2>5
  <1>11. Periods(s) = Front(s)
    <2>1. Len(s) % 2 = 0 /\ Len(s) # 0
      BY <1>10, SMT
    <2> QED
      BY <1>10, <2>1, AlternatesLemma, EmptySeq
  <1>12. /\ Len(Front(s)) = 25 /\ \A n \in 1 .. 25 : Front(s)[n] = s[n]
    <2>1. s \in Seq(Pulses)
      BY <1>10 DEF Alternates
    <2>2. Len(s) = 25 + 1 /\ 25 \in Nat
      BY <1>10, SMT
    <2> QED
      BY <2>1, <2>2, FrontLemma
  <1>13. Front(s)[1].us = 2400
    <2>1. 1 \in 1 .. 25 /\ 1 \in 1 .. 26 /\ 1 <= 2
      BY SMT
    <2> QED
      BY <1>7, <1>10, <1>12, <2>1
  <1>14. ASSUME NEW i \in 1 .. 12
         PROVE  Front(s)[2 * i].us = 600 /\ Front(s)[2 * i + 1].us = SonyMark(data, i)
    <2>1. Front(s)[2 * i + 1] = D[2 * i - 1]
      <3>1. /\ 2 * i + 1 \in 1 .. 25 /\ 2 * i + 1 \in 1 .. 26 /\ ~(2 * i + 1 <= 2)
            /\ (2 * i + 1) - 2 = 2 * i - 1
        BY SMT
      <3>2. s[2 * i + 1] = D[(2 * i + 1) - 2]
        BY <1>10, <3>1
      <3> QED
        BY <1>12, <3>1, <3>2
    <2>2. Front(s)[2 * i].us = 600
      <3>1. 2 * i \in 1 .. 25 /\ 2 * i \in 1 .. 26
        BY SMT
      <3>2. CASE i = 1
        <4>1. 2 * i = 2 /\ 2 <= 2
          BY <3>2, SMT
        <4>2. s[2] = H[2]
          BY <1>10, <3>1, <4>1
        <4> QED
          BY <1>7, <1>12, <3>1, <4>1, <4>2
      <3>3. CASE i # 1
        <4>1. PICK j \in 1 .. 12 : j = i - 1
          BY <3>3, SMT
        <4>2. ~(2 * i <= 2) /\ 2 * i - 2 = 2 * j
          BY <3>3, <4>1, SMT
        <4>3. s[2 * i] = D[2 * j]
          BY <1>10, <3>1, <4>2
        <4> QED
          BY <1>0, <1>8, <1>12, <3>1, <4>3 DEF SonyBits
      <3> QED
        BY <3>2, <3>3
    <2> QED
      BY <1>0, <1>8, <2>1, <2>2 DEF SonyBits
  <1> QED
    BY <1>11, <1>12, <1>13, <1>14 DEF IsSonyLine, s

\* Any recording of a SONY code within the margins is decoded as what
\* was sent, unless the gap is short.
LEMMA SonyDecoded ==
    ASSUME NEW data \in [1 .. 12 -> {0, 1}], NEW h,
           Heard(h, Periods(sendSony(data)))
    PROVE  decode(h) = IF Doubled("SONY", h) THEN Repeat("SANYO")
                       ELSE Decoded("SONY", 12, data)
  <1> DEFINE l == Periods(sendSony(data))
  <1>1. Heard(h, l) /\ IsSonyLine(l, data)
    BY SonyLine
  <1> HIDE DEF l
  <1>2. /\ h.rawlen = 26 /\ h.rawbuf[0] \in Nat
        /\ \A n \in 1 .. 25 : IF n % 2 = 1 THEN MarkTicks(h.rawbuf[n], l[n].us)
                              ELSE SpaceTicks(h.rawbuf[n], l[n].us)
    <2>1. h.rawlen = Len(l) + 1 /\ h.rawbuf[0] \in Nat /\ Len(l) = 25
      <3>1. h.rawlen = Len(l) + 1 /\ h.rawbuf[0] \in Nat
        BY <1>1 DEF Heard
      <3>2. Len(l) = 25
        BY <1>1 DEF IsSonyLine
      <3> QED
        BY <3>1, <3>2
    <2> QED
      <3>1. \A n \in 1 .. Len(l) : IF n % 2 = 1 THEN MarkTicks(h.rawbuf[n], l[n].us)
                                   ELSE SpaceTicks(h.rawbuf[n], l[n].us)
        BY <1>1, Zenon DEF Heard
      <3>2. h.rawlen = 26
        BY <2>1, SMT
      <3> QED
        BY <2>1, <3>1, <3>2, Zenon
  <1>3. MarkTicks(h.rawbuf[1], 2400)
    <2>1. 1 \in 1 .. 25 /\ 1 % 2 = 1
      BY SMT
    <2>2. l[1].us = 2400
      BY <1>1 DEF IsSonyLine
    <2> QED
      BY <1>2, <2>1, <2>2
  <1>4. ASSUME NEW i \in 1 .. 12
        PROVE  /\ MATCH_SPACE(h.rawbuf[2 * i], 600)
               /\ (IF MATCH_MARK(h.rawbuf[2 * i + 1], 1200) THEN 1 ELSE 0) = data[i]
               /\ \/ MATCH_MARK(h.rawbuf[2 * i + 1], 1200)
                  \/ MATCH_MARK(h.rawbuf[2 * i + 1], 600)
    <2>1. /\ 2 * i \in 1 .. 25 /\ ~((2 * i) % 2 = 1)
          /\ 2 * i + 1 \in 1 .. 25 /\ (2 * i + 1) % 2 = 1
      BY SMT
    <2>2. l[2 * i].us = 600 /\ l[2 * i + 1].us = SonyMark(data, i)
      BY <1>1 DEF IsSonyLine
    <2>3. SpaceTicks(h.rawbuf[2 * i], 600)
      BY <1>2, <2>1, <2>2
    <2>4. MarkTicks(h.rawbuf[2 * i + 1], SonyMark(data, i))
      BY <1>2, <2>1, <2>2
    <2>5. MATCH_SPACE(h.rawbuf[2 * i], 600)
      BY <2>3, SpaceMatches
    <2>6. data[i] = 1 \/ (data[i] = 0 /\ data[i] # 1)
      OBVIOUS
    <2>7. CASE data[i] = 1
      <3>1. MATCH_MARK(h.rawbuf[2 * i + 1], 1200)
        BY <2>4, <2>7, MarkMatches DEF SonyMark
      <3> QED
        BY <2>5, <2>7, <3>1
    <2>8. CASE data[i] = 0 /\ data[i] # 1
      <3>1. MarkTicks(h.rawbuf[2 * i + 1], 600)
        BY <2>4, <2>8 DEF SonyMark
      <3>2. MATCH_MARK(h.rawbuf[2 * i + 1], 600)
        BY <3>1, MarkMatches
      <3>3. ~MATCH_MARK(h.rawbuf[2 * i + 1], 1200)
        BY <3>1, SMT DEF MarkTicks, MATCH_MARK, MATCH, MARK_EXCESS
      <3> QED
        BY <2>5, <2>8, <3>2, <3>3
    <2> QED
      BY <2>6, <2>7, <2>8
  <1> DEFINE C(k) == 2 + 2 * k + 1 < h.rawlen /\ MATCH_SPACE(h.rawbuf[2 + 2 * k], 600)
             n == Leading(h, 2, LAMBDA i : MATCH_SPACE(h.rawbuf[i], 600))
  <1>5. n = 12
    <2>1. n = CHOOSE m \in 0 .. RAWBUF : (\A k \in 0 .. m - 1 : C(k)) /\ ~C(m)
      BY Zenon DEF Leading
    <2>2. ASSUME NEW k \in 0 .. 11
          PROVE  C(k)
      <3>1. PICK i \in 1 .. 12 : i = k + 1
        BY SMT
      <3>2. 2 + 2 * k = 2 * i /\ 2 + 2 * k + 1 < 26
        BY <3>1, SMT
      <3> QED
        BY <1>2, <1>4, <3>2
    <2>3. ~C(12)
      BY <1>2, SMT
    <2>4. 12 \in 0 .. RAWBUF /\ 12 - 1 = 11
      BY CodesAssumption, SMT
    <2> HIDE DEF C
    <2>5. ASSUME NEW m \in 0 .. RAWBUF, \A k \in 0 .. m - 1 : C(k), ~C(m)
          PROVE  m = 12
      <3>1. CASE m > 12
        <4>1. 12 \in 0 .. m - 1
          BY <3>1, CodesAssumption, SMT
        <4> QED
          BY <2>3, <2>5, <4>1
      <3>2. CASE m < 12
        <4>1. m \in 0 .. 11
          BY <3>2, CodesAssumption, SMT
        <4> QED
          BY <2>2, <2>5, <4>1
      <3> QED
        BY <3>1, <3>2, CodesAssumption, SMT
    <2> HIDE DEF n
    <2>6. (\A k \in 0 .. 12 - 1 : C(k)) /\ ~C(12)
      BY <2>2, <2>3, <2>4
    <2> QED
      BY <2>1, <2>4, <2>5, <2>6
  <1>6. decodeSony(h) = IF h.rawbuf[0] < 500 THEN Repeat("SANYO")
                        ELSE Decoded("SONY", 12, data)
    <2> DEFINE mark(k) == h.rawbuf[2 + 2 * k - 1]
               bits == (2 + 2 * n - 1) \div 2
               d == [k \in 1 .. n |-> IF MATCH_MARK(mark(k), 1200) THEN 1 ELSE 0]
               marks == \A k \in 1 .. n : MATCH_MARK(mark(k), 1200) \/ MATCH_MARK(mark(k), 600)
    <2>1. decodeSony(h) = IF h.rawlen < 26 THEN Nothing
                          ELSE IF h.rawbuf[0] < 500 THEN Repeat("SANYO")
                          ELSE IF MATCH_MARK(h.rawbuf[1], 2400) /\ bits >= 12 /\ marks
                          THEN Decoded("SONY", bits, d) ELSE Nothing
      BY Zenon DEF decodeSony, decodeWidth
    <2>2. ASSUME NEW k \in 1 .. 12
          PROVE  mark(k) = h.rawbuf[2 * k + 1]
      <3>1. 2 + 2 * k - 1 = 2 * k + 1
        BY SMT
      <3> QED
        BY <3>1
    <2> HIDE DEF mark
    <2>3. marks
      BY <1>4, <1>5, <2>2
    <2>4. d = data
      <3>1. data = [k \in 1 .. 12 |-> data[k]]
        OBVIOUS
      <3>2. \A k \in 1 .. 12 : (IF MATCH_MARK(mark(k), 1200) THEN 1 ELSE 0) = data[k]
        BY <1>4, <2>2
      <3> QED
        BY <1>5, <3>1, <3>2, ZenonT(60)
    <2>5. bits = 12 /\ bits >= 12
      BY <1>5, SMT
    <2>6. MATCH_MARK(h.rawbuf[1], 2400)
      BY <1>3, MarkMatches
    <2>7. ~(h.rawlen < 26)
      BY <1>2, SMT
    <2> HIDE DEF bits, d, marks
    <2> QED
      BY <2>1, <2>3, <2>4, <2>5, <2>6, <2>7
  <1>7. /\ decodeRepeat(h, "NEC") = Nothing /\ decodeDistance(h, "NEC", 68, 0) = Nothing
    <2>1. h.rawlen # 4 /\ ~(h.rawlen >= 68)
      BY <1>2, SMT
    <2> QED
      BY <2>1, RejectRepeat, RejectShort
  <1>8. Decoded("SONY", 12, data) # Nothing /\ Repeat("SANYO") # Nothing
    BY DecodedIsSomething DEF Repeat
  <1>9. Doubled("SONY", h) <=> h.rawbuf[0] < 500
    <2>1. h.rawlen >= 26
      BY <1>2, SMT
    <2> QED
      BY <2>1 DEF Doubled
  <1>10. decode(h) = decodeSony(h)
    BY <1>6, <1>7, <1>8 DEF decode, OrElse
  <1> QED
    BY <1>6, <1>9, <1>10

-----------------------------------------------------------------------------
\* RC5 and RC6: the line carries units of T us, whose levels are U.  Behind b
\* entries of a header, entry i of the line stands for the units from
\* pos[i - 1] + 1 to pos[i], all of the level of the entry.
UnitTimes == {RC5_T1, RC6_T1}
\* Pulse i of the line covers the units from pos[i - 1] to pos[i], all
\* of its own level.
SpanAt(L, T, U, pos, i) ==
    /\ L[i].level = Level(i) /\ pos[i - 1] < pos[i]
    /\ L[i].us = T * (pos[i] - pos[i - 1])
    /\ \A u \in pos[i - 1] + 1 .. pos[i] : U[u] = L[i].level

\* Behind the header of b pulses the line covers the units one after the
\* other.
Spans(L, b, T, U, pos) ==
    /\ L \in Seq(Pulses) /\ b <= Len(L)
    /\ pos \in [b .. Len(L) -> Nat] /\ pos[b] = 0
    /\ \A i \in b + 1 .. Len(L) : SpanAt(L, T, U, pos, i) /\ pos[i] <= pos[Len(L)]

\* The line with one more pulse, up to unit c.
Grows(M, L, b, T, U, c) ==
    /\ Len(M) <= Len(L) + 1 /\ b < Len(M)
    /\ \A i \in 1 .. b : M[i] = L[i]
    /\ \E q : Spans(M, b, T, U, q) /\ q[Len(M)] = c

\* Adjacent spans add up.
LEMMA ScaleLemma ==
    ASSUME NEW T \in UnitTimes, NEW a \in Nat, NEW p \in Nat, NEW c \in Nat
    PROVE  T * (p - a) + T * (c - p) = T * (c - a)
  <1>1. CASE T = 444
    BY <1>1, SMT
  <1>2. CASE T = 889
    BY <1>2, SMT
  <1> QED
    BY <1>1, <1>2 DEF UnitTimes, RC5_T1, RC6_T1

\* A pulse made longer is a pulse.
LEMMA PulseGrows ==
    ASSUME NEW r \in Pulses, NEW d \in Nat
    PROVE  LET m == [r EXCEPT !.us = r.us + d]
           IN  m \in Pulses /\ m.level = r.level /\ m.us = r.us + d
  BY DEF Pulses

\* A piece of the same level makes the last pulse of the line longer.
LEMMA LongerPulse ==
    ASSUME NEW b \in Nat, NEW T \in UnitTimes, NEW U, NEW L, NEW pos, Spans(L, b, T, U, pos),
           b < Len(L), NEW p \in Pulses, NEW c \in Nat, c > pos[Len(L)],
           p.us = T * (c - pos[Len(L)]), p.level = Last(L).level,
           \A u \in pos[Len(L)] + 1 .. c : U[u] = p.level
    PROVE  Grows(Join(L, p), L, b, T, U, c)
  <1> DEFINE K == Len(L)
             M == [L EXCEPT ![K] = [L[K] EXCEPT !.us = L[K].us + p.us]]
             q == [pos EXCEPT ![K] = c]
  <1>1. /\ K \in Nat /\ b < K /\ L \in [1 .. K -> Pulses] /\ K \in 1 .. K
        /\ K \in b + 1 .. K /\ K \in b .. K /\ K - 1 \in b .. K /\ K - 1 # K
        /\ L # <<>>
    <2>1. L \in Seq(Pulses)
      BY DEF Spans
    <2>2. K \in Nat /\ L \in [1 .. K -> Pulses] /\ (L = <<>> => K = 0)
      BY <2>1, LenProperties, EmptySeq
    <2> HIDE DEF K
    <2>3. b < K
      BY SMTT(30) DEF K
    <2> QED
      BY <2>2, <2>3, SMT
  <1>2. Join(L, p) = M
    BY <1>1, Zenon DEF Join, Last
  <1> HIDE DEF K
  <1>3. L[K] \in Pulses /\ p.us \in Nat
    BY <1>1 DEF Pulses
  <1>4. /\ M[K].level = L[K].level /\ M[K].us = L[K].us + p.us /\ M[K] \in Pulses
        /\ M \in [1 .. K -> Pulses]
        /\ \A i \in 1 .. K : i # K => M[i] = L[i]
    <2>1. M[K] = [L[K] EXCEPT !.us = L[K].us + p.us]
      BY <1>1
    <2>2. M[K].level = L[K].level /\ M[K].us = L[K].us + p.us /\ M[K] \in Pulses
      <3>1. PICK r \in Pulses : r = L[K]
        BY <1>3
      <3>2. PICK d \in Nat : d = p.us
        BY <1>3
      <3>3. M[K] = [r EXCEPT !.us = r.us + d]
        BY <2>1, <3>1, <3>2
      <3> HIDE DEF M
      <3>4. M[K] \in Pulses /\ M[K].level = r.level /\ M[K].us = r.us + d
        BY <3>3, PulseGrows
      <3> QED
        BY <3>1, <3>2, <3>4
    <2>3. \A i \in 1 .. K : i # K => M[i] = L[i]
      BY <1>1
    <2>4. M = [i \in 1 .. K |-> M[i]]
      BY <1>1
    <2> HIDE DEF M
    <2>5. ASSUME NEW i \in 1 .. K
          PROVE  M[i] \in Pulses
      <3>1. i # K => M[i] \in Pulses
        BY <1>1, <2>3
      <3> QED
        BY <2>2, <3>1
    <2> QED
      BY <2>2, <2>3, <2>4, <2>5, Zenon
  <1>5. M \in Seq(Pulses) /\ Len(M) = K
    <2> HIDE DEF M
    <2> QED
      BY <1>1, <1>4, FunctionIsSeq
  <1>6. /\ pos \in [b .. K -> Nat] /\ pos[b] = 0
        /\ \A i \in b + 1 .. K : SpanAt(L, T, U, pos, i) /\ pos[i] <= pos[K]
        /\ c > pos[K] /\ p.us = T * (c - pos[K]) /\ p.level = L[K].level
        /\ \A u \in pos[K] + 1 .. c : U[u] = p.level
    BY DEF Spans, Last, K
  <1>7. /\ q \in [b .. K -> Nat] /\ q[K] = c
        /\ \A i \in b .. K : i # K => q[i] = pos[i]
    BY <1>1, <1>6
  <1> HIDE DEF M, q
  <1>8. q[b] = 0
    <2>1. b \in b .. K /\ b # K
      BY <1>1, SMT
    <2> QED
      BY <1>6, <1>7, <2>1
  <1>9. ASSUME NEW i \in b + 1 .. K
        PROVE  SpanAt(M, T, U, q, i) /\ q[i] <= q[K]
    <2>1. CASE i # K
      <3>1. /\ i \in 1 .. K /\ i \in b .. K /\ i - 1 \in b .. K /\ i - 1 # K
        BY <1>1, SMT
      <3>2. M[i] = L[i] /\ q[i] = pos[i] /\ q[i - 1] = pos[i - 1]
        BY <1>4, <1>7, <2>1, <3>1
      <3>3. SpanAt(M, T, U, q, i)
        BY <1>6, <3>2 DEF SpanAt
      <3>4. pos[i] \in Nat /\ pos[K] \in Nat /\ pos[i] <= pos[K]
        BY <1>1, <1>6, <3>1
      <3> QED
        BY <1>6, <1>7, <3>2, <3>3, <3>4, SMT
    <2>2. CASE i = K
      <3> DEFINE a == pos[K - 1]
                 m == pos[K]
      <3>1. SpanAt(L, T, U, pos, K)
        BY <1>1, <1>6
      <3>2. /\ L[K].level = Level(K) /\ a < m /\ L[K].us = T * (m - a)
            /\ \A u \in a + 1 .. m : U[u] = L[K].level
        BY <3>1 DEF SpanAt
      <3>3. a \in Nat /\ m \in Nat /\ q[K - 1] = a /\ m < c
        BY <1>1, <1>6, <1>7
      <3> HIDE DEF a, m
      <3>4. M[K].us = T * (c - a)
        <4>1. T * (m - a) + T * (c - m) = T * (c - a)
          <5>1. PICK x \in Nat : x = a
            BY <3>3
          <5>2. PICK y \in Nat : y = m
            BY <3>3
          <5>3. T * (y - x) + T * (c - y) = T * (c - x)
            BY ScaleLemma, ZenonT(60)
          <5> QED
            BY <5>1, <5>2, <5>3, Zenon
        <4>2. M[K].us = T * (m - a) + T * (c - m)
          BY <1>4, <1>6, <3>2, Zenon DEF m
        <4> QED
          BY <4>1, <4>2, Zenon
      <3>5. \A u \in a + 1 .. c : U[u] = M[K].level
        <4> SUFFICES ASSUME NEW u \in a + 1 .. c
                     PROVE  U[u] = M[K].level
          OBVIOUS
        <4>1. u \in a + 1 .. m \/ u \in m + 1 .. c
          BY <3>3, SMT
        <4> QED
          BY <1>4, <1>6, <3>2, <4>1 DEF m
      <3>6. a < c
        BY <3>2, <3>3, SMT
      <3>7. SpanAt(M, T, U, q, K)
        BY <1>4, <1>7, <3>2, <3>3, <3>4, <3>5, <3>6, Zenon DEF SpanAt
      <3> QED
        BY <1>7, <2>2, <3>7
    <2> QED
      BY <2>1, <2>2
  <1>10. Spans(M, b, T, U, q)
    <2>1. b <= K
      BY <1>1, SMT
    <2> QED
      BY <1>5, <1>7, <1>8, <1>9, <2>1, Zenon DEF Spans
  <1>11. \A i \in 1 .. b : M[i] = L[i]
    <2>1. \A i \in 1 .. b : i \in 1 .. K /\ i # K
      BY <1>1, SMT
    <2> QED
      BY <1>4, <2>1
  <1>12. Len(M) <= K + 1 /\ b < Len(M)
    BY <1>1, <1>5, SMT
  <1> QED
    BY <1>2, <1>5, <1>7, <1>10, <1>11, <1>12 DEF Grows, K

\* A piece of the other level begins the line's next pulse.
LEMMA NextPulse ==
    ASSUME NEW b \in Nat, NEW T, NEW U, NEW L, NEW pos, Spans(L, b, T, U, pos),
           NEW p \in Pulses, NEW c \in Nat, c > pos[Len(L)],
           p.us = T * (c - pos[Len(L)]), p.level = Level(Len(L) + 1),
           ~(L # <<>> /\ Last(L).level = p.level),
           \A u \in pos[Len(L)] + 1 .. c : U[u] = p.level
    PROVE  Grows(Join(L, p), L, b, T, U, c)
  <1> DEFINE K == Len(L)
             M == Append(L, p)
             q == [i \in b .. K + 1 |-> IF i = K + 1 THEN c ELSE pos[i]]
  <1>1. L \in Seq(Pulses) /\ K \in Nat /\ b <= K
    BY LenProperties DEF Spans
  <1>2. Join(L, p) = M
    BY DEF Join
  <1>3. /\ M \in Seq(Pulses) /\ Len(M) = K + 1
        /\ \A i \in 1 .. K : M[i] = L[i]
        /\ M[K + 1] = p
    BY <1>1, AppendProperties
  <1>4. /\ pos \in [b .. K -> Nat] /\ pos[b] = 0
        /\ \A i \in b + 1 .. K : SpanAt(L, T, U, pos, i) /\ pos[i] <= pos[K]
        /\ c > pos[K] /\ p.us = T * (c - pos[K]) /\ p.level = Level(K + 1)
        /\ \A u \in pos[K] + 1 .. c : U[u] = p.level
    BY DEF Spans, K
  <1> HIDE DEF K, M
  <1>5. /\ K + 1 \in b .. K + 1 /\ K \in b .. K + 1 /\ K # K + 1 /\ K \in b .. K
        /\ (K + 1) - 1 = K
    BY <1>1, SMT
  <1>6. q[K + 1] = c
    BY <1>5
  <1>7. ASSUME NEW i \in b .. K
        PROVE  q[i] = pos[i]
    <2>1. i \in b .. K + 1 /\ i # K + 1
      BY <1>1, SMT
    <2> QED
      BY <2>1
  <1>8. q \in [b .. K + 1 -> Nat]
    <2>1. ASSUME NEW i \in b .. K + 1
          PROVE  q[i] \in Nat
      <3>1. i # K + 1 => i \in b .. K
        BY <1>1, SMT
      <3> QED
        BY <1>4, <1>6, <1>7, <3>1
    <2>2. q = [i \in b .. K + 1 |-> q[i]]
      OBVIOUS
    <2> HIDE DEF q
    <2> QED
      BY <2>1, <2>2
  <1> HIDE DEF q
  <1>9. q[b] = 0
    <2>1. b \in b .. K
      BY <1>1, SMT
    <2> QED
      BY <1>4, <1>7, <2>1
  <1>10. ASSUME NEW i \in b + 1 .. K + 1
         PROVE  SpanAt(M, T, U, q, i) /\ q[i] <= q[K + 1]
    <2>1. CASE i # K + 1
      <3>1. i \in 1 .. K /\ i \in b + 1 .. K /\ i \in b .. K /\ i - 1 \in b .. K
        BY <1>1, <2>1, SMT
      <3>2. M[i] = L[i] /\ q[i] = pos[i] /\ q[i - 1] = pos[i - 1]
        BY <1>3, <1>7, <3>1
      <3>3. SpanAt(M, T, U, q, i)
        BY <1>4, <3>1, <3>2 DEF SpanAt
      <3>4. pos[i] \in Nat /\ pos[K] \in Nat /\ pos[i] <= pos[K]
        BY <1>4, <1>5, <3>1
      <3> QED
        BY <1>4, <1>6, <3>2, <3>3, <3>4, SMT
    <2>2. CASE i = K + 1
      <3>1. q[(K + 1) - 1] = pos[K]
        BY <1>5, <1>7
      <3>2. /\ M[K + 1].level = Level(K + 1) /\ q[(K + 1) - 1] < q[K + 1]
            /\ M[K + 1].us = T * (q[K + 1] - q[(K + 1) - 1])
            /\ \A u \in q[(K + 1) - 1] + 1 .. q[K + 1] : U[u] = M[K + 1].level
        <4>1. pos[K] \in Nat /\ pos[K] < c
          BY <1>4, <1>5, SMT
        <4> QED
          BY <1>3, <1>4, <1>6, <3>1, <4>1
      <3>3. SpanAt(M, T, U, q, K + 1)
        BY <3>2, Zenon DEF SpanAt
      <3> QED
        BY <1>6, <2>2, <3>3
    <2> QED
      BY <2>1, <2>2
  <1>11. Spans(M, b, T, U, q)
    <2>1. b <= K + 1
      BY <1>1, SMT
    <2> QED
      BY <1>3, <1>8, <1>9, <1>10, <2>1, Zenon DEF Spans
  <1>12. \A i \in 1 .. b : M[i] = L[i]
    <2>1. \A i \in 1 .. b : i \in 1 .. K
      BY <1>1, SMT
    <2> QED
      BY <1>3, <2>1
  <1>13. b < K + 1
    BY <1>1, SMT
  <1> QED
    BY <1>2, <1>3, <1>6, <1>11, <1>12, <1>13 DEF Grows, K

\* Either way the line covers the units up to the end of the piece.
LEMMA JoinGrows ==
    ASSUME NEW b \in Nat, b % 2 = 0, NEW T \in UnitTimes, NEW U, NEW L, NEW pos,
           Spans(L, b, T, U, pos), NEW p \in Pulses, NEW c \in Nat, c > pos[Len(L)],
           p.us = T * (c - pos[Len(L)]), \A u \in pos[Len(L)] + 1 .. c : U[u] = p.level,
           Len(L) = b => p.level = "MARK" /\ (L = <<>> \/ Last(L).level = "SPACE")
    PROVE  Grows(Join(L, p), L, b, T, U, c)
  <1>1. L \in Seq(Pulses) /\ Len(L) \in Nat /\ b <= Len(L) /\ (L = <<>> => Len(L) = 0)
    BY LenProperties, EmptySeq DEF Spans
  <1>2. p.level \in {"MARK", "SPACE"}
    BY DEF Pulses
  <1>3. CASE Len(L) = b
    <2>1. p.level = "MARK" /\ (L = <<>> \/ Last(L).level = "SPACE")
      BY <1>3
    <2>2. (b + 1) % 2 = 1
      BY SMT
    <2>3. p.level = Level(Len(L) + 1)
      BY <1>3, <2>1, <2>2 DEF Level
    <2>4. ~(L # <<>> /\ Last(L).level = p.level)
      BY <2>1
    <2> QED
      BY <2>3, <2>4, NextPulse
  <1>4. CASE Len(L) # b
    <2>1. b < Len(L) /\ Len(L) \in b + 1 .. Len(L)
      BY <1>1, <1>4, SMT
    <2>2. CASE Last(L).level = p.level
      BY <2>1, <2>2, LongerPulse
    <2>3. CASE Last(L).level # p.level
      <3>1. Last(L).level = Level(Len(L))
        BY <2>1 DEF Spans, SpanAt, Last
      <3>2. \/ Len(L) % 2 = 1 /\ (Len(L) + 1) % 2 = 0
            \/ Len(L) % 2 = 0 /\ (Len(L) + 1) % 2 = 1
        BY <1>1, SMT
      <3>3. p.level = Level(Len(L) + 1)
        BY <1>2, <2>3, <3>1, <3>2 DEF Level
      <3> QED
        BY <2>3, <3>3, NextPulse
    <2> QED
      BY <2>2, <2>3
  <1> QED
    BY <1>3, <1>4

\* A signal of units: C[n] of them are in its first n pulses, behind b pulses
\* of a header.
Units(s, b, T, U, C) ==
    /\ s \in Seq(Pulses) /\ b < Len(s)
    /\ C \in [b .. Len(s) -> Nat] /\ C[b] = 0
    /\ \A n \in b + 1 .. Len(s) :
          /\ C[n - 1] < C[n] /\ s[n].us = T * (C[n] - C[n - 1])
          /\ \A u \in C[n - 1] + 1 .. C[n] : U[u] = s[n].level
    /\ s[b + 1].level = "MARK"
    /\ b = 0 \/ (b = 2 /\ s[1].level = "MARK" /\ s[2].level = "SPACE")

\* The line made of the first n pieces: the header as it was sent, and
\* pulses that cover c units.
Merged(L, n, s, b, T, U, c) ==
    /\ b <= Len(L) /\ Len(L) <= n /\ (b < n => b < Len(L))
    /\ \A i \in 1 .. b : L[i] = s[i]
    /\ \E q : Spans(L, b, T, U, q) /\ q[Len(L)] = c

\* A header of a mark and a space is not merged.
LEMMA HeaderJoined ==
    ASSUME NEW s \in Seq(Pulses), Len(s) >= 2, s[1].level = "MARK", s[2].level = "SPACE"
    PROVE  LET l == Join(Join(<<>>, s[1]), s[2])
           IN  l \in Seq(Pulses) /\ Len(l) = 2 /\ l[1] = s[1] /\ l[2] = s[2]
  <1>1. s[1] \in Pulses /\ s[2] \in Pulses
    BY ElementOfSeq, LenProperties, SMT
  <1>2. Join(<<>>, s[1]) = Append(<<>>, s[1])
    BY DEF Join
  <1> DEFINE k == Append(<<>>, s[1])
  <1>3. k \in Seq(Pulses) /\ Len(k) = 1 /\ k[1] = s[1] /\ k # <<>>
    <2>1. <<>> \in Seq(Pulses) /\ Len(<<>>) = 0 /\ 0 + 1 = 1
      BY EmptySeq
    <2> QED
      BY <1>1, <2>1, AppendProperties
  <1> HIDE DEF k
  <1>4. Join(k, s[2]) = Append(k, s[2])
    BY <1>3 DEF Join, Last
  <1>5. LET l == Append(k, s[2])
        IN  l \in Seq(Pulses) /\ Len(l) = 2 /\ l[1] = s[1] /\ l[2] = s[2]
    <2> DEFINE l == Append(k, s[2])
    <2>1. /\ l \in Seq(Pulses) /\ Len(l) = Len(k) + 1
          /\ (\A i \in 1 .. Len(k) : l[i] = k[i]) /\ l[Len(k) + 1] = s[2]
      <3>1. PICK m \in Seq(Pulses) : m = k
        BY <1>3
      <3>2. PICK p \in Pulses : p = s[2]
        BY <1>1
      <3>3. /\ Append(m, p) \in Seq(Pulses) /\ Len(Append(m, p)) = Len(m) + 1
            /\ \A i \in 1 .. Len(m) : Append(m, p)[i] = m[i]
            /\ Append(m, p)[Len(m) + 1] = p
        BY AppendProperties
      <3> QED
        BY <3>1, <3>2, <3>3
    <2> HIDE DEF l
    <2>2. 1 + 1 = 2 /\ 1 \in 1 .. 1
      BY SMT
    <2>3. l[1] = s[1] /\ l[2] = s[2] /\ Len(l) = 2
      BY <1>3, <2>1, <2>2
    <2> QED
      BY <2>1, <2>3 DEF l
  <1> QED
    BY <1>2, <1>4, <1>5 DEF k

\* The header's line covers no unit yet.
LEMMA MergedBase ==
    ASSUME NEW s, NEW b, NEW T, NEW U, NEW C, Units(s, b, T, U, C), NEW f,
           f[0] = <<>>, \A n \in 1 .. Len(s) : f[n] = Join(f[n - 1], s[n])
    PROVE  /\ Merged(f[b], b, s, b, T, U, C[b])
           /\ f[b] = <<>> \/ Last(f[b]).level = "SPACE"
  <1> DEFINE q == [i \in b .. b |-> 0]
  <1>1. /\ f[b] \in Seq(Pulses) /\ Len(f[b]) = b /\ \A i \in 1 .. b : f[b][i] = s[i]
        /\ f[b] = <<>> \/ Last(f[b]).level = "SPACE"
    <2>1. CASE b = 0
      <3>1. 1 .. 0 = {} /\ <<>> \in Seq(Pulses) /\ Len(<<>>) = 0
        BY EmptySeq, SMT
      <3> QED
        BY <2>1, <3>1
    <2>2. CASE b = 2
      <3>1. /\ s \in Seq(Pulses) /\ Len(s) >= 2 /\ s[1].level = "MARK" /\ s[2].level = "SPACE"
            /\ 1 \in 1 .. Len(s) /\ 2 \in 1 .. Len(s) /\ 1 - 1 = 0 /\ 2 - 1 = 1
        BY <2>2, LenProperties DEF Units
      <3>2. f[1] = Join(<<>>, s[1]) /\ f[2] = Join(f[1], s[2])
        BY <3>1
      <3> DEFINE l == Join(Join(<<>>, s[1]), s[2])
      <3>3. f[2] = l
        BY <3>2
      <3>4. l \in Seq(Pulses) /\ Len(l) = 2 /\ l[1] = s[1] /\ l[2] = s[2]
        BY <3>1, HeaderJoined
      <3> HIDE DEF l
      <3>5. \A i \in 1 .. 2 : i = 1 \/ i = 2
        BY SMT
      <3>6. Last(l) = s[2]
        BY <3>4 DEF Last
      <3> QED
        BY <2>2, <3>1, <3>3, <3>4, <3>5, <3>6
    <2> QED
      BY <2>1, <2>2 DEF Units
  <1>2. b \in Nat /\ C[b] = 0
    BY DEF Units
  <1>3. q \in [b .. Len(f[b]) -> Nat] /\ q[b] = 0 /\ b + 1 .. b = {} /\ b <= b /\ ~(b < b)
    BY <1>1, <1>2
  <1>4. Spans(f[b], b, T, U, q)
    BY <1>1, <1>3 DEF Spans
  <1> HIDE DEF q
  <1> QED
    BY <1>1, <1>2, <1>3, <1>4 DEF Merged

\* The next piece of the signal covers the units up to its end.
LEMMA MergedStep ==
    ASSUME NEW s, NEW b, NEW T \in UnitTimes, NEW U, NEW C, Units(s, b, T, U, C),
           NEW n \in b .. Len(s) - 1, NEW L, Merged(L, n, s, b, T, U, C[n]),
           n = b => L = <<>> \/ Last(L).level = "SPACE"
    PROVE  Merged(Join(L, s[n + 1]), n + 1, s, b, T, U, C[n + 1])
  <1> DEFINE p == s[n + 1]
             M == Join(L, p)
  <1>1. /\ s \in Seq(Pulses) /\ b < Len(s) /\ C \in [b .. Len(s) -> Nat]
        /\ \A k \in b + 1 .. Len(s) :
              /\ C[k - 1] < C[k] /\ s[k].us = T * (C[k] - C[k - 1])
              /\ \A u \in C[k - 1] + 1 .. C[k] : U[u] = s[k].level
        /\ s[b + 1].level = "MARK" /\ b \in Nat /\ b % 2 = 0
    BY DEF Units
  <1>2. Len(s) \in Nat
    BY <1>1, LenProperties
  <1>3. /\ n + 1 \in b + 1 .. Len(s) /\ (n + 1) - 1 = n /\ n \in b .. Len(s)
        /\ n + 1 \in 1 .. Len(s) /\ n + 1 \in b .. Len(s)
    BY <1>1, <1>2, SMT
  <1>4. p \in Pulses
    BY <1>1, <1>3, ElementOfSeq
  <1>5. C[n] \in Nat /\ C[n + 1] \in Nat /\ C[n + 1] > C[n]
    <2>1. C[n] \in Nat /\ C[n + 1] \in Nat /\ C[n] < C[n + 1]
      BY <1>1, <1>3
    <2> QED
      BY <2>1, SMT
  <1>6. p.us = T * (C[n + 1] - C[n]) /\ \A u \in C[n] + 1 .. C[n + 1] : U[u] = p.level
    BY <1>1, <1>3
  <1>7. /\ b <= Len(L) /\ Len(L) <= n /\ (b < n => b < Len(L))
        /\ \A i \in 1 .. b : L[i] = s[i]
    BY DEF Merged
  <1>8. PICK q : Spans(L, b, T, U, q) /\ q[Len(L)] = C[n]
    BY DEF Merged
  <1>9. Len(L) \in Nat
    BY <1>8, LenProperties DEF Spans
  <1> HIDE DEF p
  <1>10. Len(L) = b => p.level = "MARK" /\ (L = <<>> \/ Last(L).level = "SPACE")
    <2> SUFFICES ASSUME Len(L) = b
                 PROVE  p.level = "MARK" /\ (L = <<>> \/ Last(L).level = "SPACE")
      OBVIOUS
    <2>1. n = b
      BY <1>1, <1>7, SMT
    <2> QED
      BY <1>1, <2>1 DEF p
  <1>11. Grows(M, L, b, T, U, C[n + 1])
    <2>1. /\ C[n + 1] > q[Len(L)] /\ p.us = T * (C[n + 1] - q[Len(L)])
          /\ \A u \in q[Len(L)] + 1 .. C[n + 1] : U[u] = p.level
      BY <1>5, <1>6, <1>8
    <2> QED
      BY <1>1, <1>4, <1>5, <1>8, <1>10, <2>1, JoinGrows, ZenonT(60)
  <1> HIDE DEF M
  <1>12. /\ Len(M) <= Len(L) + 1 /\ b < Len(M) /\ \A i \in 1 .. b : M[i] = L[i]
    BY <1>11 DEF Grows
  <1>13. PICK r : Spans(M, b, T, U, r) /\ r[Len(M)] = C[n + 1]
    BY <1>11 DEF Grows
  <1>14. Len(M) \in Nat
    BY <1>13, LenProperties DEF Spans
  <1>15. b <= Len(M) /\ Len(M) <= n + 1
    BY <1>1, <1>2, <1>7, <1>9, <1>12, <1>14, SMT
  <1>16. \A i \in 1 .. b : M[i] = s[i]
    BY <1>7, <1>12
  <1>17. Merged(M, n + 1, s, b, T, U, C[n + 1])
    BY <1>12, <1>13, <1>15, <1>16 DEF Merged
  <1> QED
    BY <1>17 DEF M, p

\* So the whole signal's line covers all its units, the last one dropped
\* when it is a space.
LEMMA PeriodsMerge ==
    ASSUME NEW s, NEW b, NEW T \in UnitTimes, NEW U, NEW C, Units(s, b, T, U, C)
    PROVE  \E L : /\ Merged(L, Len(s), s, b, T, U, C[Len(s)])
                  /\ Periods(s) = IF Last(L).level = "SPACE" THEN Front(L) ELSE L
  <1> DEFINE N == Len(s)
  <1>1. N \in Nat /\ b \in Nat /\ b < N
    BY LenProperties DEF Units
  <1>2. PICK f : /\ f[0] = <<>>
                 /\ \A n \in 1 .. N : f[n] = Join(f[n - 1], s[n])
                 /\ Periods(s) = IF Last(f[N]).level = "SPACE" THEN Front(f[N]) ELSE f[N]
    BY <1>1, PeriodsLemma
  <1>3. /\ Merged(f[b], b, s, b, T, U, C[b])
        /\ f[b] = <<>> \/ Last(f[b]).level = "SPACE"
    BY <1>2, MergedBase
  <1> HIDE DEF N
  <1> DEFINE S == {d \in 0 .. N - b : Merged(f[b + d], b + d, s, b, T, U, C[b + d])}
  <1>4. 0 \in S
    <2>1. 0 \in 0 .. N - b /\ b + 0 = b
      BY <1>1, SMT
    <2> QED
      BY <1>3, <2>1
  <1>5. ASSUME NEW d \in 0 .. (N - b) - 1, d \in S
        PROVE  d + 1 \in S
    <2>1. PICK n \in b .. N - 1 : n = b + d
      BY <1>1, SMT
    <2>2. /\ n + 1 = b + (d + 1) /\ n + 1 \in 1 .. N /\ (n + 1) - 1 = n
          /\ d + 1 \in 0 .. N - b
      BY <1>1, <2>1, SMT
    <2>3. Merged(f[n], n, s, b, T, U, C[n])
      BY <1>5, <2>1
    <2>4. f[n + 1] = Join(f[n], s[n + 1])
      BY <1>2, <2>2
    <2>5. Merged(f[n + 1], n + 1, s, b, T, U, C[n + 1])
      <3>1. n = b => f[n] = <<>> \/ Last(f[n]).level = "SPACE"
        BY <1>3
      <3>2. Merged(Join(f[n], s[n + 1]), n + 1, s, b, T, U, C[n + 1])
        BY <2>1, <2>3, <3>1, MergedStep, Zenon DEF N
      <3> QED
        BY <2>4, <3>2
    <2> QED
      BY <2>2, <2>5
  <1>6. N - b \in S
    <2>1. N - b \in Nat /\ N - b \in 0 .. N - b
      BY <1>1, SMT
    <2> HIDE DEF S
    <2>2. \A d \in 0 .. N - b : d \in S
      BY <1>4, <1>5, <2>1, InductionLemma
    <2> QED
      BY <2>1, <2>2
  <1>7. Merged(f[N], N, s, b, T, U, C[N])
    <2>1. b + (N - b) = N
      BY <1>1, SMT
    <2> QED
      BY <1>6, <2>1
  <1> QED
    BY <1>2, <1>7 DEF N

\* A level lasts at most W units.
Edges(U, W, total) == \A u \in 1 .. total - W : \E v \in u .. u + W - 1 : U[v] # U[v + 1]

\* What the line carries: all units, or all but a last space.
LineSpans(line, s, b, T, U, total) ==
    /\ b < Len(line) /\ Len(line) <= Len(s) /\ \A i \in 1 .. b : line[i] = s[i]
    /\ \E q : /\ Spans(line, b, T, U, q)
              /\ \/ q[Len(line)] = total
                 \/ q[Len(line)] = total - 1 /\ U[total] = "SPACE"

\* The ends of the pulses are in order.
LEMMA Climbs ==
    ASSUME NEW b \in Nat, NEW m \in Nat, b <= m, NEW q \in [b .. m -> Nat],
           \A i \in b + 1 .. m : q[i - 1] < q[i]
    PROVE  \A i \in b .. m : q[i] <= q[m]
  <1> DEFINE S == {d \in 0 .. m - b : q[m - d] <= q[m]}
  <1>1. 0 \in S
    <2>1. 0 \in 0 .. m - b /\ m - 0 = m /\ m \in b .. m
      BY SMT
    <2>2. q[m] \in Nat
      BY <2>1
    <2> QED
      BY <2>1, <2>2
  <1>2. ASSUME NEW d \in 0 .. (m - b) - 1, d \in S
        PROVE  d + 1 \in S
    <2>1. /\ d + 1 \in 0 .. m - b /\ m - d \in b + 1 .. m /\ m - d - 1 = m - (d + 1)
          /\ m - d \in b .. m /\ m - (d + 1) \in b .. m /\ m \in b .. m
      BY SMT
    <2>2. q[m - (d + 1)] < q[m - d]
      BY <2>1
    <2>3. q[m - d] \in Nat /\ q[m - (d + 1)] \in Nat /\ q[m] \in Nat
      BY <2>1
    <2>4. q[m - (d + 1)] <= q[m]
      BY <1>2, <2>2, <2>3
    <2> QED
      BY <2>1, <2>4
  <1>3. m - b \in Nat
    BY SMT
  <1> HIDE DEF S
  <1>4. \A d \in 0 .. m - b : d \in S
    BY <1>1, <1>2, <1>3, InductionLemma
  <1>5. ASSUME NEW i \in b .. m
        PROVE  q[i] <= q[m]
    <2>1. m - i \in 0 .. m - b /\ m - (m - i) = i
      BY SMT
    <2>2. m - i \in S
      BY <1>4, <2>1
    <2> QED
      BY <2>1, <2>2 DEF S
  <1> QED
    BY <1>5

\* The line of a bi-phase code covers its units up to the last or, when
\* the last is a space, the one before.
LEMMA PeriodsSpan ==
    ASSUME NEW s, NEW b, NEW T \in UnitTimes, NEW U, NEW C, Units(s, b, T, U, C),
           NEW total \in Nat, total = C[Len(s)], total >= 2, U[total - 1] # U[total]
    PROVE  LineSpans(Periods(s), s, b, T, U, total)
  <1>1. PICK L : /\ Merged(L, Len(s), s, b, T, U, total)
                 /\ Periods(s) = IF Last(L).level = "SPACE" THEN Front(L) ELSE L
    BY PeriodsMerge
  <1> DEFINE K == Len(L)
  <1>2. /\ b < K /\ K <= Len(s) /\ \A i \in 1 .. b : L[i] = s[i]
    BY <1>1 DEF Merged, Units
  <1>3. PICK q : Spans(L, b, T, U, q) /\ q[K] = total
    BY <1>1 DEF Merged
  <1>4. /\ L \in Seq(Pulses) /\ q \in [b .. K -> Nat] /\ q[b] = 0
        /\ \A i \in b + 1 .. K : SpanAt(L, T, U, q, i)
    BY <1>3 DEF Spans
  <1>5. K \in Nat /\ b \in Nat /\ Len(s) \in Nat
    BY <1>4, LenProperties, SMTT(30) DEF Units
  <1>6. CASE Last(L).level # "SPACE"
    BY <1>1, <1>2, <1>3, <1>6 DEF LineSpans
  <1>7. CASE Last(L).level = "SPACE"
    <2>1. /\ K \in b + 1 .. K /\ K - 1 \in b .. K /\ K - 1 \in Nat /\ (K - 1) + 1 = K
          /\ K - 1 <= Len(s)
      BY <1>2, <1>5, SMT
    <2>2. L[K].level = "SPACE"
      BY <1>7 DEF Last
    <2> DEFINE N == K - 1
               F == Front(L)
               r == [i \in b .. N |-> q[i]]
    <2>3. F \in Seq(Pulses) /\ Len(F) = N /\ \A n \in 1 .. N : F[n] = L[n]
      BY <1>4, <2>1, FrontLemma, Zenon
    <2>4. q[N] < total /\ \A u \in q[N] + 1 .. total : U[u] = "SPACE"
      BY <1>3, <1>4, <2>1, <2>2 DEF SpanAt
    <2> HIDE DEF K
    <2>5. q[N] \in Nat
      BY <1>4, <2>1
    <2>6. q[N] = total - 1 /\ U[total] = "SPACE"
      <3>1. total \in q[N] + 1 .. total
        BY <2>4, <2>5
      <3>2. U[total] = "SPACE"
        BY <2>4, <3>1
      <3>3. total - 1 \notin q[N] + 1 .. total
        BY <2>4, <3>2
      <3>4. q[N] = total - 1
        BY <2>4, <2>5, <3>3
      <3> QED
        BY <3>2, <3>4
    <2> HIDE DEF N, F
    <2>7. N \in Nat /\ b < N
      <3>1. N # b
        BY <1>4, <2>6
      <3> QED
        BY <1>2, <1>5, <2>1, <3>1, SMT DEF N
    <2>8. /\ r \in [b .. N -> Nat] /\ \A i \in b .. N : r[i] = q[i]
      <3>1. \A i \in b .. N : i \in b .. K
        BY <1>5, SMT DEF N
      <3> QED
        BY <1>4, <3>1
    <2> HIDE DEF r
    <2>9. b \in b .. N /\ N \in b .. N
      BY <1>5, <2>7, SMT
    <2>10. ASSUME NEW i \in b + 1 .. N
           PROVE  SpanAt(F, T, U, r, i)
      <3>1. i \in b + 1 .. K /\ i \in 1 .. N /\ i \in b .. N /\ i - 1 \in b .. N
        BY <1>5, <2>7, SMT DEF N
      <3>2. F[i] = L[i] /\ r[i] = q[i] /\ r[i - 1] = q[i - 1]
        BY <2>3, <2>8, <3>1
      <3> QED
        BY <1>4, <3>1, <3>2 DEF SpanAt
    <2>11. \A i \in b .. N : r[i] <= r[N]
      <3>1. \A i \in b + 1 .. N : r[i - 1] < r[i]
        BY <2>10 DEF SpanAt
      <3>2. b <= N
        BY <1>5, <2>7, SMT
      <3> QED
        BY <1>5, <2>7, <2>8, <3>1, <3>2, Climbs
    <2>12. Spans(F, b, T, U, r)
      <3>1. b <= N /\ \A i \in b + 1 .. N : i \in b .. N
        BY <1>5, <2>7, SMT
      <3>2. r[b] = 0
        BY <1>4, <2>8, <2>9
      <3> QED
        BY <2>3, <2>8, <2>10, <2>11, <3>1, <3>2 DEF Spans
    <2>13. r[N] = total - 1
      BY <2>6, <2>8, <2>9
    <2>14. \A i \in 1 .. b : F[i] = s[i]
      <3>1. \A i \in 1 .. b : i \in 1 .. N
        BY <1>5, <2>7, SMT
      <3> QED
        BY <1>2, <2>3, <3>1
    <2>15. N <= Len(s)
      BY <2>1 DEF N
    <2>16. LineSpans(F, s, b, T, U, total)
      BY <2>3, <2>6, <2>7, <2>12, <2>13, <2>14, <2>15 DEF LineSpans
    <2> QED
      BY <1>1, <1>7, <2>16 DEF F
  <1> QED
    BY <1>6, <1>7

\* No entry is wider than the units allow.
LEMMA Narrow ==
    ASSUME NEW b \in Nat, NEW T, NEW U, NEW line, NEW q, Spans(line, b, T, U, q),
           NEW total \in Nat, q[Len(line)] <= total, NEW W \in 1 .. 3, Edges(U, W, total),
           NEW i \in b + 1 .. Len(line)
    PROVE  q[i] - q[i - 1] \in 1 .. W
  <1> DEFINE a == q[i - 1]
             c == q[i]
  <1>1. Len(line) \in Nat
    BY LenProperties DEF Spans
  <1>2. a < c /\ c <= q[Len(line)] /\ \A u \in a + 1 .. c : U[u] = line[i].level
    BY DEF Spans, SpanAt
  <1>3. i - 1 \in b .. Len(line) /\ i \in b .. Len(line) /\ Len(line) \in b .. Len(line)
    BY <1>1, SMT
  <1>4. a \in Nat /\ c \in Nat /\ q[Len(line)] \in Nat
    BY <1>3 DEF Spans
  <1> HIDE DEF a, c
  <1>5. c <= total
    BY <1>2, <1>4, SMT
  <1>6. ASSUME c - a > W
        PROVE  FALSE
    <2>1. PICK u \in 1 .. total - W : u = a + 1
      BY <1>4, <1>5, <1>6, SMT
    <2>2. PICK v \in u .. u + W - 1 : U[v] # U[v + 1]
      BY DEF Edges
    <2>3. v \in a + 1 .. c /\ v + 1 \in a + 1 .. c
      BY <1>4, <1>6, <2>1, <2>2, SMT
    <2> QED
      BY <1>2, <2>2, <2>3
  <1>7. c - a \in 1 .. W
    BY <1>2, <1>4, <1>6, SMT
  <1> QED
    BY <1>7 DEF a, c

\* An entry of w units is measured as w units.
LEMMA UnitMark ==
    ASSUME NEW t
    PROVE  /\ MarkTicks(t, 889 * 1) => MATCH(t, 1 * 889 + 100)
           /\ MarkTicks(t, 889 * 2) => MATCH(t, 2 * 889 + 100) /\ ~MATCH(t, 1 * 889 + 100)
           /\ MarkTicks(t, 444 * 1) => MATCH(t, 1 * 444 + 100)
           /\ MarkTicks(t, 444 * 2) => MATCH(t, 2 * 444 + 100) /\ ~MATCH(t, 1 * 444 + 100)
           /\ MarkTicks(t, 444 * 3) => /\ MATCH(t, 3 * 444 + 100)
                                       /\ ~MATCH(t, 1 * 444 + 100) /\ ~MATCH(t, 2 * 444 + 100)
  BY SMT DEF MarkTicks, MATCH

\* A space of up to three units is measured as its own number of units
\* and as no smaller one.
LEMMA UnitSpace ==
    ASSUME NEW t
    PROVE  /\ SpaceTicks(t, 889 * 1) => MATCH(t, 1 * 889 + -100)
           /\ SpaceTicks(t, 889 * 2) => MATCH(t, 2 * 889 + -100) /\ ~MATCH(t, 1 * 889 + -100)
           /\ SpaceTicks(t, 444 * 1) => MATCH(t, 1 * 444 + -100)
           /\ SpaceTicks(t, 444 * 2) => MATCH(t, 2 * 444 + -100) /\ ~MATCH(t, 1 * 444 + -100)
           /\ SpaceTicks(t, 444 * 3) => /\ MATCH(t, 3 * 444 + -100)
                                        /\ ~MATCH(t, 1 * 444 + -100) /\ ~MATCH(t, 2 * 444 + -100)
  BY SMT DEF SpaceTicks, MATCH

\* A recorded pulse of w units is read as w levels.
LEMMA UnitRead ==
    ASSUME NEW h, NEW i \in Nat, NEW T \in UnitTimes, NEW w \in 1 .. 3, T = RC5_T1 => w <= 2,
           IF i % 2 = 1 THEN MarkTicks(h.rawbuf[i], T * w) ELSE SpaceTicks(h.rawbuf[i], T * w)
    PROVE  entryLevels(h, i, T) = Run(i, w)
  <1> DEFINE t == h.rawbuf[i]
  <1>1. \/ T = 889 /\ w = 1
        \/ T = 889 /\ w = 2
        \/ T = 444 /\ w = 1
        \/ T = 444 /\ w = 2
        \/ T = 444 /\ w = 3
    BY DEF UnitTimes, RC5_T1, RC6_T1
  <1>2. \A n \in 1 .. w - 1 : \/ w = 2 /\ n = 1
                              \/ w = 3 /\ n = 1
                              \/ w = 3 /\ n = 2
    BY SMT
  <1>3. CASE i % 2 = 1
    <2>1. Excess(i) = 100 /\ MarkTicks(t, T * w)
      BY <1>3 DEF Excess, MARK_EXCESS
    <2> HIDE DEF t
    <2>2. Fits(h, i, T, w)
      BY <1>1, <2>1, UnitMark DEF Fits, t
    <2>3. ASSUME NEW n \in 1 .. w - 1
          PROVE  ~Fits(h, i, T, n)
      <3>1. (w = 2 /\ n = 1) \/ (w = 3 /\ n = 1) \/ (w = 3 /\ n = 2)
        BY <1>2
      <3> QED
        BY <1>1, <2>1, <3>1, UnitMark DEF Fits, t
    <2> QED
      BY <2>2, <2>3, EntryLevels
  <1>4. CASE i % 2 # 1
    <2>1. Excess(i) = -100 /\ SpaceTicks(t, T * w)
      BY <1>4 DEF Excess, MARK_EXCESS
    <2> HIDE DEF t
    <2>2. Fits(h, i, T, w)
      BY <1>1, <2>1, UnitSpace DEF Fits, t
    <2>3. ASSUME NEW n \in 1 .. w - 1
          PROVE  ~Fits(h, i, T, n)
      <3>1. (w = 2 /\ n = 1) \/ (w = 3 /\ n = 1) \/ (w = 3 /\ n = 2)
        BY <1>2
      <3> QED
        BY <1>1, <2>1, <3>1, UnitSpace DEF Fits, t
    <2> QED
      BY <2>2, <2>3, EntryLevels
  <1> QED
    BY <1>3, <1>4

\* The levels that have been read are those of the first m units.
ReadAs(l, U, m) == l \in Seq(LevelSet) /\ Len(l) = m /\ \A u \in 1 .. m : l[u] = U[u]

\* The next run of levels reads the next units.
LEMMA MoreRead ==
    ASSUME NEW l, NEW U, NEW m \in Nat, ReadAs(l, U, m), NEW i, NEW w \in 1 .. 3,
           \A u \in m + 1 .. m + w : U[u] = Level(i)
    PROVE  ReadAs(l \o Run(i, w), U, m + w)
  <1> DEFINE R == Run(i, w)
             M == l \o R
  <1>1. l \in Seq(LevelSet) /\ Len(l) = m /\ \A u \in 1 .. m : l[u] = U[u]
    BY DEF ReadAs
  <1>2. R \in Seq(LevelSet) /\ Len(R) = w /\ \A n \in 1 .. w : R[n] = Level(i)
    BY RunLevels
  <1> HIDE DEF R
  <1>3. /\ M \in Seq(LevelSet) /\ Len(M) = m + w
        /\ \A u \in 1 .. m + w : M[u] = IF u <= m THEN l[u] ELSE R[u - m]
    BY <1>1, <1>2, ConcatProperties
  <1> HIDE DEF M
  <1>4. ASSUME NEW u \in 1 .. m + w
        PROVE  M[u] = U[u]
    <2>1. CASE u <= m
      BY <1>1, <1>3, <2>1
    <2>2. CASE ~(u <= m)
      <3>1. u - m \in 1 .. w /\ u \in m + 1 .. m + w
        BY <2>2, SMT
      <3> QED
        BY <1>2, <1>3, <2>2, <3>1
    <2> QED
      BY <2>1, <2>2
  <1> QED
    BY <1>3, <1>4 DEF ReadAs, M, R

\* The runs of all entries, one after the other, read the units in
\* order.
LEMMA SeqsRead ==
    ASSUME NEW N \in Nat, N # 0, NEW seqs, Len(seqs) = N, NEW U, NEW p \in [0 .. N -> Nat],
           p[0] = 0, NEW b,
           \A k \in 1 .. N : /\ p[k] - p[k - 1] \in 1 .. 3
                             /\ seqs[k] = Run(b + k, p[k] - p[k - 1])
                             /\ \A u \in p[k - 1] + 1 .. p[k] : U[u] = Level(b + k)
    PROVE  ReadAs(FlattenSeq(seqs), U, p[N])
  <1>1. PICK f : /\ f[1] = seqs[1]
                 /\ \A n \in 2 .. N : f[n] = f[n - 1] \o seqs[n]
                 /\ FlattenSeq(seqs) = f[N]
    <2>1. Len(seqs) \in Nat /\ Len(seqs) # 0
      OBVIOUS
    <2>2. PICK f : /\ f[1] = seqs[1]
                   /\ \A n \in 2 .. Len(seqs) : f[n] = f[n - 1] \o seqs[n]
                   /\ FlattenSeq(seqs) = f[Len(seqs)]
      BY <2>1, FlattenLemma, Zenon
    <2>3. f[1] = seqs[1] /\ FlattenSeq(seqs) = f[N] /\ \A n \in 2 .. N : f[n] = f[n - 1] \o seqs[n]
      BY <2>2, Zenon
    <2> QED
      BY <2>3, Zenon
  <1> DEFINE S == {d \in 0 .. N - 1 : ReadAs(f[d + 1], U, p[d + 1])}
  <1>2. 0 \in S
    <2>1. 1 \in 1 .. N /\ 1 - 1 = 0 /\ 0 + 1 = 1 /\ 0 \in 0 .. N - 1 /\ 1 \in 0 .. N
      BY SMT
    <2>2. PICK w \in 1 .. 3 : w = p[1]
      <3>1. p[1] - p[0] \in 1 .. 3 /\ p[1] \in Nat
        BY <2>1
      <3>2. p[1] \in 1 .. 3
        BY <3>1
      <3> QED
        BY <3>2
    <2>3. p[1] - p[0] = w /\ p[0] + 1 = 1
      BY <2>2
    <2>4. f[1] = Run(b + 1, w)
      BY <1>1, <2>1, <2>3
    <2>5. \A u \in 1 .. w : U[u] = Level(b + 1)
      BY <2>1, <2>2, <2>3
    <2>6. /\ Run(b + 1, w) \in Seq(LevelSet) /\ Len(Run(b + 1, w)) = w
          /\ \A n \in 1 .. w : Run(b + 1, w)[n] = Level(b + 1)
      BY RunLevels
    <2>7. ReadAs(f[1], U, w)
      BY <2>4, <2>5, <2>6 DEF ReadAs
    <2> QED
      BY <2>1, <2>2, <2>7
  <1>3. ASSUME NEW d \in 0 .. (N - 1) - 1, d \in S
        PROVE  d + 1 \in S
    <2>1. PICK k \in 2 .. N : k = d + 2
      BY SMT
    <2>2. /\ k \in 1 .. N /\ k - 1 = d + 1 /\ d + 1 \in 0 .. N - 1 /\ (d + 1) + 1 = k
          /\ k \in 0 .. N /\ d + 1 \in 0 .. N
      BY <2>1, SMT
    <2>3. PICK m \in Nat : m = p[d + 1]
      BY <2>2
    <2>4. PICK w \in 1 .. 3 : w = p[k] - m
      BY <2>2, <2>3
    <2>5. ReadAs(f[d + 1], U, m)
      BY <1>3, <2>3
    <2>6. seqs[k] = Run(b + k, w) /\ \A u \in m + 1 .. p[k] : U[u] = Level(b + k)
      BY <2>2, <2>3, <2>4
    <2>7. p[k] = m + w
      <3>1. p[k] \in Nat
        BY <2>2
      <3> QED
        BY <2>4, <3>1
    <2>8. f[k] = f[d + 1] \o Run(b + k, w)
      BY <1>1, <2>1, <2>2, <2>6
    <2>9. ReadAs(f[k], U, m + w)
      <3>1. \A u \in m + 1 .. m + w : U[u] = Level(b + k)
        BY <2>6, <2>7
      <3>2. ReadAs(f[d + 1] \o Run(b + k, w), U, m + w)
        BY <2>5, <3>1, MoreRead
      <3> QED
        BY <2>8, <3>2
    <2> QED
      BY <2>2, <2>7, <2>9
  <1>4. N - 1 \in Nat /\ N - 1 \in 0 .. N - 1 /\ (N - 1) + 1 = N
    BY SMT
  <1>5. N - 1 \in S
    <2> HIDE DEF S
    <2>1. \A d \in 0 .. N - 1 : d \in S
      BY <1>2, <1>3, <1>4, InductionLemma
    <2> QED
      BY <1>4, <2>1
  <1>6. ReadAs(f[N], U, p[N])
    BY <1>4, <1>5
  <1> QED
    BY <1>1, <1>6

\* getRClevel() reads from a recording of the line the levels that were
\* sent.
LEMMA LevelsRead ==
    ASSUME NEW b \in Nat, NEW T \in UnitTimes, NEW U, NEW h, NEW line, Heard(h, line),
           NEW q, Spans(line, b, T, U, q), b < Len(line),
           NEW total \in Nat, q[Len(line)] <= total,
           NEW W \in 1 .. 3, T = RC5_T1 => W = 2, Edges(U, W, total)
    PROVE  ReadAs(levels(h, b + 1, T), U, q[Len(line)])
  <1> DEFINE K == Len(line)
             seqs == [k \in 1 .. h.rawlen - (b + 1) |-> entryLevels(h, (b + 1) + k - 1, T)]
  <1>1. K \in Nat /\ b < K
    BY LenProperties DEF Spans
  <1>2. /\ q \in [b .. K -> Nat] /\ q[b] = 0
        /\ \A i \in b + 1 .. K : SpanAt(line, T, U, q, i)
    BY DEF Spans
  <1>3. /\ h.rawlen = K + 1
        /\ \A i \in 1 .. K : IF i % 2 = 1 THEN MarkTicks(h.rawbuf[i], line[i].us)
                             ELSE SpaceTicks(h.rawbuf[i], line[i].us)
    BY DEF Heard
  <1>4. \A i \in b + 1 .. K : q[i] - q[i - 1] \in 1 .. W
    BY Narrow
  <1> HIDE DEF K
  <1>5. PICK N \in Nat : N = K - b /\ N # 0
    BY <1>1, SMT
  <1>6. h.rawlen - (b + 1) = N
    BY <1>1, <1>3, <1>5, SMT
  <1>7. Len(seqs) = N
    BY <1>6
  <1> DEFINE p == [k \in 0 .. N |-> q[b + k]]
  <1>8. \A k \in 0 .. N : b + k \in b .. K /\ p[k] = q[b + k]
    BY <1>1, <1>5, SMT
  <1>9. p \in [0 .. N -> Nat]
    BY <1>2, <1>8
  <1>10. p[0] = 0
    <2>1. 0 \in 0 .. N /\ b + 0 = b
      BY <1>5, SMT
    <2> QED
      BY <1>2, <1>8, <2>1
  <1> HIDE DEF p
  <1>11. ASSUME NEW k \in 1 .. N
         PROVE  /\ p[k] - p[k - 1] \in 1 .. 3
                /\ seqs[k] = Run(b + k, p[k] - p[k - 1])
                /\ \A u \in p[k - 1] + 1 .. p[k] : U[u] = Level(b + k)
    <2>1. PICK i \in b + 1 .. K : i = b + k
      BY <1>1, <1>5, SMT
    <2>2. /\ i \in 1 .. K /\ i \in Nat /\ i - 1 = b + (k - 1) /\ k - 1 \in 0 .. N /\ k \in 0 .. N
          /\ (b + 1) + k - 1 = i
      BY <1>1, <1>5, <2>1, SMT
    <2>3. p[k] = q[i] /\ p[k - 1] = q[i - 1]
      BY <1>8, <2>1, <2>2
    <2>4. PICK w \in 1 .. W : w = q[i] - q[i - 1]
      BY <1>4
    <2>5. w \in 1 .. 3 /\ (T = RC5_T1 => w <= 2)
      BY SMT
    <2>6. /\ line[i].level = Level(i) /\ line[i].us = T * w
          /\ \A u \in q[i - 1] + 1 .. q[i] : U[u] = line[i].level
      BY <1>2, <2>4 DEF SpanAt
    <2>7. IF i % 2 = 1 THEN MarkTicks(h.rawbuf[i], T * w) ELSE SpaceTicks(h.rawbuf[i], T * w)
      BY <1>3, <2>2, <2>6, Zenon
    <2>8. entryLevels(h, i, T) = Run(i, w)
      BY <2>2, <2>5, <2>7, UnitRead, Zenon
    <2>9. seqs[k] = entryLevels(h, i, T)
      BY <1>6, <2>2
    <2> HIDE DEF seqs
    <2> QED
      BY <2>1, <2>3, <2>4, <2>5, <2>6, <2>8, <2>9
  <1>12. levels(h, b + 1, T) = FlattenSeq(seqs)
    BY Zenon DEF levels
  <1> HIDE DEF seqs
  <1>13. ReadAs(FlattenSeq(seqs), U, p[N])
    BY <1>5, <1>7, <1>9, <1>10, <1>11, SeqsRead
  <1>14. p[N] = q[K]
    <2>1. N \in 0 .. N /\ b + N = K
      BY <1>1, <1>5, SMT
    <2> QED
      BY <1>8, <2>1
  <1> QED
    BY <1>12, <1>13, <1>14 DEF K

\* One more pulse of at most W units.
LEMMA WidthsAdd ==
    ASSUME NEW W \in 1 .. 3, NEW d \in Nat, NEW x \in Nat, x <= W * d, NEW y \in Nat, y - x <= W
    PROVE  y <= W * (d + 1)
  <1>1. CASE W = 1
    BY <1>1, SMT
  <1>2. CASE W = 2
    BY <1>2, SMT
  <1>3. CASE W = 3
    BY <1>3, SMT
  <1>4. W = 1 \/ W = 2 \/ W = 3
    BY SMT
  <1> QED
    BY <1>1, <1>2, <1>3, <1>4

\* Pulses of at most W units reach at most W units each.
LEMMA Reach ==
    ASSUME NEW b \in Nat, NEW K \in Nat, b <= K, NEW q \in [b .. K -> Nat], q[b] = 0,
           NEW W \in 1 .. 3, \A i \in b + 1 .. K : q[i] - q[i - 1] \in 1 .. W
    PROVE  q[K] <= W * (K - b)
  <1> DEFINE S == {d \in 0 .. K - b : q[b + d] <= W * d}
  <1>1. 0 \in S
    <2>1. 0 \in 0 .. K - b /\ b + 0 = b /\ W * 0 = 0 /\ 0 <= 0
      BY SMT
    <2> QED
      BY <2>1
  <1>2. ASSUME NEW d \in 0 .. (K - b) - 1, d \in S
        PROVE  d + 1 \in S
    <2>1. PICK i \in b + 1 .. K : i = b + (d + 1)
      BY SMT
    <2>2. /\ d + 1 \in 0 .. K - b /\ i - 1 = b + d /\ i \in b .. K /\ i - 1 \in b .. K
          /\ d \in Nat
      BY <2>1, SMT
    <2>3. PICK x \in Nat : x = q[i - 1]
      BY <2>2
    <2>4. PICK y \in Nat : y = q[i]
      BY <2>2
    <2>5. y - x <= W
      <3>1. y - x \in 1 .. W
        BY <2>3, <2>4
      <3> QED
        BY <3>1
    <2>6. x <= W * d
      BY <1>2, <2>2, <2>3
    <2>7. y <= W * (d + 1)
      BY <2>2, <2>5, <2>6, WidthsAdd
    <2> QED
      BY <2>1, <2>2, <2>4, <2>7
  <1>3. K - b \in Nat /\ K - b \in 0 .. K - b /\ b + (K - b) = K
    BY SMT
  <1> HIDE DEF S
  <1>4. \A d \in 0 .. K - b : d \in S
    BY <1>1, <1>2, <1>3, InductionLemma
  <1>5. K - b \in S
    BY <1>3, <1>4
  <1> QED
    BY <1>3, <1>5 DEF S

\* What a decoder of units finds in the recording of a signal of units.
UnitsRead(h, b, T, W, U, total) ==
    \E m \in Nat : /\ ReadAs(levels(h, b + 1, T), U, m)
                   /\ m = total \/ (m = total - 1 /\ U[total] = "SPACE")
                   /\ m <= W * (h.rawlen - (b + 1))

\* A recording of a bi-phase code is long enough, and is read as the
\* levels that were sent.
LEMMA LineRead ==
    ASSUME NEW b \in Nat, NEW T \in UnitTimes, NEW U, NEW s, NEW line,
           NEW total \in Nat, total # 0, LineSpans(line, s, b, T, U, total),
           NEW W \in 1 .. 3, T = RC5_T1 => W = 2, Edges(U, W, total),
           NEW h, Heard(h, line)
    PROVE  UnitsRead(h, b, T, W, U, total)
  <1> DEFINE K == Len(line)
  <1>1. b < K
    BY DEF LineSpans
  <1>2. PICK q : /\ Spans(line, b, T, U, q)
                 /\ q[K] = total \/ (q[K] = total - 1 /\ U[total] = "SPACE")
    BY DEF LineSpans
  <1>3. /\ K \in Nat /\ q \in [b .. K -> Nat] /\ q[b] = 0
    BY <1>2, LenProperties DEF Spans
  <1>4. q[K] \in Nat /\ q[K] <= total /\ b <= K
    <2>1. K \in b .. K /\ b <= K
      BY <1>1, <1>3, SMT
    <2>2. q[K] \in Nat
      BY <1>3, <2>1
    <2> QED
      BY <1>2, <2>1, <2>2
  <1>5. ReadAs(levels(h, b + 1, T), U, q[K])
    BY <1>1, <1>2, <1>4, LevelsRead
  <1>6. \A i \in b + 1 .. K : q[i] - q[i - 1] \in 1 .. W
    BY <1>2, <1>4, Narrow
  <1>7. q[K] <= W * (K - b)
    <2> HIDE DEF K
    <2> QED
      BY <1>3, <1>4, <1>6, Reach
  <1>8. h.rawlen - (b + 1) = K - b
    <2>1. h.rawlen = K + 1
      BY DEF Heard
    <2> HIDE DEF K
    <2> QED
      BY <1>3, <2>1, SMT
  <1> QED
    BY <1>2, <1>4, <1>5, <1>7, <1>8 DEF UnitsRead

\* The entries of a line of units can all be recorded.
LEMMA LineRecorded ==
    ASSUME NEW b \in Nat, NEW T \in UnitTimes, NEW U, NEW s, NEW line,
           NEW total, LineSpans(line, s, b, T, U, total),
           \A i \in 1 .. b : s[i].us >= 200
    PROVE  \A i \in 1 .. Len(line) : line[i].us \in Nat /\ line[i].us >= 200
  <1> DEFINE K == Len(line)
  <1>1. PICK q : Spans(line, b, T, U, q)
    BY DEF LineSpans
  <1>2. /\ K \in Nat /\ q \in [b .. K -> Nat] /\ line \in [1 .. K -> Pulses]
        /\ \A i \in b + 1 .. K : SpanAt(line, T, U, q, i)
    BY <1>1, LenProperties DEF Spans
  <1>3. \A i \in 1 .. b : line[i] = s[i]
    BY DEF LineSpans
  <1> HIDE DEF K
  <1>4. ASSUME NEW i \in 1 .. K
        PROVE  line[i].us \in Nat /\ line[i].us >= 200
    <2>1. line[i].us \in Nat
      BY <1>2 DEF Pulses
    <2>2. CASE i \in 1 .. b
      BY <1>3, <2>1, <2>2
    <2>3. CASE i \notin 1 .. b
      <3>1. i \in b + 1 .. K /\ i \in b .. K /\ i - 1 \in b .. K
        BY <1>2, <2>3, SMT
      <3>2. PICK x \in Nat : x = q[i - 1]
        BY <1>2, <3>1
      <3>3. PICK y \in Nat : y = q[i]
        BY <1>2, <3>1
      <3>4. x < y /\ line[i].us = T * (y - x)
        BY <1>2, <3>1, <3>2, <3>3 DEF SpanAt
      <3>5. T * (y - x) >= 200
        <4>1. T = 889 \/ T = 444
          BY DEF UnitTimes, RC5_T1, RC6_T1
        <4>2. CASE T = 889
          BY <3>4, <4>2
        <4>3. CASE T = 444
          BY <3>4, <4>3
        <4> QED
          BY <4>1, <4>2, <4>3
      <3> QED
        BY <2>1, <3>4, <3>5
    <2> QED
      BY <2>2, <2>3
  <1> QED
    BY <1>4 DEF K

\* The halves of the bits: one of each level, which first depends on the bit,
\* and of us[i] each.
Halves(D, B, data, us, first, second) ==
    /\ D \in Seq(Pulses) /\ Len(D) = 2 * B
    /\ \A i \in 1 .. B :
          /\ D[2 * i - 1].us = us[i] /\ D[2 * i].us = us[i]
          /\ IF data[i] = 1
             THEN D[2 * i - 1].level = first /\ D[2 * i].level = second
             ELSE D[2 * i - 1].level = second /\ D[2 * i].level = first

\* sendRC5()'s loop: a one is a space and a mark, a zero a mark and a
\* space.
LEMMA RC5Bits ==
    ASSUME NEW B \in Nat, NEW data \in [1 .. B -> {0, 1}]
    PROVE  Halves(ForBits(data, LAMBDA i :
                     IF data[i] = 1 THEN <<Space(RC5_T1), Mark(RC5_T1)>>
                                    ELSE <<Mark(RC5_T1), Space(RC5_T1)>>),
                  B, data, [i \in 1 .. B |-> RC5_T1], "SPACE", "MARK")
  <1> DEFINE D == ForBits(data, LAMBDA i :
                     IF data[i] = 1 THEN <<Space(RC5_T1), Mark(RC5_T1)>>
                                    ELSE <<Mark(RC5_T1), Space(RC5_T1)>>)
             us == [i \in 1 .. B |-> RC5_T1]
  <1>1. Len(data) = B
    BY FunctionIsSeq
  <1>2. /\ Mark(RC5_T1) \in Pulses /\ Mark(RC5_T1).level = "MARK" /\ Mark(RC5_T1).us = RC5_T1
        /\ Space(RC5_T1) \in Pulses /\ Space(RC5_T1).level = "SPACE" /\ Space(RC5_T1).us = RC5_T1
    <2>1. RC5_T1 \in Nat
      BY DEF RC5_T1
    <2> QED
      BY <2>1, PulseLemma
  <1>3. ASSUME NEW i \in 1 .. B
        PROVE  IF data[i] = 1 THEN D[2 * i - 1] = Space(RC5_T1) /\ D[2 * i] = Mark(RC5_T1)
                              ELSE D[2 * i - 1] = Mark(RC5_T1) /\ D[2 * i] = Space(RC5_T1)
    <2>1. /\ 2 * i - 1 \in 1 .. 2 * B /\ 2 * i \in 1 .. 2 * B
          /\ ((2 * i - 1) + 1) \div 2 = i /\ (2 * i + 1) \div 2 = i
          /\ 2 - ((2 * i - 1) % 2) = 1 /\ 2 - ((2 * i) % 2) = 2
      BY SMT
    <2>2. data[i] = 1 \/ data[i] # 1
      OBVIOUS
    <2>3. D[2 * i - 1] = IF data[i] = 1 THEN Space(RC5_T1) ELSE Mark(RC5_T1)
      BY <1>1, <2>1, <2>2 DEF ForBits
    <2>4. D[2 * i] = IF data[i] = 1 THEN Mark(RC5_T1) ELSE Space(RC5_T1)
      BY <1>1, <2>1, <2>2 DEF ForBits
    <2> HIDE DEF D
    <2> QED
      BY <2>3, <2>4
  <1>4. D = [n \in 1 .. 2 * B |-> D[n]]
    BY <1>1 DEF ForBits
  <1>5. \A i \in 1 .. B : us[i] = RC5_T1
    OBVIOUS
  <1> HIDE DEF D, us
  <1>6. ASSUME NEW n \in 1 .. 2 * B
        PROVE  D[n] \in Pulses
    <2>1. PICK i \in 1 .. B : n = 2 * i - 1 \/ n = 2 * i
      <3>1. (n + 1) \div 2 \in 1 .. B
        BY PairIndex
      <3>2. n = 2 * ((n + 1) \div 2) - 1 \/ n = 2 * ((n + 1) \div 2)
        BY SMT
      <3> QED
        BY <3>1, <3>2
    <2> QED
      BY <1>2, <1>3, <2>1
  <1>7. D \in Seq(Pulses) /\ Len(D) = 2 * B
    <2>1. PICK k \in Nat : k = 2 * B
      BY SMT
    <2>2. D \in [1 .. k -> Pulses]
      BY <1>4, <1>6, <2>1, Zenon
    <2> QED
      BY <2>1, <2>2, FunctionIsSeq
  <1>8. ASSUME NEW i \in 1 .. B
        PROVE  /\ D[2 * i - 1].us = us[i] /\ D[2 * i].us = us[i]
               /\ IF data[i] = 1
                  THEN D[2 * i - 1].level = "SPACE" /\ D[2 * i].level = "MARK"
                  ELSE D[2 * i - 1].level = "MARK" /\ D[2 * i].level = "SPACE"
    BY <1>2, <1>3, <1>5
  <1>9. Halves(D, B, data, us, "SPACE", "MARK")
    BY <1>7, <1>8, Zenon DEF Halves
  <1> QED
    BY <1>9, Zenon DEF D, us

\* The signal of an RC5 code: three units of start bits, two units for
\* each bit.
IsRC5(s, data) ==
    /\ s \in Seq(Pulses) /\ Len(s) = 27
    /\ s[1].level = "MARK" /\ s[2].level = "SPACE" /\ s[3].level = "MARK"
    /\ \A u \in 1 .. 27 : s[u].us = RC5_T1
    /\ \A i \in 1 .. 12 :
          IF data[i] = 1
          THEN s[2 * i + 2].level = "SPACE" /\ s[2 * i + 3].level = "MARK"
          ELSE s[2 * i + 2].level = "MARK" /\ s[2 * i + 3].level = "SPACE"

\* sendRC5() sends such a signal.
LEMMA RC5Signal ==
    ASSUME NEW data \in [1 .. 12 -> {0, 1}]
    PROVE  IsRC5(sendRC5(data), data)
  <1> DEFINE H == <<Mark(RC5_T1), Space(RC5_T1), Mark(RC5_T1)>>
             D == ForBits(data, LAMBDA i :
                     IF data[i] = 1 THEN <<Space(RC5_T1), Mark(RC5_T1)>>
                                    ELSE <<Mark(RC5_T1), Space(RC5_T1)>>)
             s == sendRC5(data)
  <1>0. PICK B \in Nat : B = 12
    OBVIOUS
  <1> DEFINE us == [i \in 1 .. B |-> RC5_T1]
  <1>1. s = H \o D
    BY Zenon DEF sendRC5
  <1>2. /\ H \in Seq(Pulses) /\ Len(H) = 3
        /\ H[1].level = "MARK" /\ H[2].level = "SPACE" /\ H[3].level = "MARK"
        /\ H[1].us = RC5_T1 /\ H[2].us = RC5_T1 /\ H[3].us = RC5_T1
    <2>1. RC5_T1 \in Nat
      BY DEF RC5_T1
    <2> QED
      BY <2>1, PulseLemma
  <1>3. Halves(D, B, data, us, "SPACE", "MARK")
    <2>1. data \in [1 .. B -> {0, 1}]
      BY <1>0
    <2> QED
      BY <2>1, RC5Bits, Zenon
  <1>4. \A i \in 1 .. B : us[i] = RC5_T1
    OBVIOUS
  <1> HIDE DEF H, D, s, us
  <1>5. /\ D \in Seq(Pulses) /\ Len(D) = 24
        /\ \A i \in 1 .. 12 :
              /\ D[2 * i - 1].us = RC5_T1 /\ D[2 * i].us = RC5_T1
              /\ IF data[i] = 1
                 THEN D[2 * i - 1].level = "SPACE" /\ D[2 * i].level = "MARK"
                 ELSE D[2 * i - 1].level = "MARK" /\ D[2 * i].level = "SPACE"
    BY <1>0, <1>3, <1>4, SMTT(30) DEF Halves
  <1>6. /\ s \in Seq(Pulses) /\ Len(s) = 27
        /\ \A n \in 1 .. 27 : s[n] = IF n <= 3 THEN H[n] ELSE D[n - 3]
    <2>1. PICK k \in Nat : k = 3
      OBVIOUS
    <2>2. PICK m \in Nat : m = 24
      OBVIOUS
    <2>3. Len(H) = k /\ Len(D) = m /\ k + m = 27
      BY <1>2, <1>5, <2>1, <2>2
    <2>4. /\ H \o D \in Seq(Pulses) /\ Len(H \o D) = Len(H) + Len(D)
          /\ \A n \in 1 .. Len(H) + Len(D) :
                (H \o D)[n] = IF n <= Len(H) THEN H[n] ELSE D[n - Len(H)]
      <3>1. H \in Seq(Pulses) /\ D \in Seq(Pulses)
        BY <1>2, <1>5
      <3> QED
        BY <3>1, ConcatProperties, Zenon
    <2>5. /\ s \in Seq(Pulses) /\ Len(s) = k + m
          /\ \A n \in 1 .. k + m : s[n] = IF n <= k THEN H[n] ELSE D[n - k]
      BY <1>1, <2>3, <2>4, Zenon
    <2> QED
      BY <2>1, <2>2, <2>5
  <1>7. s[1] = H[1] /\ s[2] = H[2] /\ s[3] = H[3]
    BY <1>6
  <1>8. ASSUME NEW i \in 1 .. 12
        PROVE  s[2 * i + 2] = D[2 * i - 1] /\ s[2 * i + 3] = D[2 * i]
    <2>1. /\ 2 * i + 2 \in 1 .. 27 /\ ~(2 * i + 2 <= 3) /\ (2 * i + 2) - 3 = 2 * i - 1
          /\ 2 * i + 3 \in 1 .. 27 /\ ~(2 * i + 3 <= 3) /\ (2 * i + 3) - 3 = 2 * i
      BY SMT
    <2>2. s[2 * i + 2] = D[(2 * i + 2) - 3] /\ s[2 * i + 3] = D[(2 * i + 3) - 3]
      BY <1>6, <2>1
    <2> QED
      BY <2>1, <2>2
  <1>9. ASSUME NEW u \in 1 .. 27
        PROVE  s[u].us = RC5_T1
    <2>1. u = 1 \/ u = 2 \/ u = 3 \/ \E i \in 1 .. 12 : u = 2 * i + 2 \/ u = 2 * i + 3
      <3>1. CASE u > 3
        <4>1. (u - 2) \div 2 \in 1 .. 12
          BY <3>1, SMT
        <4>2. u = 2 * ((u - 2) \div 2) + 2 \/ u = 2 * ((u - 2) \div 2) + 3
          BY SMT
        <4> QED
          BY <4>1, <4>2
      <3> QED
        BY <3>1
    <2> QED
      <3>1. CASE u = 1 \/ u = 2 \/ u = 3
        BY <1>2, <1>7, <3>1
      <3>2. ASSUME NEW i \in 1 .. 12, u = 2 * i + 2 \/ u = 2 * i + 3
            PROVE  s[u].us = RC5_T1
        <4>1. CASE u = 2 * i + 2
          BY <1>5, <1>8, <4>1
        <4>2. CASE u = 2 * i + 3
          BY <1>5, <1>8, <4>2
        <4> QED
          BY <3>2, <4>1, <4>2
      <3> QED
        BY <2>1, <3>1, <3>2
  <1>10. IsRC5(s, data)
    BY <1>2, <1>5, <1>6, <1>7, <1>8, <1>9, ZenonT(60) DEF IsRC5
  <1> QED
    BY <1>10 DEF s

\* The level of each unit of an RC5 code.
RC5Levels(s) == [u \in 1 .. 27 |-> s[u].level]

\* Every piece of an RC5 code is one unit, a level lasts at most two,
\* and each end of the code has an edge.
LEMMA RC5Units ==
    ASSUME NEW s, NEW data \in [1 .. 12 -> {0, 1}], IsRC5(s, data)
    PROVE  /\ Units(s, 0, RC5_T1, RC5Levels(s), [n \in 0 .. 27 |-> n])
           /\ Edges(RC5Levels(s), 2, 27)
           /\ RC5Levels(s)[1] # RC5Levels(s)[2] /\ RC5Levels(s)[26] # RC5Levels(s)[27]
  <1> DEFINE C == [n \in 0 .. 27 |-> n]
             U == RC5Levels(s)
  <1>1. /\ s \in Seq(Pulses) /\ Len(s) = 27
        /\ s[1].level = "MARK" /\ s[2].level = "SPACE" /\ s[3].level = "MARK"
        /\ \A u \in 1 .. 27 : s[u].us = RC5_T1
        /\ \A i \in 1 .. 12 : s[2 * i + 2].level # s[2 * i + 3].level
    BY DEF IsRC5
  <1>2. \A u \in 1 .. 27 : U[u] = s[u].level
    BY DEF RC5Levels
  <1>3. \A n \in 0 .. 27 : C[n] = n
    OBVIOUS
  <1>4. C \in [0 .. 27 -> Nat]
    OBVIOUS
  <1> HIDE DEF C, U
  <1>5. ASSUME NEW n \in 0 + 1 .. 27
        PROVE  /\ C[n - 1] < C[n] /\ s[n].us = RC5_T1 * (C[n] - C[n - 1])
               /\ \A u \in C[n - 1] + 1 .. C[n] : U[u] = s[n].level
    <2>1. n \in 1 .. 27 /\ n \in 0 .. 27 /\ n - 1 \in 0 .. 27
      BY SMT
    <2>2. C[n] = n /\ C[n - 1] = n - 1
      BY <1>3, <2>1
    <2>3. RC5_T1 * (C[n] - C[n - 1]) = RC5_T1
      BY <2>2, SMT DEF RC5_T1
    <2>4. \A u \in C[n - 1] + 1 .. C[n] : u = n
      BY <2>1, <2>2, SMT
    <2>5. C[n - 1] < C[n]
      BY <2>1, <2>2, SMT
    <2> QED
      BY <1>1, <1>2, <2>1, <2>3, <2>4, <2>5
  <1>6. Units(s, 0, RC5_T1, U, C)
    <2>1. 0 + 1 = 1 /\ 0 < 27 /\ C[0] = 0
      BY <1>3
    <2> QED
      BY <1>1, <1>4, <1>5, <2>1 DEF Units
  <1>7. ASSUME NEW k \in 1 .. 13
        PROVE  U[2 * k] # U[2 * k + 1]
    <2>1. CASE k = 1
      <3>1. 2 * k = 2 /\ 2 * k + 1 = 3 /\ 2 \in 1 .. 27 /\ 3 \in 1 .. 27
        BY <2>1, SMT
      <3> QED
        BY <1>1, <1>2, <3>1
    <2>2. CASE k # 1
      <3>1. PICK i \in 1 .. 12 : i = k - 1
        BY <2>2, SMT
      <3>2. 2 * k = 2 * i + 2 /\ 2 * k + 1 = 2 * i + 3
        BY <3>1, SMT
      <3>3. 2 * i + 2 \in 1 .. 27 /\ 2 * i + 3 \in 1 .. 27
        BY SMT
      <3> QED
        <4>1. s[2 * i + 2].level # s[2 * i + 3].level
          BY <1>1
        <4>2. U[2 * i + 2] = s[2 * i + 2].level /\ U[2 * i + 3] = s[2 * i + 3].level
          BY <1>2, <3>3
        <4> QED
          BY <3>2, <4>1, <4>2
    <2> QED
      BY <2>1, <2>2
  <1>8. Edges(U, 2, 27)
    <2>1. ASSUME NEW u \in 1 .. 27 - 2
          PROVE  \E v \in u .. u + 2 - 1 : U[v] # U[v + 1]
      <3>1. \E k \in 1 .. 13 : 2 * k \in u .. u + 2 - 1
        <4>1. (u + 1) \div 2 \in 1 .. 13 /\ 2 * ((u + 1) \div 2) \in u .. u + 2 - 1
          BY SMT
        <4> QED
          BY <4>1
      <3> QED
        BY <1>7, <3>1
    <2> QED
      BY <2>1 DEF Edges
  <1>9. U[1] # U[2] /\ U[26] # U[27]
    <2>1. 13 \in 1 .. 13 /\ 2 * 13 = 26 /\ 2 * 13 + 1 = 27
      BY SMT
    <2>2. U[2 * 13] # U[2 * 13 + 1]
      BY <1>7, <2>1
    <2> QED
      BY <1>1, <1>2, <2>1, <2>2, SMTT(30)
  <1> QED
    BY <1>6, <1>8, <1>9 DEF C, U

\* Level k of what has been read; behind the end there is space.
Half(r, k) == IF k <= Len(r) THEN r[k] ELSE "SPACE"
\* The levels carry the bits, two halves each; behind a last half that
\* is a space the line is idle.
BitsRead(r, B, data, first, second) ==
    /\ Len(r) \in {2 * B - 1, 2 * B}
    /\ \A k \in 1 .. B :
          IF data[k] = 1 THEN r[2 * k - 1] = first /\ Half(r, 2 * k) = second
                         ELSE r[2 * k - 1] = second /\ Half(r, 2 * k) = first

\* The two ways in which the levels of a bit can follow each other.
BitShapes(one, zero, first, second) ==
    one = <<first, second>> /\ zero = <<second, first>> /\ first # second

\* Levels that carry the bits are decoded as these bits.
LEMMA RCBitsRead ==
    ASSUME NEW B \in Nat, NEW data \in [1 .. B -> {0, 1}], NEW r, NEW type,
           NEW first, NEW second, BitsRead(r, B, data, first, second),
           NEW one, NEW zero, BitShapes(one, zero, first, second)
    PROVE  RCBits(r, type, one, zero) = Decoded(type, B, data)
  <1> DEFINE P == Pairs(r)
             d == [k \in DOMAIN P |-> IF P[k] = one THEN 1 ELSE 0]
  <1>1. (Len(r) + 1) \div 2 = B
    <2>1. PICK n : n = Len(r)
      OBVIOUS
    <2>2. n \in {2 * B - 1, 2 * B}
      BY <2>1 DEF BitsRead
    <2>3. (n + 1) \div 2 = B
      BY <2>2, SMT
    <2> QED
      BY <2>1, <2>3
  <1>2. P = [k \in 1 .. B |-> <<r[2 * k - 1], Half(r, 2 * k)>>]
    BY <1>1 DEF Pairs, Half
  <1>3. Len(P) = B /\ DOMAIN P = 1 .. B
    BY <1>2
  <1>4. ASSUME NEW k \in 1 .. B
        PROVE  P[k] = IF data[k] = 1 THEN one ELSE zero
    BY <1>2 DEF BitsRead, BitShapes
  <1>5. one # zero
    BY DEF BitShapes
  <1>6. RCBits(r, type, one, zero) =
           IF \A k \in DOMAIN P : P[k] \in {one, zero} THEN Decoded(type, Len(P), d) ELSE Nothing
    BY Zenon DEF RCBits
  <1> HIDE DEF P
  <1>7. \A k \in DOMAIN P : P[k] \in {one, zero}
    BY <1>3, <1>4
  <1>8. d = data
    <2>1. data = [k \in 1 .. B |-> data[k]]
      OBVIOUS
    <2>2. \A k \in 1 .. B : (IF P[k] = one THEN 1 ELSE 0) = data[k]
      BY <1>4, <1>5
    <2> QED
      BY <1>3, <2>1, <2>2
  <1> HIDE DEF d
  <1> QED
    BY <1>3, <1>6, <1>7, <1>8

\* RC5's bits are a space and a mark for a one.
LEMMA RC5BitsRead ==
    ASSUME NEW r, NEW B \in Nat, NEW data \in [1 .. B -> {0, 1}],
           BitsRead(r, B, data, "SPACE", "MARK")
    PROVE  RCBits(r, "RC5", <<"SPACE", "MARK">>, <<"MARK", "SPACE">>) = Decoded("RC5", B, data)
  <1>1. BitShapes(<<"SPACE", "MARK">>, <<"MARK", "SPACE">>, "SPACE", "MARK")
    BY DEF BitShapes
  <1> QED
    BY <1>1, RCBitsRead, SMT

\* RC6's bits are the other way round.
LEMMA RC6BitsRead ==
    ASSUME NEW r, NEW B \in Nat, NEW data \in [1 .. B -> {0, 1}],
           BitsRead(r, B, data, "MARK", "SPACE")
    PROVE  RCBits(r, "RC6", <<"MARK", "SPACE">>, <<"SPACE", "MARK">>) = Decoded("RC6", B, data)
  <1>1. BitShapes(<<"MARK", "SPACE">>, <<"SPACE", "MARK">>, "MARK", "SPACE")
    BY DEF BitShapes
  <1> QED
    BY <1>1, RCBitsRead, SMT

\* What is read of U from unit a + 1 on.
ReadBehind(r, U, a, m) ==
    r \in Seq(LevelSet) /\ Len(r) = m - a /\ \A k \in 1 .. m - a : r[k] = U[a + k]

\* A slice of what is read is what is read behind its start.
LEMMA ReadSlice ==
    ASSUME NEW l, NEW U, NEW m \in Nat, ReadAs(l, U, m), NEW a \in Nat, NEW c \in Nat,
           a <= c, c <= m
    PROVE  ReadBehind(SubSeq(l, a + 1, c), U, a, c)
  <1> DEFINE r == SubSeq(l, a + 1, c)
  <1>1. l \in Seq(LevelSet) /\ Len(l) = m /\ \A u \in 1 .. m : l[u] = U[u]
    BY DEF ReadAs
  <1>2. \A i \in a + 1 .. c : l[i] \in LevelSet
    <2>1. \A i \in a + 1 .. c : i \in 1 .. m
      BY SMT
    <2> QED
      BY <1>1, <2>1, ElementOfSeq
  <1>3. /\ r \in Seq(LevelSet) /\ Len(r) = (IF a + 1 <= c THEN c - (a + 1) + 1 ELSE 0)
        /\ \A i \in 1 .. c - (a + 1) + 1 : r[i] = l[a + 1 + i - 1]
    BY <1>2, SubSeqProperties
  <1> HIDE DEF r
  <1>4. Len(r) = c - a
    BY <1>3, SMT
  <1>5. ASSUME NEW k \in 1 .. c - a
        PROVE  r[k] = U[a + k]
    <2>1. k \in 1 .. c - (a + 1) + 1 /\ a + 1 + k - 1 = a + k /\ a + k \in 1 .. m
      BY SMT
    <2> QED
      BY <1>1, <1>3, <2>1
  <1> QED
    BY <1>3, <1>4, <1>5 DEF r, ReadBehind

\* So is a suffix.
LEMMA ReadFrom ==
    ASSUME NEW l, NEW U, NEW m \in Nat, ReadAs(l, U, m), NEW a \in Nat, a <= m
    PROVE  ReadBehind(SubSeq(l, a + 1, Len(l)), U, a, m)
  <1>1. Len(l) = m /\ m <= m
    BY DEF ReadAs
  <1> QED
    BY <1>1, ReadSlice

\* A prefix of what is read is read.
LEMMA ReadFirst ==
    ASSUME NEW l, NEW U, NEW m \in Nat, ReadAs(l, U, m), NEW a \in Nat, a <= m
    PROVE  ReadAs(SubSeq(l, 1, a), U, a)
  <1>1. PICK z \in Nat : z = 0 /\ z + 1 = 1 /\ z <= a /\ a - z = a
    BY SMT
  <1>2. ReadBehind(SubSeq(l, z + 1, a), U, z, a)
    BY <1>1, ReadSlice
  <1>3. \A k \in 1 .. a : z + k = k
    BY <1>1, SMT
  <1> QED
    BY <1>1, <1>2, <1>3 DEF ReadBehind, ReadAs

\* RC5 read from the line is RC5 decoded.
LEMMA RC5Read ==
    ASSUME NEW s, NEW data \in [1 .. 12 -> {0, 1}], IsRC5(s, data), NEW h,
           h.rawlen \in Nat, UnitsRead(h, 0, RC5_T1, 2, RC5Levels(s), 27)
    PROVE  decodeRC5(h) = Decoded("RC5", 12, data) /\ h.rawlen >= 14
  <1> DEFINE U == RC5Levels(s)
             l == levels(h, 1, RC5_T1)
             r == SubSeq(l, 4, Len(l))
  <1>1. PICK m \in Nat : /\ ReadAs(l, U, m)
                         /\ m = 27 \/ (m = 27 - 1 /\ U[27] = "SPACE")
                         /\ m <= 2 * (h.rawlen - (0 + 1))
    <2>1. 0 + 1 = 1
      BY SMT
    <2> QED
      BY <2>1 DEF UnitsRead
  <1>2. /\ s[1].level = "MARK" /\ s[2].level = "SPACE" /\ s[3].level = "MARK"
        /\ \A i \in 1 .. 12 :
              IF data[i] = 1
              THEN s[2 * i + 2].level = "SPACE" /\ s[2 * i + 3].level = "MARK"
              ELSE s[2 * i + 2].level = "MARK" /\ s[2 * i + 3].level = "SPACE"
    BY DEF IsRC5
  <1>3. \A u \in 1 .. 27 : U[u] = s[u].level
    BY DEF RC5Levels
  <1>4. h.rawlen >= 14 /\ m >= 3 /\ m \in {26, 27}
    BY <1>1, SMT
  <1> HIDE DEF U, l
  <1>5. Len(l) = m
    BY <1>1 DEF ReadAs
  <1>6. SubSeq(l, 1, 3) = <<"MARK", "SPACE", "MARK">>
    <2> DEFINE a == SubSeq(l, 1, 3)
    <2>1. a \in Seq(LevelSet) /\ Len(a) = 3 /\ \A k \in 1 .. 3 : a[k] = U[k]
      BY <1>1, <1>4, ReadFirst DEF ReadAs
    <2> HIDE DEF a
    <2>2. a[1] = "MARK" /\ a[2] = "SPACE" /\ a[3] = "MARK"
      <3>1. /\ 1 \in 1 .. 3 /\ 2 \in 1 .. 3 /\ 3 \in 1 .. 3
            /\ 1 \in 1 .. 27 /\ 2 \in 1 .. 27 /\ 3 \in 1 .. 27
        OBVIOUS
      <3>2. U[1] = s[1].level /\ U[2] = s[2].level /\ U[3] = s[3].level
        BY <1>3, <3>1, Zenon
      <3>3. a[1] = U[1] /\ a[2] = U[2] /\ a[3] = U[3]
        BY <2>1, <3>1, Zenon
      <3> QED
        BY <1>2, <3>2, <3>3, Zenon
    <2>3. a = <<"MARK", "SPACE", "MARK">>
      BY <2>1, <2>2
    <2> QED
      BY <2>3 DEF a
  <1>7. Len(r) = m - 3 /\ \A k \in 1 .. m - 3 : r[k] = U[3 + k]
    <2>1. /\ SubSeq(l, 3 + 1, Len(l)) \in Seq(LevelSet)
          /\ Len(SubSeq(l, 3 + 1, Len(l))) = m - 3
          /\ \A k \in 1 .. m - 3 : SubSeq(l, 3 + 1, Len(l))[k] = U[3 + k]
      <3>1. PICK a \in Nat : a = 3
        OBVIOUS
      <3>2. a <= m
        BY <1>4, <3>1
      <3>3. ReadBehind(SubSeq(l, a + 1, Len(l)), U, a, m)
        BY <1>1, <3>2, ReadFrom, Zenon
      <3> QED
        BY <3>1, <3>3 DEF ReadBehind
    <2>2. 3 + 1 = 4
      BY SMT
    <2> QED
      BY <2>1, <2>2
  <1> HIDE DEF r
  <1>8. ASSUME NEW k \in 1 .. 12
        PROVE  r[2 * k - 1] = s[2 * k + 2].level /\ Half(r, 2 * k) = s[2 * k + 3].level
    <2>1. /\ 2 * k - 1 \in 1 .. m - 3 /\ 3 + (2 * k - 1) = 2 * k + 2
          /\ 2 * k + 2 \in 1 .. 27 /\ 2 * k + 3 \in 1 .. 27 /\ 3 + 2 * k = 2 * k + 3
      BY <1>4, SMT
    <2>2. r[2 * k - 1] = s[2 * k + 2].level
      BY <1>3, <1>7, <2>1
    <2>3. CASE 2 * k <= Len(r)
      <3>1. 2 * k \in 1 .. m - 3
        BY <1>4, <1>7, <2>3, SMT
      <3>2. r[2 * k] = s[2 * k + 3].level
        BY <1>3, <1>7, <2>1, <3>1
      <3> QED
        BY <2>2, <2>3, <3>2 DEF Half
    <2>4. CASE ~(2 * k <= Len(r))
      <3>1. m = 26 /\ 2 * k + 3 = 27
        BY <1>4, <1>7, <2>4, SMTT(30)
      <3>2. U[27] = "SPACE"
        BY <1>1, <3>1
      <3>3. s[2 * k + 3].level = "SPACE"
        BY <1>3, <2>1, <3>1, <3>2
      <3> QED
        BY <2>2, <2>4, <3>3 DEF Half
    <2> QED
      BY <2>3, <2>4
  <1>9. BitsRead(r, 12, data, "SPACE", "MARK")
    <2>1. Len(r) \in {2 * 12 - 1, 2 * 12}
      BY <1>4, <1>7
    <2> QED
      BY <1>2, <1>8, <2>1 DEF BitsRead
  <1>10. RCBits(r, "RC5", <<"SPACE", "MARK">>, <<"MARK", "SPACE">>) = Decoded("RC5", 12, data)
    <2>1. PICK B \in Nat : B = 12
      OBVIOUS
    <2>2. data \in [1 .. B -> {0, 1}] /\ BitsRead(r, B, data, "SPACE", "MARK")
      BY <1>9, <2>1
    <2>3. RCBits(r, "RC5", <<"SPACE", "MARK">>, <<"MARK", "SPACE">>) = Decoded("RC5", B, data)
      BY <2>2, RC5BitsRead, SMT
    <2> QED
      BY <2>1, <2>3
  <1>11. decodeRC5(h) =
            IF h.rawlen >= 13 /\ Len(l) >= 3 /\ SubSeq(l, 1, 3) = <<"MARK", "SPACE", "MARK">>
            THEN RCBits(r, "RC5", <<"SPACE", "MARK">>, <<"MARK", "SPACE">>) ELSE Nothing
    BY Zenon DEF decodeRC5, l, r
  <1>12. h.rawlen >= 13 /\ Len(l) >= 3
    BY <1>4, <1>5, SMT
  <1> QED
    BY <1>4, <1>6, <1>10, <1>11, <1>12, Zenon

\* An RC5 code's line covers its 27 units.
LEMMA RC5Line ==
    ASSUME NEW data \in [1 .. 12 -> {0, 1}]
    PROVE  LET s == sendRC5(data)
           IN  IsRC5(s, data) /\ LineSpans(Periods(s), s, 0, RC5_T1, RC5Levels(s), 27)
  <1> DEFINE s == sendRC5(data)
             C == [n \in 0 .. 27 |-> n]
  <1>1. IsRC5(s, data)
    BY RC5Signal
  <1> HIDE DEF s
  <1>2. /\ Units(s, 0, RC5_T1, RC5Levels(s), C) /\ RC5Levels(s)[26] # RC5Levels(s)[27]
    BY <1>1, RC5Units
  <1>3. 27 \in Nat /\ 27 >= 2 /\ 27 = C[Len(s)] /\ 27 - 1 = 26 /\ RC5_T1 \in UnitTimes
    BY <1>1 DEF IsRC5, UnitTimes
  <1> HIDE DEF C
  <1>4. LineSpans(Periods(s), s, 0, RC5_T1, RC5Levels(s), 27)
    BY <1>2, <1>3, PeriodsSpan
  <1> QED
    BY <1>1, <1>4 DEF s

\* Any recording of an RC5 code within the margins is decoded as what
\* was sent, unless the gap is short.
LEMMA RC5Decoded ==
    ASSUME NEW data \in [1 .. 12 -> {0, 1}], NEW h, Heard(h, Periods(sendRC5(data)))
    PROVE  decode(h) = IF Doubled("RC5", h) THEN Repeat("SANYO")
                       ELSE Decoded("RC5", 12, data)
  <1> DEFINE s == sendRC5(data)
             line == Periods(s)
             U == RC5Levels(s)
  <1>1. IsRC5(s, data) /\ LineSpans(line, s, 0, RC5_T1, U, 27) /\ Heard(h, line)
    BY RC5Line
  <1> HIDE DEF s, line
  <1>2. Edges(U, 2, 27) /\ U[1] # U[2]
    BY <1>1, RC5Units
  <1> HIDE DEF U
  <1>3. RC5_T1 \in UnitTimes
    BY DEF UnitTimes
  <1>4. UnitsRead(h, 0, RC5_T1, 2, U, 27)
    BY <1>1, <1>2, <1>3, LineRead
  <1>5. PICK q : Spans(line, 0, RC5_T1, U, q)
    BY <1>1 DEF LineSpans
  <1>6. 0 < Len(line) /\ Len(line) \in Nat
    BY <1>1, <1>5, LenProperties DEF LineSpans, Spans
  <1>7. MarkTicks(h.rawbuf[1], 889)
    <2>1. 1 \in 0 + 1 .. Len(line) /\ 1 \in 1 .. Len(line) /\ 1 - 1 = 0 /\ 1 % 2 = 1
          /\ 1 \in 0 .. Len(line)
      BY <1>6, SMT
    <2>2. q[0] = 0 /\ q[1] \in Nat /\ SpanAt(line, RC5_T1, U, q, 1)
      BY <1>5, <2>1 DEF Spans
    <2>3. q[1] > 0 /\ line[1].us = RC5_T1 * q[1] /\ \A u \in 1 .. q[1] : U[u] = line[1].level
      BY <2>1, <2>2 DEF SpanAt, RC5_T1
    <2>4. q[1] = 1
      <3>1. CASE q[1] >= 2
        <4>1. 1 \in 1 .. q[1] /\ 2 \in 1 .. q[1]
          BY <2>2, <3>1, SMT
        <4> QED
          BY <1>2, <2>3, <4>1
      <3> QED
        BY <2>2, <2>3, <3>1
    <2>5. line[1].us = 889
      BY <2>3, <2>4 DEF RC5_T1
    <2> QED
      BY <1>1, <2>1, <2>5 DEF Heard
  <1>8. h.rawlen \in Nat /\ h.rawbuf[0] \in Nat
    BY <1>1, <1>6 DEF Heard
  <1>9. decodeRC5(h) = Decoded("RC5", 12, data) /\ h.rawlen >= 14
    BY <1>1, <1>4, <1>8, RC5Read DEF U
  <1>10. /\ ~MATCH_MARK(h.rawbuf[1], 9000) /\ ~MATCH_MARK(h.rawbuf[1], 2400)
         /\ ~MATCH_MARK(h.rawbuf[1], 3500) /\ ~MATCH_MARK(h.rawbuf[1], 350)
    BY <1>7, SMT DEF MarkTicks, MATCH_MARK, MATCH, MARK_EXCESS
  <1>11. decodeRepeat(h, "NEC") = Nothing
    <2>1. h.rawlen # 4
      BY <1>8, <1>9, SMT
    <2> QED
      BY <2>1, RejectRepeat
  <1>12. decodeDistance(h, "NEC", 68, 0) = Nothing
    BY <1>10, RejectHeader, DistanceValues
  <1>13. /\ decodeSony(h) = GapOnly(h, 500) /\ decodeSanyo(h) = GapOnly(h, 800)
         /\ decodeMitsubishi(h) = Nothing
    BY <1>10, RejectSony, RejectSanyo, RejectMitsubishi
  <1>14. Decoded("RC5", 12, data) # Nothing
    BY DecodedIsSomething
  <1>15. Later(h) = Decoded("RC5", 12, data)
    BY <1>9, <1>13, <1>14 DEF Later, OrElse
  <1>16. "RC5" # "NEC" /\ "RC5" # "SONY"
    OBVIOUS
  <1> QED
    BY <1>8, <1>11, <1>12, <1>13, <1>15, <1>16, DecodedLater

\* The halves of an RC6 bit last one unit, those of the trailer bit two.
RC6Half(i) == IF i = 4 THEN 2 * RC6_T1 ELSE RC6_T1

\* sendRC6()'s loop: a one is a mark and a space, of twice the length
\* for the trailer.
LEMMA RC6Bits ==
    ASSUME NEW B \in Nat, NEW data \in [1 .. B -> {0, 1}]
    PROVE  Halves(ForBits(data, LAMBDA i :
                     IF data[i] = 1 THEN <<Mark(RC6Half(i)), Space(RC6Half(i))>>
                                    ELSE <<Space(RC6Half(i)), Mark(RC6Half(i))>>),
                  B, data, [i \in 1 .. B |-> RC6Half(i)], "MARK", "SPACE")
  <1> DEFINE D == ForBits(data, LAMBDA i :
                     IF data[i] = 1 THEN <<Mark(RC6Half(i)), Space(RC6Half(i))>>
                                    ELSE <<Space(RC6Half(i)), Mark(RC6Half(i))>>)
             us == [i \in 1 .. B |-> RC6Half(i)]
  <1>1. Len(data) = B
    BY FunctionIsSeq
  <1>2. ASSUME NEW i \in 1 .. B
        PROVE  LET m == Mark(RC6Half(i))
                   p == Space(RC6Half(i))
               IN  /\ m \in Pulses /\ m.level = "MARK" /\ m.us = RC6Half(i)
                   /\ p \in Pulses /\ p.level = "SPACE" /\ p.us = RC6Half(i)
    <2>1. RC6Half(i) \in Nat
      BY DEF RC6Half, RC6_T1
    <2> QED
      BY <2>1, PulseLemma
  <1>3. ASSUME NEW i \in 1 .. B
        PROVE  IF data[i] = 1
               THEN D[2 * i - 1] = Mark(RC6Half(i)) /\ D[2 * i] = Space(RC6Half(i))
               ELSE D[2 * i - 1] = Space(RC6Half(i)) /\ D[2 * i] = Mark(RC6Half(i))
    <2>1. /\ 2 * i - 1 \in 1 .. 2 * B /\ 2 * i \in 1 .. 2 * B
          /\ ((2 * i - 1) + 1) \div 2 = i /\ (2 * i + 1) \div 2 = i
          /\ 2 - ((2 * i - 1) % 2) = 1 /\ 2 - ((2 * i) % 2) = 2
      BY SMT
    <2>2. data[i] = 1 \/ data[i] # 1
      OBVIOUS
    <2>3. D[2 * i - 1] = IF data[i] = 1 THEN Mark(RC6Half(i)) ELSE Space(RC6Half(i))
      BY <1>1, <2>1, <2>2 DEF ForBits
    <2>4. D[2 * i] = IF data[i] = 1 THEN Space(RC6Half(i)) ELSE Mark(RC6Half(i))
      BY <1>1, <2>1, <2>2 DEF ForBits
    <2> HIDE DEF D
    <2> QED
      BY <2>3, <2>4
  <1>4. D = [n \in 1 .. 2 * B |-> D[n]]
    BY <1>1 DEF ForBits
  <1>5. \A i \in 1 .. B : us[i] = RC6Half(i)
    OBVIOUS
  <1> HIDE DEF D, us
  <1>6. ASSUME NEW n \in 1 .. 2 * B
        PROVE  D[n] \in Pulses
    <2>1. PICK i \in 1 .. B : n = 2 * i - 1 \/ n = 2 * i
      <3>1. (n + 1) \div 2 \in 1 .. B
        BY PairIndex
      <3>2. n = 2 * ((n + 1) \div 2) - 1 \/ n = 2 * ((n + 1) \div 2)
        BY SMT
      <3> QED
        BY <3>1, <3>2
    <2> QED
      BY <1>2, <1>3, <2>1
  <1>7. D \in Seq(Pulses) /\ Len(D) = 2 * B
    <2>1. PICK k \in Nat : k = 2 * B
      BY SMT
    <2>2. D \in [1 .. k -> Pulses]
      BY <1>4, <1>6, <2>1, Zenon
    <2> QED
      BY <2>1, <2>2, FunctionIsSeq
  <1>8. ASSUME NEW i \in 1 .. B
        PROVE  /\ D[2 * i - 1].us = us[i] /\ D[2 * i].us = us[i]
               /\ IF data[i] = 1
                  THEN D[2 * i - 1].level = "MARK" /\ D[2 * i].level = "SPACE"
                  ELSE D[2 * i - 1].level = "SPACE" /\ D[2 * i].level = "MARK"
    BY <1>2, <1>3, <1>5
  <1>9. Halves(D, B, data, us, "MARK", "SPACE")
    BY <1>7, <1>8, Zenon DEF Halves
  <1> QED
    BY <1>9, Zenon DEF D, us

\* Bit i of an RC6 code.
RC6Bit(s, data, i) ==
    /\ s[2 * i + 3].us = RC6Half(i) /\ s[2 * i + 4].us = RC6Half(i)
    /\ IF data[i] = 1
       THEN s[2 * i + 3].level = "MARK" /\ s[2 * i + 4].level = "SPACE"
       ELSE s[2 * i + 3].level = "SPACE" /\ s[2 * i + 4].level = "MARK"

\* All its bits.
RC6BitsSent(s, data) == \A i \in 1 .. 20 : RC6Bit(s, data, i)

\* The signal of an RC6 code: the header, the start bit and twenty bits.
IsRC6(s, data) ==
    /\ s \in Seq(Pulses) /\ Len(s) = 44
    /\ s[1].level = "MARK" /\ s[2].level = "SPACE" /\ s[3].level = "MARK" /\ s[4].level = "SPACE"
    /\ s[1].us = 2666 /\ s[2].us = 889 /\ s[3].us = RC6_T1 /\ s[4].us = RC6_T1
    /\ RC6BitsSent(s, data)

\* Each of an RC6 code's bits is sent.
LEMMA RC6BitSent ==
    ASSUME NEW s, NEW data, IsRC6(s, data), NEW i \in 1 .. 20
    PROVE  RC6Bit(s, data, i)
  <1>1. RC6BitsSent(s, data)
    BY DEF IsRC6
  <1> QED
    BY <1>1, Zenon DEF RC6BitsSent

\* sendRC6() sends such a signal.
LEMMA RC6Signal ==
    ASSUME NEW data \in [1 .. 20 -> {0, 1}]
    PROVE  IsRC6(sendRC6(data), data)
  <1> DEFINE H == <<Mark(2666), Space(889), Mark(RC6_T1), Space(RC6_T1)>>
             D == ForBits(data, LAMBDA i :
                     IF data[i] = 1 THEN <<Mark(RC6Half(i)), Space(RC6Half(i))>>
                                    ELSE <<Space(RC6Half(i)), Mark(RC6Half(i))>>)
             s == sendRC6(data)
  <1>0. PICK B \in Nat : B = 20
    OBVIOUS
  <1> DEFINE us == [i \in 1 .. B |-> RC6Half(i)]
  <1>1. s = H \o D
    BY Zenon DEF sendRC6, RC6Half
  <1>2. /\ H \in Seq(Pulses) /\ Len(H) = 4
        /\ H[1].level = "MARK" /\ H[2].level = "SPACE" /\ H[3].level = "MARK" /\ H[4].level = "SPACE"
        /\ H[1].us = 2666 /\ H[2].us = 889 /\ H[3].us = RC6_T1 /\ H[4].us = RC6_T1
    <2>1. RC6_T1 \in Nat /\ 2666 \in Nat /\ 889 \in Nat
      BY DEF RC6_T1
    <2> QED
      BY <2>1, PulseLemma
  <1>3. Halves(D, B, data, us, "MARK", "SPACE")
    <2>1. data \in [1 .. B -> {0, 1}]
      BY <1>0
    <2> QED
      BY <2>1, RC6Bits, Zenon
  <1>4. \A i \in 1 .. B : us[i] = RC6Half(i)
    OBVIOUS
  <1> HIDE DEF H, D, s, us
  <1>5. /\ D \in Seq(Pulses) /\ Len(D) = 40
        /\ \A i \in 1 .. 20 :
              /\ D[2 * i - 1].us = RC6Half(i) /\ D[2 * i].us = RC6Half(i)
              /\ IF data[i] = 1
                 THEN D[2 * i - 1].level = "MARK" /\ D[2 * i].level = "SPACE"
                 ELSE D[2 * i - 1].level = "SPACE" /\ D[2 * i].level = "MARK"
    <2>1. D \in Seq(Pulses) /\ Len(D) = 2 * B
      BY <1>3 DEF Halves
    <2>2. ASSUME NEW i \in 1 .. B
          PROVE  /\ D[2 * i - 1].us = RC6Half(i) /\ D[2 * i].us = RC6Half(i)
                 /\ IF data[i] = 1
                    THEN D[2 * i - 1].level = "MARK" /\ D[2 * i].level = "SPACE"
                    ELSE D[2 * i - 1].level = "SPACE" /\ D[2 * i].level = "MARK"
      BY <1>3, <1>4 DEF Halves
    <2> QED
      BY <1>0, <2>1, <2>2
  <1>6. /\ s \in Seq(Pulses) /\ Len(s) = 44
        /\ \A n \in 1 .. 44 : s[n] = IF n <= 4 THEN H[n] ELSE D[n - 4]
    <2>1. PICK k \in Nat : k = 4
      OBVIOUS
    <2>2. PICK m \in Nat : m = 40
      OBVIOUS
    <2>3. Len(H) = k /\ Len(D) = m /\ k + m = 44
      BY <1>2, <1>5, <2>1, <2>2
    <2>4. /\ H \o D \in Seq(Pulses) /\ Len(H \o D) = Len(H) + Len(D)
          /\ \A n \in 1 .. Len(H) + Len(D) :
                (H \o D)[n] = IF n <= Len(H) THEN H[n] ELSE D[n - Len(H)]
      <3>1. H \in Seq(Pulses) /\ D \in Seq(Pulses)
        BY <1>2, <1>5
      <3> QED
        BY <3>1, ConcatProperties, Zenon
    <2>5. /\ s \in Seq(Pulses) /\ Len(s) = k + m
          /\ \A n \in 1 .. k + m : s[n] = IF n <= k THEN H[n] ELSE D[n - k]
      BY <1>1, <2>3, <2>4, Zenon
    <2> QED
      BY <2>1, <2>2, <2>5
  <1>7. s[1] = H[1] /\ s[2] = H[2] /\ s[3] = H[3] /\ s[4] = H[4]
    BY <1>6
  <1>8. ASSUME NEW i \in 1 .. 20
        PROVE  s[2 * i + 3] = D[2 * i - 1] /\ s[2 * i + 4] = D[2 * i]
    <2>1. /\ 2 * i + 3 \in 1 .. 44 /\ ~(2 * i + 3 <= 4) /\ (2 * i + 3) - 4 = 2 * i - 1
          /\ 2 * i + 4 \in 1 .. 44 /\ ~(2 * i + 4 <= 4) /\ (2 * i + 4) - 4 = 2 * i
      BY SMT
    <2>2. s[2 * i + 3] = D[(2 * i + 3) - 4] /\ s[2 * i + 4] = D[(2 * i + 4) - 4]
      BY <1>6, <2>1
    <2> QED
      BY <2>1, <2>2
  <1>9. IsRC6(s, data)
    <2>1. ASSUME NEW i \in 1 .. 20
          PROVE  RC6Bit(s, data, i)
      <3>1. s[2 * i + 3] = D[2 * i - 1] /\ s[2 * i + 4] = D[2 * i]
        BY <1>8
      <3>2. /\ D[2 * i - 1].us = RC6Half(i) /\ D[2 * i].us = RC6Half(i)
            /\ IF data[i] = 1
               THEN D[2 * i - 1].level = "MARK" /\ D[2 * i].level = "SPACE"
               ELSE D[2 * i - 1].level = "SPACE" /\ D[2 * i].level = "MARK"
        BY <1>5
      <3> QED
        BY <3>1, <3>2 DEF RC6Bit
    <2> QED
      <3>1. RC6BitsSent(s, data)
        BY <2>1, Zenon DEF RC6BitsSent
      <3> QED
        BY <1>2, <1>6, <1>7, <3>1 DEF IsRC6
  <1> QED
    BY <1>9 DEF s

\* The pulse of a signal that unit u is part of, and how many units there are
\* in the first n pulses.
RC6Pulse(u) == IF u <= 8 THEN u + 2 ELSE IF u <= 10 THEN 11 ELSE IF u <= 12 THEN 12 ELSE u
\* The level of each unit of an RC6 code; the two halves of the trailer
\* are two units each.
RC6Levels(s) == [u \in 1 .. 44 |-> s[RC6Pulse(u)].level]
\* The units sent up to piece n.
RC6Count == [n \in 2 .. 44 |-> IF n <= 10 THEN n - 2 ELSE IF n = 11 THEN 10 ELSE n]

\* The piece of the signal that a unit belongs to.
LEMMA RC6Pulses ==
    /\ \A u \in 1 .. 44 : RC6Pulse(u) \in 3 .. 44
    /\ RC6Pulse(1) = 3 /\ RC6Pulse(2) = 4
    /\ \A i \in 1 .. 3 : RC6Pulse(2 * i + 1) = 2 * i + 3 /\ RC6Pulse(2 * i + 2) = 2 * i + 4
    /\ RC6Pulse(9) = 11 /\ RC6Pulse(10) = 11 /\ RC6Pulse(11) = 12 /\ RC6Pulse(12) = 12
    /\ \A i \in 5 .. 20 : RC6Pulse(2 * i + 3) = 2 * i + 3 /\ RC6Pulse(2 * i + 4) = 2 * i + 4
  BY SMT DEF RC6Pulse

\* A piece of an RC6 code lasts a unit, the trailer's pieces two.
LEMMA RC6Durations ==
    ASSUME NEW s, NEW data, IsRC6(s, data), NEW n \in 3 .. 44
    PROVE  s[n].us = IF n = 11 \/ n = 12 THEN 888 ELSE 444
  <1>1. CASE n = 3 \/ n = 4
    <2>1. s[3].us = RC6_T1 /\ s[4].us = RC6_T1
      BY DEF IsRC6
    <2> QED
      BY <1>1, <2>1 DEF RC6_T1
  <1>2. CASE n > 4
    <2>1. PICK i \in 1 .. 20 : n = 2 * i + 3 \/ n = 2 * i + 4
      <3>1. (n - 3) \div 2 \in 1 .. 20
        BY <1>2, SMT
      <3>2. n = 2 * ((n - 3) \div 2) + 3 \/ n = 2 * ((n - 3) \div 2) + 4
        BY SMT
      <3> QED
        BY <3>1, <3>2
    <2>2. s[2 * i + 3].us = RC6Half(i) /\ s[2 * i + 4].us = RC6Half(i)
      <3>1. RC6Bit(s, data, i)
        BY RC6BitSent
      <3> QED
        BY <3>1 DEF RC6Bit
    <2>3. s[n].us = RC6Half(i)
      <3>1. CASE n = 2 * i + 3
        BY <2>2, <3>1
      <3>2. CASE n = 2 * i + 4
        BY <2>2, <3>2
      <3> QED
        BY <2>1, <3>1, <3>2
    <2>4. RC6Half(i) = IF n = 11 \/ n = 12 THEN 888 ELSE 444
      <3>1. i = 4 <=> n = 11 \/ n = 12
        BY <2>1, SMT
      <3> QED
        BY <3>1 DEF RC6Half, RC6_T1
    <2> QED
      BY <2>3, <2>4
  <1> QED
    BY <1>1, <1>2

\* The pieces of an RC6 code cover its units.
LEMMA RC6Units ==
    ASSUME NEW s, NEW data \in [1 .. 20 -> {0, 1}], IsRC6(s, data)
    PROVE  Units(s, 2, RC6_T1, RC6Levels(s), RC6Count)
  <1> DEFINE C == RC6Count
             U == RC6Levels(s)
  <1>1. /\ s \in Seq(Pulses) /\ Len(s) = 44
        /\ s[1].level = "MARK" /\ s[2].level = "SPACE" /\ s[3].level = "MARK"
    BY DEF IsRC6
  <1>2. \A u \in 1 .. 44 : U[u] = s[RC6Pulse(u)].level
    BY DEF RC6Levels
  <1>3. \A n \in 2 .. 44 : C[n] = IF n <= 10 THEN n - 2 ELSE IF n = 11 THEN 10 ELSE n
    BY DEF RC6Count
  <1>4. C \in [2 .. 44 -> Nat]
    <2>1. ASSUME NEW n \in 2 .. 44
          PROVE  C[n] \in Nat
      BY <1>3
    <2>2. C = [n \in 2 .. 44 |-> C[n]]
      BY DEF RC6Count
    <2> HIDE DEF C
    <2> QED
      BY <2>1, <2>2
  <1> HIDE DEF C, U
  <1>5. ASSUME NEW n \in 2 + 1 .. 44
        PROVE  /\ C[n - 1] < C[n] /\ s[n].us = RC6_T1 * (C[n] - C[n - 1])
               /\ \A u \in C[n - 1] + 1 .. C[n] : U[u] = s[n].level
    <2>1. n \in 3 .. 44 /\ n \in 2 .. 44 /\ n - 1 \in 2 .. 44
      BY SMT
    <2>2. PICK c \in Nat : c = C[n] /\ c = IF n <= 10 THEN n - 2 ELSE IF n = 11 THEN 10 ELSE n
      BY <1>3, <1>4, <2>1
    <2>3. PICK a \in Nat : /\ a = C[n - 1]
                           /\ a = IF n - 1 <= 10 THEN n - 1 - 2 ELSE IF n - 1 = 11 THEN 10 ELSE n - 1
      BY <1>3, <1>4, <2>1
    <2>4. a < c /\ c <= 44 /\ c - a = IF n = 11 \/ n = 12 THEN 2 ELSE 1
      BY <2>1, <2>2, <2>3, SMT
    <2>5. s[n].us = IF n = 11 \/ n = 12 THEN 888 ELSE 444
      BY <2>1, RC6Durations
    <2>6. s[n].us = RC6_T1 * (c - a)
      BY <2>4, <2>5 DEF RC6_T1
    <2>7. \A u \in a + 1 .. c : RC6Pulse(u) = n /\ u \in 1 .. 44
      BY <2>1, <2>2, <2>3, SMT DEF RC6Pulse
    <2>8. \A u \in a + 1 .. c : U[u] = s[n].level
      BY <1>2, <2>7, SMTT(30)
    <2> QED
      BY <2>2, <2>3, <2>4, <2>6, <2>8
  <1>6. Units(s, 2, RC6_T1, U, C)
    <2>1. 2 + 1 = 3 /\ 2 < 44 /\ C[2] = 0
      BY <1>3
    <2> QED
      BY <1>1, <1>4, <1>5, <2>1 DEF Units
  <1> QED
    BY <1>6 DEF C, U

\* A level of an RC6 code lasts at most three units, and the code ends
\* with an edge.
LEMMA RC6Edges ==
    ASSUME NEW s, NEW data \in [1 .. 20 -> {0, 1}], IsRC6(s, data)
    PROVE  /\ Edges(RC6Levels(s), 3, 44)
           /\ RC6Levels(s)[43] # RC6Levels(s)[44]
  <1> DEFINE U == RC6Levels(s)
  <1>1. /\ s[3].level = "MARK" /\ s[4].level = "SPACE"
        /\ \A i \in 1 .. 20 : s[2 * i + 3].level # s[2 * i + 4].level
    <2>1. s[3].level = "MARK" /\ s[4].level = "SPACE"
      BY DEF IsRC6
    <2>2. ASSUME NEW i \in 1 .. 20
          PROVE  s[2 * i + 3].level # s[2 * i + 4].level
      <3>1. RC6Bit(s, data, i)
        BY RC6BitSent
      <3> QED
        BY <3>1 DEF RC6Bit
    <2> QED
      BY <2>1, <2>2
  <1>2. \A u \in 1 .. 44 : U[u] = s[RC6Pulse(u)].level
    BY DEF RC6Levels
  <1> HIDE DEF U
  <1>3. U[1] # U[2]
    BY <1>1, <1>2, RC6Pulses
  <1>4. ASSUME NEW i \in 1 .. 3
        PROVE  U[2 * i + 1] # U[2 * i + 1 + 1]
    <2>1. 2 * i + 1 \in 1 .. 44 /\ 2 * i + 2 \in 1 .. 44 /\ 2 * i + 1 + 1 = 2 * i + 2 /\ i \in 1 .. 20
      BY SMT
    <2>2. U[2 * i + 1] = s[2 * i + 3].level /\ U[2 * i + 2] = s[2 * i + 4].level
      BY <1>2, <2>1, RC6Pulses
    <2>3. s[2 * i + 3].level # s[2 * i + 4].level
      BY <1>1, <2>1
    <2> QED
      BY <2>1, <2>2, <2>3
  <1>5. U[10] # U[11]
    <2>1. U[10] = s[11].level /\ U[11] = s[12].level
      BY <1>2, RC6Pulses
    <2>2. 4 \in 1 .. 20 /\ 2 * 4 + 3 = 11 /\ 2 * 4 + 4 = 12
      BY SMT
    <2>3. s[2 * 4 + 3].level # s[2 * 4 + 4].level
      BY <1>1, <2>2
    <2> QED
      BY <2>1, <2>2, <2>3
  <1>6. ASSUME NEW i \in 5 .. 20
        PROVE  U[2 * i + 3] # U[2 * i + 3 + 1]
    <2>1. 2 * i + 3 \in 1 .. 44 /\ 2 * i + 4 \in 1 .. 44 /\ 2 * i + 3 + 1 = 2 * i + 4 /\ i \in 1 .. 20
      BY SMT
    <2>2. U[2 * i + 3] = s[2 * i + 3].level /\ U[2 * i + 4] = s[2 * i + 4].level
      BY <1>2, <2>1, RC6Pulses
    <2>3. s[2 * i + 3].level # s[2 * i + 4].level
      BY <1>1, <2>1
    <2> QED
      BY <2>1, <2>2, <2>3
  <1>7. ASSUME NEW u \in 1 .. 44 - 3
        PROVE  \E v \in u .. u + 3 - 1 : U[v] # U[v + 1]
    <2>1. CASE u <= 1
      BY <1>3, <2>1
    <2>2. CASE u \in 2 .. 7
      <3>1. u \div 2 \in 1 .. 3 /\ 2 * (u \div 2) + 1 \in u .. u + 3 - 1
        BY <2>2, SMT
      <3> QED
        BY <1>4, <3>1
    <2>3. CASE u \in 8 .. 10
      BY <1>5, <2>3
    <2>4. CASE u >= 11
      <3>1. PICK i \in 5 .. 20 : 2 * i + 3 \in u .. u + 3 - 1
        <4>1. CASE u = 11
          <5>1. 5 \in 5 .. 20 /\ 2 * 5 + 3 \in u .. u + 3 - 1
            BY <4>1, SMT
          <5> QED
            BY <5>1
        <4>2. CASE u # 11
          <5>1. (u - 2) \div 2 \in 5 .. 20 /\ 2 * ((u - 2) \div 2) + 3 \in u .. u + 3 - 1
            BY <2>4, <4>2, SMT
          <5> QED
            BY <5>1
        <4> QED
          BY <4>1, <4>2
      <3> QED
        BY <1>6, <3>1
    <2> QED
      BY <2>1, <2>2, <2>3, <2>4
  <1>8. U[43] # U[44]
    <2>1. 20 \in 5 .. 20 /\ 2 * 20 + 3 = 43 /\ 2 * 20 + 3 + 1 = 44
      BY SMT
    <2>2. U[2 * 20 + 3] # U[2 * 20 + 3 + 1]
      BY <1>6, <2>1
    <2> QED
      BY <2>1, <2>2
  <1> QED
    BY <1>7, <1>8 DEF Edges, U

\* The same with the bounds of a slice as they are written.
LEMMA ReadRange ==
    ASSUME NEW l, NEW U, NEW m \in Nat, ReadAs(l, U, m), NEW b \in Nat, b >= 1, NEW c \in Nat,
           b <= c + 1, c <= m
    PROVE  ReadBehind(SubSeq(l, b, c), U, b - 1, c)
  <1>1. PICK a \in Nat : a = b - 1 /\ b = a + 1 /\ a <= c
    BY SMT
  <1>2. ReadBehind(SubSeq(l, a + 1, c), U, a, c)
    BY <1>1, ReadSlice
  <1> QED
    BY <1>1, <1>2

\* A concatenation holds the first sequence and, behind it, the second.
LEMMA PaddedRead ==
    ASSUME NEW x \in Seq(LevelSet), NEW y \in Seq(LevelSet)
    PROVE  /\ x \o y \in Seq(LevelSet) /\ Len(x \o y) = Len(x) + Len(y)
           /\ \A k \in 1 .. Len(x) : (x \o y)[k] = x[k]
           /\ \A k \in 1 .. Len(y) : (x \o y)[Len(x) + k] = y[k]
  <1>1. Len(x) \in Nat /\ Len(y) \in Nat
    BY LenProperties
  <1>2. /\ x \o y \in Seq(LevelSet) /\ Len(x \o y) = Len(x) + Len(y)
        /\ \A k \in 1 .. Len(x) + Len(y) :
              (x \o y)[k] = IF k <= Len(x) THEN x[k] ELSE y[k - Len(x)]
    BY ConcatProperties
  <1>3. ASSUME NEW k \in 1 .. Len(x)
        PROVE  (x \o y)[k] = x[k]
    <2>1. k \in 1 .. Len(x) + Len(y) /\ k <= Len(x)
      BY <1>1, SMT
    <2> QED
      BY <1>2, <2>1
  <1>4. ASSUME NEW k \in 1 .. Len(y)
        PROVE  (x \o y)[Len(x) + k] = y[k]
    <2>1. /\ Len(x) + k \in 1 .. Len(x) + Len(y) /\ ~(Len(x) + k <= Len(x))
          /\ Len(x) + k - Len(x) = k
      BY <1>1, SMT
    <2> QED
      BY <1>2, <2>1
  <1> QED
    BY <1>2, <1>3, <1>4

\* RC6 with its trailer bit, read as two levels a half, brought to one.
Trailed(trailer, rest, U, m) ==
    /\ trailer[1] = U[9] /\ trailer[2] = U[10] /\ trailer[3] = U[11] /\ trailer[4] = U[12]
    /\ Len(rest) = m - 4
    /\ \A k \in 1 .. 6 : rest[k] = U[k + 2]
    /\ rest[7] = U[9] /\ rest[8] = U[11]
    /\ \A k \in 9 .. m - 4 : rest[k] = U[k + 4]

\* What decodeRC6() reads behind the start bit; past the end of the
\* recording getRClevel() answers SPACE.
RC6Behind(l) == SubSeq(l, 3, Len(l)) \o <<"SPACE", "SPACE", "SPACE">>
\* The four levels of the trailer bit.
RC6Trailer(l) == SubSeq(RC6Behind(l), 7, 10)
\* The halves of all bits, one level each: of the trailer's four levels
\* the first and the third.
RC6Rest(l) == SubSeq(RC6Behind(l), 1, 6) \o <<RC6Trailer(l)[1], RC6Trailer(l)[3]>>
                 \o SubSeq(RC6Behind(l), 11, Len(l) - 2)

\* The trailer is read as the units sent, and dropping its second and
\* fourth level leaves every bit two levels.
LEMMA TrailerRead ==
    ASSUME NEW l, NEW U, NEW m \in Nat, m >= 43, ReadAs(l, U, m)
    PROVE  Trailed(RC6Trailer(l), RC6Rest(l), U, m)
  <1> DEFINE A == SubSeq(l, 3, Len(l))
             P == <<"SPACE", "SPACE", "SPACE">>
             bits == A \o P
             trailer == SubSeq(bits, 7, 10)
             first == SubSeq(bits, 1, 6)
             T == <<trailer[1], trailer[3]>>
             last == SubSeq(bits, 11, Len(l) - 2)
             rest == first \o T \o last
  <1>1. Len(l) = m
    BY DEF ReadAs
  <1>2. A \in Seq(LevelSet) /\ Len(A) = m - 2 /\ \A k \in 1 .. m - 2 : A[k] = U[2 + k]
    <2>1. 3 \in Nat /\ 3 >= 1 /\ 3 <= m + 1 /\ m <= m /\ 3 - 1 = 2
      BY SMT
    <2>2. ReadBehind(A, U, 3 - 1, m)
      BY <1>1, <2>1, ReadRange
    <2> QED
      BY <2>1, <2>2 DEF ReadBehind
  <1>3. P \in Seq(LevelSet) /\ Len(P) = 3
    BY DEF LevelSet
  <1> HIDE DEF A, P
  <1>4. /\ bits \in Seq(LevelSet) /\ Len(bits) = (m - 2) + 3
        /\ \A k \in 1 .. m - 2 : bits[k] = U[2 + k]
    <2>1. /\ bits \in Seq(LevelSet) /\ Len(bits) = Len(A) + Len(P)
          /\ \A k \in 1 .. Len(A) : bits[k] = A[k]
      BY <1>2, <1>3, PaddedRead
    <2> HIDE DEF bits
    <2> QED
      BY <1>2, <1>3, <2>1
  <1> HIDE DEF bits
  <1>5. PICK M \in Nat : M = m + 1 /\ ReadAs(bits, bits, M)
    <2>1. (m - 2) + 3 = m + 1 /\ m + 1 \in Nat
      BY SMT
    <2> QED
      BY <1>4, <2>1 DEF ReadAs
  <1>6. /\ trailer \in Seq(LevelSet) /\ Len(trailer) = 4
        /\ \A k \in 1 .. 4 : trailer[k] = bits[6 + k]
    <2>1. 7 \in Nat /\ 7 >= 1 /\ 10 \in Nat /\ 7 <= 10 + 1 /\ 10 <= M /\ 7 - 1 = 6 /\ 10 - 6 = 4
      BY <1>5, SMT
    <2>2. ReadBehind(trailer, bits, 7 - 1, 10)
      BY <1>5, <2>1, ReadRange
    <2> QED
      BY <2>1, <2>2 DEF ReadBehind
  <1>7. first \in Seq(LevelSet) /\ Len(first) = 6 /\ \A k \in 1 .. 6 : first[k] = bits[k]
    <2>1. 1 \in Nat /\ 1 >= 1 /\ 6 \in Nat /\ 1 <= 6 + 1 /\ 6 <= M /\ 1 - 1 = 0 /\ 6 - 0 = 6
      BY <1>5, SMT
    <2>2. ReadBehind(first, bits, 1 - 1, 6)
      BY <1>5, <2>1, ReadRange
    <2> QED
      BY <2>1, <2>2 DEF ReadBehind
  <1>8. /\ last \in Seq(LevelSet) /\ Len(last) = m - 12
        /\ \A k \in 1 .. m - 12 : last[k] = bits[10 + k]
    <2>1. PICK c \in Nat : c = Len(l) - 2 /\ c = m - 2
      BY <1>1, SMT
    <2>2. /\ 11 \in Nat /\ 11 >= 1 /\ 11 <= c + 1 /\ c <= M /\ 11 - 1 = 10 /\ c - 10 = m - 12
      BY <1>5, <2>1, SMT
    <2>3. ReadBehind(SubSeq(bits, 11, c), bits, 11 - 1, c)
      BY <1>5, <2>2, ReadRange
    <2> QED
      BY <2>1, <2>2, <2>3 DEF ReadBehind
  <1> HIDE DEF trailer, first, last
  <1>9. T \in Seq(LevelSet) /\ Len(T) = 2 /\ T[1] = trailer[1] /\ T[2] = trailer[3]
    <2>1. trailer[1] \in LevelSet /\ trailer[3] \in LevelSet
      <3>1. 1 \in 1 .. Len(trailer) /\ 3 \in 1 .. Len(trailer)
        BY <1>6
      <3> QED
        BY <1>6, <3>1, ElementOfSeq
    <2> QED
      BY <2>1
  <1> HIDE DEF T
  <1> DEFINE F == first \o T
  <1>10. /\ F \in Seq(LevelSet) /\ Len(F) = 8 /\ \A k \in 1 .. 6 : F[k] = first[k]
         /\ F[7] = T[1] /\ F[8] = T[2]
    <2>1. /\ F \in Seq(LevelSet) /\ Len(F) = Len(first) + Len(T)
          /\ \A k \in 1 .. Len(first) : F[k] = first[k]
          /\ \A k \in 1 .. Len(T) : F[Len(first) + k] = T[k]
      BY <1>7, <1>9, PaddedRead
    <2> HIDE DEF F
    <2>2. 1 \in 1 .. Len(T) /\ 2 \in 1 .. Len(T) /\ Len(first) + 1 = 7 /\ Len(first) + 2 = 8
      BY <1>7, <1>9
    <2> QED
      BY <1>7, <1>9, <2>1, <2>2
  <1> HIDE DEF F
  <1>11. /\ Len(rest) = m - 4 /\ \A k \in 1 .. 8 : rest[k] = F[k]
         /\ \A k \in 1 .. m - 12 : rest[8 + k] = last[k]
    <2>1. rest = F \o last
      BY DEF F
    <2>2. /\ Len(F \o last) = Len(F) + Len(last)
          /\ \A k \in 1 .. Len(F) : (F \o last)[k] = F[k]
          /\ \A k \in 1 .. Len(last) : (F \o last)[Len(F) + k] = last[k]
      BY <1>8, <1>10, PaddedRead, ZenonT(60)
    <2>3. Len(F) + Len(last) = m - 4
      BY <1>8, <1>10, SMT
    <2> HIDE DEF rest
    <2> QED
      BY <1>8, <1>10, <2>1, <2>2, <2>3
  <1> HIDE DEF rest
  <1>12. \A k \in 1 .. 4 : trailer[k] = U[8 + k]
    <2>1. \A k \in 1 .. 4 : 6 + k \in 1 .. m - 2 /\ 2 + (6 + k) = 8 + k
      BY SMT
    <2> QED
      BY <1>4, <1>6, <2>1
  <1>13. trailer[1] = U[9] /\ trailer[2] = U[10] /\ trailer[3] = U[11] /\ trailer[4] = U[12]
    BY <1>12
  <1>14. ASSUME NEW k \in 1 .. 6
         PROVE  rest[k] = U[k + 2]
    <2>1. k \in 1 .. 8 /\ k \in 1 .. m - 2 /\ 2 + k = k + 2
      BY SMT
    <2>2. rest[k] = F[k]
      BY <1>11, <2>1
    <2>3. F[k] = first[k]
      BY <1>10
    <2>4. first[k] = bits[k]
      BY <1>7
    <2>5. bits[k] = U[2 + k]
      BY <1>4, <2>1
    <2> QED
      BY <2>1, <2>2, <2>3, <2>4, <2>5
  <1>15. rest[7] = U[9] /\ rest[8] = U[11]
    <2>1. rest[7] = F[7] /\ rest[8] = F[8]
      BY <1>11
    <2> QED
      BY <1>9, <1>10, <1>13, <2>1
  <1>16. ASSUME NEW k \in 9 .. m - 4
         PROVE  rest[k] = U[k + 4]
    <2>1. PICK j \in 1 .. m - 12 : j = k - 8
      BY SMT
    <2>2. 8 + j = k /\ 10 + j \in 1 .. m - 2 /\ 2 + (10 + j) = k + 4
      BY <2>1, SMT
    <2>3. rest[8 + j] = last[j] /\ last[j] = bits[10 + j] /\ bits[10 + j] = U[2 + (10 + j)]
      BY <1>4, <1>8, <1>11, <2>2
    <2> QED
      BY <2>2, <2>3
  <1>17. Trailed(trailer, rest, U, m)
    BY <1>11, <1>13, <1>14, <1>15, <1>16 DEF Trailed
  <1> QED
    BY <1>17 DEF RC6Rest, RC6Trailer, RC6Behind, rest, F, T, last, first, trailer, bits, A, P

\* With its trailer bit brought to one level a half, RC6 is two levels a bit.
LEMMA RC6RestRead ==
    ASSUME NEW s, NEW data \in [1 .. 20 -> {0, 1}], IsRC6(s, data), NEW m \in {43, 44},
           m = 43 => RC6Levels(s)[44] = "SPACE",
           NEW trailer, NEW rest, Trailed(trailer, rest, RC6Levels(s), m)
    PROVE  /\ trailer[1] = trailer[2] /\ trailer[3] = trailer[4]
           /\ BitsRead(rest, 20, data, "MARK", "SPACE")
  <1> DEFINE U == RC6Levels(s)
  <1>1. \A u \in 1 .. 44 : U[u] = s[RC6Pulse(u)].level
    BY DEF RC6Levels
  <1>2. /\ trailer[1] = U[9] /\ trailer[2] = U[10] /\ trailer[3] = U[11] /\ trailer[4] = U[12]
        /\ Len(rest) = m - 4
        /\ \A k \in 1 .. 6 : rest[k] = U[k + 2]
        /\ rest[7] = U[9] /\ rest[8] = U[11]
        /\ \A k \in 9 .. m - 4 : rest[k] = U[k + 4]
    BY DEF Trailed
  <1>3. m = 43 => U[44] = "SPACE"
    OBVIOUS
  <1> HIDE DEF U
  <1>4. U[9] = s[11].level /\ U[10] = s[11].level /\ U[11] = s[12].level /\ U[12] = s[12].level
    BY <1>1, RC6Pulses
  <1>5. ASSUME NEW i \in 1 .. 20
        PROVE  rest[2 * i - 1] = s[2 * i + 3].level /\ Half(rest, 2 * i) = s[2 * i + 4].level
    <2>1. CASE i <= 3
      <3>1. /\ i \in 1 .. 3 /\ 2 * i - 1 \in 1 .. 6 /\ 2 * i \in 1 .. 6 /\ 2 * i <= m - 4
            /\ (2 * i - 1) + 2 = 2 * i + 1 /\ 2 * i + 1 \in 1 .. 44 /\ 2 * i + 2 \in 1 .. 44
        BY <2>1, SMT
      <3>2. rest[2 * i - 1] = U[2 * i + 1] /\ rest[2 * i] = U[2 * i + 2]
        BY <1>2, <3>1
      <3>3. U[2 * i + 1] = s[2 * i + 3].level /\ U[2 * i + 2] = s[2 * i + 4].level
        BY <1>1, <3>1, RC6Pulses
      <3> QED
        BY <1>2, <3>1, <3>2, <3>3 DEF Half
    <2>2. CASE i = 4
      <3>1. 2 * i - 1 = 7 /\ 2 * i = 8 /\ 2 * i + 3 = 11 /\ 2 * i + 4 = 12 /\ 8 <= m - 4
        BY <2>2, SMT
      <3> QED
        BY <1>2, <1>4, <3>1 DEF Half
    <2>3. CASE i >= 5
      <3>1. /\ i \in 5 .. 20 /\ 2 * i - 1 \in 9 .. m - 4 /\ (2 * i - 1) + 4 = 2 * i + 3
            /\ 2 * i + 3 \in 1 .. 44 /\ 2 * i + 4 \in 1 .. 44
        BY <2>3, SMT
      <3>2. U[2 * i + 3] = s[2 * i + 3].level /\ U[2 * i + 4] = s[2 * i + 4].level
        BY <1>1, <3>1, RC6Pulses
      <3>3. rest[2 * i - 1] = s[2 * i + 3].level
        BY <1>2, <3>1, <3>2
      <3>4. CASE 2 * i <= m - 4
        <4>1. 2 * i \in 9 .. m - 4
          BY <2>3, <3>4, SMT
        <4>2. rest[2 * i] = s[2 * i + 4].level
          BY <1>2, <3>2, <4>1
        <4> QED
          BY <1>2, <3>3, <3>4, <4>2 DEF Half
      <3>5. CASE ~(2 * i <= m - 4)
        <4>1. m = 43 /\ 2 * i + 4 = 44
          BY <3>5, SMT
        <4>2. s[2 * i + 4].level = "SPACE"
          BY <1>3, <3>2, <4>1
        <4> QED
          BY <1>2, <3>3, <3>5, <4>2 DEF Half
      <3> QED
        BY <3>4, <3>5
    <2> QED
      BY <2>1, <2>2, <2>3
  <1>6. ASSUME NEW i \in 1 .. 20
        PROVE  IF data[i] = 1
               THEN s[2 * i + 3].level = "MARK" /\ s[2 * i + 4].level = "SPACE"
               ELSE s[2 * i + 3].level = "SPACE" /\ s[2 * i + 4].level = "MARK"
    <2>1. RC6Bit(s, data, i)
      BY RC6BitSent
    <2> QED
      BY <2>1 DEF RC6Bit
  <1>7. BitsRead(rest, 20, data, "MARK", "SPACE")
    <2>1. Len(rest) \in {2 * 20 - 1, 2 * 20}
      BY <1>2
    <2> QED
      BY <1>5, <1>6, <2>1 DEF BitsRead
  <1> QED
    BY <1>2, <1>4, <1>7

\* The first two levels read, a space behind them if there is but one.
LEMMA StartRead ==
    ASSUME NEW l, NEW U, NEW m \in Nat, m >= 2, ReadAs(l, U, m), NEW a, a = U[1], NEW b, b = U[2]
    PROVE  SubSeq(l \o <<"SPACE">>, 1, 2) = <<a, b>>
  <1> DEFINE y == <<"SPACE">>
             x == l \o y
             z == SubSeq(x, 1, 2)
  <1>1. y \in Seq(LevelSet) /\ Len(y) = 1
    BY DEF LevelSet
  <1>2. l \in Seq(LevelSet) /\ Len(l) = m /\ \A k \in 1 .. m : l[k] = U[k]
    BY DEF ReadAs
  <1> HIDE DEF y
  <1>3. x \in Seq(LevelSet) /\ Len(x) = Len(l) + Len(y) /\ \A k \in 1 .. Len(l) : x[k] = l[k]
    BY <1>1, <1>2, PaddedRead
  <1> HIDE DEF x
  <1>4. PICK M \in Nat : M = m + 1 /\ ReadAs(x, x, M)
    BY <1>1, <1>2, <1>3 DEF ReadAs
  <1>5. PICK c \in Nat : c = 2
    OBVIOUS
  <1>6. c <= M
    BY <1>4, <1>5
  <1>7. ReadAs(SubSeq(x, 1, c), x, c)
    BY <1>4, <1>5, <1>6, ReadFirst
  <1>8. z \in Seq(LevelSet) /\ Len(z) = 2 /\ \A k \in 1 .. 2 : z[k] = x[k]
    BY <1>5, <1>7 DEF ReadAs
  <1> HIDE DEF z
  <1>9. 1 \in 1 .. 2 /\ 2 \in 1 .. 2 /\ 1 \in 1 .. m /\ 2 \in 1 .. m
    BY SMT
  <1>10. l[1] = U[1] /\ l[2] = U[2] /\ x[1] = l[1] /\ x[2] = l[2]
    BY <1>2, <1>3, <1>9
  <1>11. z[1] = x[1] /\ z[2] = x[2]
    BY <1>8, <1>9
  <1>12. z = <<a, b>>
    BY <1>8, <1>10, <1>11
  <1> QED
    BY <1>12 DEF z, x, y

\* RC6 read from the line is RC6 decoded.
LEMMA RC6Read ==
    ASSUME NEW s, NEW data \in [1 .. 20 -> {0, 1}], IsRC6(s, data), NEW h,
           h.rawlen \in Nat, UnitsRead(h, 2, RC6_T1, 3, RC6Levels(s), 44),
           MATCH_MARK(h.rawbuf[1], 2666), MATCH_SPACE(h.rawbuf[2], 889)
    PROVE  decodeRC6(h) = Decoded("RC6", 20, data) /\ h.rawlen >= 18
  <1> DEFINE U == RC6Levels(s)
             l == levels(h, 3, RC6_T1)
             trailer == RC6Trailer(l)
             tail == RC6Rest(l)
  <1>1. PICK m \in Nat : /\ ReadAs(l, U, m)
                         /\ m = 44 \/ (m = 44 - 1 /\ U[44] = "SPACE")
                         /\ m <= 3 * (h.rawlen - (2 + 1))
    <2>1. 2 + 1 = 3
      BY SMT
    <2> QED
      BY <2>1 DEF UnitsRead
  <1>2. h.rawlen >= 18 /\ m \in {43, 44} /\ m >= 43 /\ (m = 43 => U[44] = "SPACE")
    BY <1>1, SMT
  <1>3. U[1] = "MARK" /\ U[2] = "SPACE"
    <2>1. \A u \in 1 .. 44 : U[u] = s[RC6Pulse(u)].level
      BY DEF RC6Levels
    <2>2. s[3].level = "MARK" /\ s[4].level = "SPACE"
      BY DEF IsRC6
    <2> HIDE DEF U
    <2> QED
      BY <2>1, <2>2, RC6Pulses
  <1>4. Trailed(trailer, tail, U, m)
    <2> HIDE DEF U, l
    <2> QED
      BY <1>1, <1>2, TrailerRead
  <1>5. Len(l) = m /\ Len(l) >= 1 /\ Len(l) > 8
    <2> HIDE DEF U, l
    <2> QED
      BY <1>1, <1>2 DEF ReadAs
  <1>6. SubSeq(l \o <<"SPACE">>, 1, 2) = <<"MARK", "SPACE">>
    <2>1. m \in Nat /\ m >= 2 /\ ReadAs(l, U, m) /\ "MARK" = U[1] /\ "SPACE" = U[2]
      BY <1>1, <1>2, <1>3
    <2> HIDE DEF U, l
    <2> QED
      BY <2>1, StartRead
  <1>7. /\ trailer[1] = trailer[2] /\ trailer[3] = trailer[4]
        /\ BitsRead(tail, 20, data, "MARK", "SPACE")
    <2> HIDE DEF trailer, tail
    <2> QED
      BY <1>2, <1>4, RC6RestRead
  <1> HIDE DEF trailer, tail
  <1>8. RCBits(tail, "RC6", <<"MARK", "SPACE">>, <<"SPACE", "MARK">>) = Decoded("RC6", 20, data)
    <2>1. PICK B \in Nat : B = 20
      OBVIOUS
    <2>2. data \in [1 .. B -> {0, 1}] /\ BitsRead(tail, B, data, "MARK", "SPACE")
      BY <1>7, <2>1
    <2>3. RCBits(tail, "RC6", <<"MARK", "SPACE">>, <<"SPACE", "MARK">>) = Decoded("RC6", B, data)
      BY <2>2, RC6BitsRead, SMT
    <2> QED
      BY <2>1, <2>3
  <1>9. decodeRC6(h) =
           IF /\ MATCH_MARK(h.rawbuf[1], 2666) /\ MATCH_SPACE(h.rawbuf[2], 889)
              /\ Len(l) >= 1 /\ SubSeq(l \o <<"SPACE">>, 1, 2) = <<"MARK", "SPACE">>
              /\ Len(l) > 8 => trailer[1] = trailer[2] /\ trailer[3] = trailer[4]
           THEN RCBits(IF Len(l) > 8 THEN tail ELSE SubSeq(l, 3, Len(l)),
                       "RC6", <<"MARK", "SPACE">>, <<"SPACE", "MARK">>)
           ELSE Nothing
    BY DEF decodeRC6, tail, trailer, RC6Rest, RC6Trailer, RC6Behind
  <1> HIDE DEF l
  <1>10. decodeRC6(h) = RCBits(tail, "RC6", <<"MARK", "SPACE">>, <<"SPACE", "MARK">>)
    BY <1>5, <1>6, <1>7, <1>9
  <1> QED
    BY <1>2, <1>8, <1>10

\* Sony's header is a mark like that of RC6, with another space behind it.
LEMMA RejectSonySpace ==
    ASSUME NEW h, ~MATCH_SPACE(h.rawbuf[2], 600)
    PROVE  decodeSony(h) = GapOnly(h, 500)
  <1> DEFINE C(k) == 2 + 2 * k + 1 < h.rawlen /\ MATCH_SPACE(h.rawbuf[2 + 2 * k], 600)
             n == Leading(h, 2, LAMBDA i : MATCH_SPACE(h.rawbuf[i], 600))
             bits == (2 + 2 * n - 1) \div 2
             d == [k \in 1 .. n |-> IF MATCH_MARK(h.rawbuf[2 + 2 * k - 1], 1200) THEN 1 ELSE 0]
             marks == \A k \in 1 .. n : \/ MATCH_MARK(h.rawbuf[2 + 2 * k - 1], 1200)
                                        \/ MATCH_MARK(h.rawbuf[2 + 2 * k - 1], 600)
  <1>1. n = CHOOSE m \in 0 .. RAWBUF : (\A k \in 0 .. m - 1 : C(k)) /\ ~C(m)
    BY Zenon DEF Leading
  <1>2. ~C(0)
    <2>1. 2 + 2 * 0 = 2
      BY SMT
    <2> QED
      BY <2>1
  <1>3. decodeSony(h) = IF h.rawlen < 26 THEN Nothing
                        ELSE IF h.rawbuf[0] < 500 THEN Repeat("SANYO")
                        ELSE IF MATCH_MARK(h.rawbuf[1], 2400) /\ bits >= 12 /\ marks
                        THEN Decoded("SONY", bits, d) ELSE Nothing
    BY Zenon DEF decodeSony, decodeWidth
  <1> HIDE DEF C, d, marks
  <1>4. ASSUME NEW m \in 0 .. RAWBUF, \A k \in 0 .. m - 1 : C(k), ~C(m)
        PROVE  m = 0
    <2>1. CASE m # 0
      <3>1. 0 \in 0 .. m - 1
        BY <2>1, CodesAssumption, SMT
      <3> QED
        BY <1>2, <1>4, <3>1
    <2> QED
      BY <2>1
  <1>5. 0 \in 0 .. RAWBUF /\ \A k \in 0 .. 0 - 1 : C(k)
    BY CodesAssumption, SMT
  <1> HIDE DEF n
  <1>6. n = 0
    BY <1>1, <1>2, <1>4, <1>5
  <1>7. ~(bits >= 12)
    BY <1>6, SMT
  <1> HIDE DEF bits
  <1> QED
    BY <1>3, <1>7 DEF GapOnly

\* The first mark of RC6 is wider than one level of RC5.
LEMMA RC6NotRC5 ==
    ASSUME NEW h, h.rawlen \in Nat, h.rawlen >= 3, MarkTicks(h.rawbuf[1], 2666)
    PROVE  decodeRC5(h) = Nothing
  <1> DEFINE e == entryLevels(h, 2, RC5_T1)
             a == entryLevels(h, 1, RC5_T1)
  <1>1. Fits(h, 1, RC5_T1, 3) /\ ~Fits(h, 1, RC5_T1, 1) /\ ~Fits(h, 1, RC5_T1, 2)
    <2>1. Excess(1) = 100
      BY DEF Excess, MARK_EXCESS
    <2> QED
      BY <2>1, SMT DEF MarkTicks, Fits, RC5_T1, MATCH
  <1>2. \A n \in 1 .. 3 - 1 : n = 1 \/ n = 2
    BY SMT
  <1>3. PICK w \in 1 .. 3 : w = 3
    OBVIOUS
  <1>4. a = Run(1, w)
    BY <1>1, <1>2, <1>3, EntryLevels
  <1>5. e \in Seq(LevelSet)
    BY EntryIsSeq
  <1>6. a \in Seq(LevelSet) /\ Len(a) = 3 /\ a[2] = "MARK"
    <2>1. /\ Run(1, w) \in Seq(LevelSet) /\ Len(Run(1, w)) = w
          /\ \A n \in 1 .. w : Run(1, w)[n] = Level(1)
      BY <1>3, RunLevels
    <2>2. Level(1) = "MARK" /\ 2 \in 1 .. w
      BY <1>3 DEF Level
    <2> HIDE DEF a
    <2> QED
      BY <1>3, <1>4, <2>1, <2>2
  <1> HIDE DEF a, e
  <1>7. 2 \in 1 .. 3 /\ 2 \in 1 .. Len(a) /\ a[2] # StartBits[2]
    BY <1>6 DEF StartBits
  <1>8. Differs(a \o e)
    BY <1>5, <1>6, <1>7, FirstDiffers
  <1> QED
    BY <1>8, RejectRC5 DEF a, e

\* An RC6 code's line covers its 44 units behind the header.
LEMMA RC6Line ==
    ASSUME NEW data \in [1 .. 20 -> {0, 1}]
    PROVE  LET s == sendRC6(data)
           IN  IsRC6(s, data) /\ LineSpans(Periods(s), s, 2, RC6_T1, RC6Levels(s), 44)
  <1> DEFINE s == sendRC6(data)
             C == RC6Count
  <1>1. IsRC6(s, data)
    BY RC6Signal
  <1> HIDE DEF s
  <1>2. Units(s, 2, RC6_T1, RC6Levels(s), C) /\ RC6Levels(s)[43] # RC6Levels(s)[44]
    BY <1>1, RC6Units, RC6Edges
  <1>3. 44 \in Nat /\ 44 >= 2 /\ 44 = C[Len(s)] /\ 44 - 1 = 43 /\ RC6_T1 \in UnitTimes
    BY <1>1 DEF IsRC6, UnitTimes, RC6Count
  <1> HIDE DEF C
  <1>4. LineSpans(Periods(s), s, 2, RC6_T1, RC6Levels(s), 44)
    BY <1>2, <1>3, PeriodsSpan
  <1> QED
    BY <1>1, <1>4 DEF s

\* Any recording of an RC6 code within the margins is decoded as what
\* was sent, unless the gap is short.
LEMMA RC6Decoded ==
    ASSUME NEW data \in [1 .. 20 -> {0, 1}], NEW h, Heard(h, Periods(sendRC6(data)))
    PROVE  decode(h) = IF Doubled("RC6", h) THEN Repeat("SANYO")
                       ELSE Decoded("RC6", 20, data)
  <1> DEFINE s == sendRC6(data)
             line == Periods(s)
             U == RC6Levels(s)
  <1>1. IsRC6(s, data) /\ LineSpans(line, s, 2, RC6_T1, U, 44) /\ Heard(h, line)
    BY RC6Line
  <1> HIDE DEF s, line
  <1>2. Edges(U, 3, 44)
    BY <1>1, RC6Edges
  <1> HIDE DEF U
  <1>3. RC6_T1 \in UnitTimes /\ RC6_T1 # RC5_T1
    BY DEF UnitTimes, RC6_T1, RC5_T1
  <1>4. UnitsRead(h, 2, RC6_T1, 3, U, 44)
    <2>1. PICK b \in Nat : b = 2
      OBVIOUS
    <2>2. PICK total \in Nat : total = 44 /\ total # 0
      OBVIOUS
    <2>3. PICK W \in 1 .. 3 : W = 3
      OBVIOUS
    <2>4. LineSpans(line, s, b, RC6_T1, U, total) /\ Edges(U, W, total)
      BY <1>1, <1>2, <2>1, <2>2, <2>3
    <2>5. UnitsRead(h, b, RC6_T1, W, U, total)
      BY <1>1, <1>3, <2>1, <2>2, <2>3, <2>4, LineRead
    <2> QED
      BY <2>1, <2>2, <2>3, <2>5
  <1>5. PICK q : Spans(line, 2, RC6_T1, U, q)
    BY <1>1 DEF LineSpans
  <1>6. 2 < Len(line) /\ Len(line) \in Nat /\ line[1] = s[1] /\ line[2] = s[2]
    <2>1. 2 < Len(line) /\ \A i \in 1 .. 2 : line[i] = s[i]
      BY <1>1 DEF LineSpans
    <2>2. Len(line) \in Nat
      BY <1>5, LenProperties DEF Spans
    <2> QED
      BY <2>1, <2>2
  <1>7. MarkTicks(h.rawbuf[1], 2666) /\ SpaceTicks(h.rawbuf[2], 889)
    <2>1. 1 \in 1 .. Len(line) /\ 2 \in 1 .. Len(line) /\ 1 % 2 = 1 /\ ~(2 % 2 = 1)
      BY <1>6, SMTT(30)
    <2>2. s[1].us = 2666 /\ s[2].us = 889
      BY <1>1 DEF IsRC6
    <2> QED
      BY <1>1, <1>6, <2>1, <2>2 DEF Heard
  <1>8. h.rawlen \in Nat /\ h.rawbuf[0] \in Nat
    BY <1>1, <1>6 DEF Heard
  <1>9. MATCH_MARK(h.rawbuf[1], 2666) /\ MATCH_SPACE(h.rawbuf[2], 889)
    BY <1>7, MarkMatches, SpaceMatches
  <1>10. decodeRC6(h) = Decoded("RC6", 20, data) /\ h.rawlen >= 18
    BY <1>1, <1>4, <1>8, <1>9, RC6Read DEF U
  <1>11. /\ ~MATCH_MARK(h.rawbuf[1], 9000) /\ ~MATCH_MARK(h.rawbuf[1], 350)
         /\ ~MATCH_MARK(h.rawbuf[2], 3500) /\ ~MATCH_SPACE(h.rawbuf[2], 600)
    BY <1>7, SMT DEF MarkTicks, SpaceTicks, MATCH_MARK, MATCH_SPACE, MATCH, MARK_EXCESS
  <1>12. decodeRepeat(h, "NEC") = Nothing
    <2>1. h.rawlen # 4
      BY <1>8, <1>10, SMT
    <2> QED
      BY <2>1, RejectRepeat
  <1>13. decodeDistance(h, "NEC", 68, 0) = Nothing
    BY <1>11, RejectHeader, DistanceValues
  <1>14. /\ decodeSony(h) = GapOnly(h, 500) /\ decodeSanyo(h) = GapOnly(h, 800)
         /\ decodeMitsubishi(h) = Nothing
    BY <1>11, RejectSonySpace, RejectSanyo, RejectMitsubishi
  <1>15. decodeRC5(h) = Nothing
    <2>1. h.rawlen >= 3
      BY <1>8, <1>10, SMT
    <2> QED
      BY <1>7, <1>8, <2>1, RC6NotRC5
  <1>16. Decoded("RC6", 20, data) # Nothing
    BY DecodedIsSomething
  <1>17. Later(h) = Decoded("RC6", 20, data)
    BY <1>10, <1>14, <1>15, <1>16 DEF Later, OrElse
  <1>18. "RC6" # "NEC" /\ "RC6" # "SONY"
    OBVIOUS
  <1> QED
    BY <1>8, <1>12, <1>13, <1>14, <1>17, <1>18, DecodedLater

-----------------------------------------------------------------------------
\* A line short enough for rawbuf, with no pulse the detector could swallow.
Recordable(line) ==
    /\ Len(line) \in Nat /\ Len(line) < 100
    /\ \A i \in 1 .. Len(line) : line[i].us \in Nat /\ line[i].us >= 200

\* A recordable line is recorded within the margins.
LEMMA RecordableHeard ==
    ASSUME NEW line, Recordable(line), NEW e \in Excesses, NEW p \in Phases,
           NEW gap \in Nat, NEW stale
    PROVE  Heard(Measured(line, e, p, gap, stale), line)
  <1>1. /\ Len(line) \in Nat /\ Len(line) < 100
        /\ \A i \in 1 .. Len(line) : line[i].us \in Nat /\ line[i].us >= 200
    BY DEF Recordable
  <1>2. Len(line) < RAWBUF
    BY <1>1, CodesAssumption, SMT
  <1> QED
    BY <1>1, <1>2, MeasuredLemma

\* The lengths of a pulse-distance code are recordable.
LEMMA BoundedLengths ==
    ASSUME NEW c, Bounded(c)
    PROVE  /\ c.hdr[1] \in Nat /\ c.hdr[1] >= 200 /\ c.hdr[2] \in Nat /\ c.hdr[2] >= 200
           /\ c.bit \in Nat /\ c.bit >= 200 /\ c.one \in Nat /\ c.one >= 200
           /\ c.zero \in Nat /\ c.zero >= 200
  <1>1. c.hdr[1] \in Nat /\ c.hdr[1] >= 200 /\ c.hdr[2] \in Nat /\ c.hdr[2] >= 200
    BY DEF Bounded
  <1>2. c.bit \in Nat /\ c.bit >= 200
    BY DEF Bounded
  <1>3. c.one \in Nat /\ c.one >= 200 /\ c.zero \in Nat /\ c.zero >= 200
    BY DEF Bounded
  <1> QED
    BY <1>1, <1>2, <1>3

\* So are the pulse-distance codes,
LEMMA DistanceRecordable ==
    ASSUME NEW type \in DOMAIN Distance,
           NEW data \in [1 .. Distance[type].bits -> {0, 1}]
    PROVE  Recordable(Periods(sendDistance(Distance[type], data, TRUE)))
  <1> DEFINE c == Distance[type]
             s == Periods(sendDistance(c, data, TRUE))
  <1>1. Bounded(c)
    BY DistanceBounded
  <1>2. PICK B \in Nat : B = c.bits /\ B <= 48
    BY <1>1 DEF Bounded
  <1>3. /\ c.hdr[1] \in Nat /\ c.hdr[1] >= 200 /\ c.hdr[2] \in Nat /\ c.hdr[2] >= 200
        /\ c.bit \in Nat /\ c.bit >= 200 /\ c.one \in Nat /\ c.one >= 200
        /\ c.zero \in Nat /\ c.zero >= 200
    BY <1>1, BoundedLengths, Zenon
  <1>4. data \in [1 .. B -> {0, 1}]
    BY <1>2
  <1> HIDE DEF c
  <1>5. /\ Len(s) = 2 * B + 3
        /\ s[1].us = c.hdr[1] /\ s[2].us = c.hdr[2]
        /\ \A i \in 1 .. B :
              /\ s[2 * i + 1].us = c.bit
              /\ s[2 * i + 2].us = IF data[i] = 1 THEN c.one ELSE c.zero
        /\ s[2 * B + 3].us = c.bit
    BY <1>3, <1>4, HeaderLine, ZenonT(60)
  <1> HIDE DEF s
  <1>6. ASSUME NEW n \in 1 .. 2 * B + 3
        PROVE  s[n].us \in Nat /\ s[n].us >= 200
    <2>1. \/ n = 1 \/ n = 2 \/ n = 2 * B + 3
          \/ \E i \in 1 .. B : n = 2 * i + 1 \/ n = 2 * i + 2
      <3>1. CASE n > 2 /\ n < 2 * B + 3
        <4>1. (n - 1) \div 2 \in 1 .. B
          BY <3>1, SMT
        <4>2. n = 2 * ((n - 1) \div 2) + 1 \/ n = 2 * ((n - 1) \div 2) + 2
          BY SMT
        <4> QED
          BY <4>1, <4>2
      <3> QED
        BY <3>1, SMT
    <2>2. CASE n = 1 \/ n = 2 \/ n = 2 * B + 3
      BY <1>3, <1>5, <2>2
    <2>3. ASSUME NEW i \in 1 .. B, n = 2 * i + 1 \/ n = 2 * i + 2
          PROVE  s[n].us \in Nat /\ s[n].us >= 200
      <3>1. CASE n = 2 * i + 1
        BY <1>3, <1>5, <3>1
      <3>2. CASE n = 2 * i + 2
        <4>1. s[n].us = c.one \/ s[n].us = c.zero
          BY <1>5, <3>2
        <4> QED
          BY <1>3, <4>1
      <3> QED
        BY <2>3, <3>1, <3>2
    <2> QED
      BY <2>1, <2>2, <2>3
  <1>7. Len(s) \in Nat /\ Len(s) < 100
    BY <1>2, <1>5, SMT
  <1>8. Recordable(s)
    BY <1>5, <1>6, <1>7, Zenon DEF Recordable
  <1> QED
    BY <1>8 DEF s, c

\* JVC's repeat,
LEMMA RepeatRecordable ==
    ASSUME NEW data \in [1 .. 16 -> {0, 1}]
    PROVE  Recordable(Periods(sendDistance(Distance["JVC"], data, FALSE)))
  <1> DEFINE c == Distance["JVC"]
             s == Periods(sendDistance(c, data, FALSE))
  <1>1. PICK B \in Nat : B = 16
    OBVIOUS
  <1>2. data \in [1 .. B -> {0, 1}] /\ c.bit \in Nat /\ c.one \in Nat /\ c.zero \in Nat
    BY <1>1, DistanceValues
  <1>3. c.bit = 600 /\ c.one = 1600 /\ c.zero = 550
    BY DistanceValues
  <1> HIDE DEF c
  <1>4. HeaderlessLine(s, c, B, data)
    BY <1>1, <1>2, RepeatLine
  <1> HIDE DEF s
  <1>5. /\ Len(s) = 2 * B + 1
        /\ \A i \in 1 .. B : /\ s[2 * i - 1].us = 600
                             /\ s[2 * i].us = IF data[i] = 1 THEN 1600 ELSE 550
        /\ s[2 * B + 1].us = 600
    BY <1>3, <1>4 DEF HeaderlessLine
  <1>6. ASSUME NEW n \in 1 .. 2 * B + 1
        PROVE  s[n].us \in Nat /\ s[n].us >= 200
    <2>1. n = 2 * B + 1 \/ \E i \in 1 .. B : n = 2 * i - 1 \/ n = 2 * i
      <3>1. CASE n < 2 * B + 1
        <4>1. (n + 1) \div 2 \in 1 .. B
          BY <1>1, <3>1, SMT
        <4>2. n = 2 * ((n + 1) \div 2) - 1 \/ n = 2 * ((n + 1) \div 2)
          BY SMT
        <4> QED
          BY <4>1, <4>2
      <3> QED
        BY <1>1, <3>1, SMT
    <2>2. CASE n = 2 * B + 1
      BY <1>5, <2>2, SMTT(30)
    <2>3. ASSUME NEW i \in 1 .. B, n = 2 * i - 1 \/ n = 2 * i
          PROVE  s[n].us \in Nat /\ s[n].us >= 200
      <3>1. CASE n = 2 * i - 1
        BY <1>1, <1>5, <3>1
      <3>2. CASE n = 2 * i
        <4>1. s[n].us = 1600 \/ s[n].us = 550
          BY <1>1, <1>5, <3>2
        <4> QED
          BY <4>1
      <3> QED
        BY <2>3, <3>1, <3>2
    <2> QED
      BY <2>1, <2>2, <2>3
  <1>7. Recordable(s)
    BY <1>1, <1>5, <1>6 DEF Recordable
  <1> QED
    BY <1>7 DEF s, c

\* SONY's,
LEMMA SonyRecordable ==
    ASSUME NEW data \in [1 .. 12 -> {0, 1}]
    PROVE  Recordable(Periods(sendSony(data)))
  <1> DEFINE s == Periods(sendSony(data))
  <1>1. IsSonyLine(s, data)
    BY SonyLine
  <1> HIDE DEF s
  <1>2. /\ Len(s) = 25 /\ s[1].us = 2400
        /\ \A i \in 1 .. 12 : s[2 * i].us = 600 /\ s[2 * i + 1].us = SonyMark(data, i)
    BY <1>1 DEF IsSonyLine
  <1>3. ASSUME NEW n \in 1 .. 25
        PROVE  s[n].us \in Nat /\ s[n].us >= 200
    <2>1. n = 1 \/ \E i \in 1 .. 12 : n = 2 * i \/ n = 2 * i + 1
      <3>1. CASE n > 1
        <4>1. n \div 2 \in 1 .. 12 /\ (n = 2 * (n \div 2) \/ n = 2 * (n \div 2) + 1)
          BY <3>1, SMT
        <4> QED
          BY <4>1
      <3> QED
        BY <3>1
    <2>2. CASE n = 1
      BY <1>2, <2>2
    <2>3. ASSUME NEW i \in 1 .. 12, n = 2 * i \/ n = 2 * i + 1
          PROVE  s[n].us \in Nat /\ s[n].us >= 200
      <3>1. CASE n = 2 * i
        BY <1>2, <3>1
      <3>2. CASE n = 2 * i + 1
        <4>1. s[n].us = 1200 \/ s[n].us = 600
          BY <1>2, <3>2 DEF SonyMark
        <4> QED
          BY <4>1
      <3> QED
        BY <2>3, <3>1, <3>2
    <2> QED
      BY <2>1, <2>2, <2>3
  <1>4. Recordable(s)
    BY <1>2, <1>3 DEF Recordable
  <1> QED
    BY <1>4 DEF s

\* A code of units is recorded if its signal would be.
LEMMA UnitsRecordable ==
    ASSUME NEW b \in Nat, NEW T \in UnitTimes, NEW U, NEW s, NEW line, NEW total,
           LineSpans(line, s, b, T, U, total), Len(s) \in Nat, Len(s) < 100,
           \A i \in 1 .. b : s[i].us >= 200
    PROVE  Recordable(line)
  <1>1. \A i \in 1 .. Len(line) : line[i].us \in Nat /\ line[i].us >= 200
    BY LineRecorded
  <1>2. Len(line) <= Len(s) /\ \E q : Spans(line, b, T, U, q)
    BY DEF LineSpans
  <1>3. Len(line) \in Nat
    BY <1>2, LenProperties DEF Spans
  <1> QED
    BY <1>1, <1>2, <1>3 DEF Recordable

\* RC5's,
LEMMA RC5Recordable ==
    ASSUME NEW data \in [1 .. 12 -> {0, 1}]
    PROVE  Recordable(Periods(sendRC5(data)))
  <1> DEFINE s == sendRC5(data)
  <1>1. IsRC5(s, data) /\ LineSpans(Periods(s), s, 0, RC5_T1, RC5Levels(s), 27)
    BY RC5Line
  <1> HIDE DEF s
  <1>2. Len(s) \in Nat /\ Len(s) < 100 /\ RC5_T1 \in UnitTimes /\ 0 \in Nat
    BY <1>1 DEF IsRC5, UnitTimes
  <1>3. \A i \in 1 .. 0 : s[i].us >= 200
    BY SMT
  <1>4. Recordable(Periods(s))
    BY <1>1, <1>2, <1>3, UnitsRecordable
  <1> QED
    BY <1>4 DEF s

\* and RC6's.
LEMMA RC6Recordable ==
    ASSUME NEW data \in [1 .. 20 -> {0, 1}]
    PROVE  Recordable(Periods(sendRC6(data)))
  <1> DEFINE s == sendRC6(data)
  <1>1. IsRC6(s, data) /\ LineSpans(Periods(s), s, 2, RC6_T1, RC6Levels(s), 44)
    BY RC6Line
  <1> HIDE DEF s
  <1>2. PICK b \in Nat : b = 2
    OBVIOUS
  <1>3. Len(s) \in Nat /\ Len(s) < 100 /\ RC6_T1 \in UnitTimes
    BY <1>1 DEF IsRC6, UnitTimes
  <1>4. \A i \in 1 .. b : s[i].us >= 200
    <2>1. s[1].us = 2666 /\ s[2].us = 889
      BY <1>1 DEF IsRC6
    <2> QED
      BY <1>2, <2>1
  <1>5. Recordable(Periods(s))
    BY <1>1, <1>2, <1>3, <1>4, UnitsRecordable
  <1> QED
    BY <1>5 DEF s

-----------------------------------------------------------------------------
\* Every code of every kind, sent and recorded, is decoded as what it is.
Kinds == {"NEC", "PANASONIC", "LG", "JVC", "SAMSUNG", "SONY", "RC5", "RC6"}

\* How many bits each kind of code has.
LEMMA LengthsOf ==
    /\ DOMAIN Lengths = Kinds
    /\ \A t \in DOMAIN Distance : t \in Kinds /\ Lengths[t] = Distance[t].bits
    /\ Lengths["SONY"] = 12 /\ Lengths["RC5"] = 12 /\ Lengths["RC6"] = 20
    /\ Lengths["JVC"] = 16
    /\ \A t \in Kinds : t \in DOMAIN Distance \/ t = "SONY" \/ t = "RC5" \/ t = "RC6"
    /\ \A t \in Kinds : Lengths[t] \in Nat
  <1>1. DOMAIN Lengths = Kinds
    BY DistanceTypes DEF Lengths, Kinds
  <1>2. Lengths["SONY"] = 12 /\ Lengths["RC5"] = 12 /\ Lengths["RC6"] = 20
    BY DEF Lengths
  <1>3. ASSUME NEW t \in DOMAIN Distance
        PROVE  t \in Kinds /\ Lengths[t] = Distance[t].bits
    <2>1. /\ t \in DOMAIN Distance \cup {"SONY", "RC5", "RC6"}
          /\ ~(t \in {"SONY", "RC5"}) /\ t # "RC6"
      BY DistanceTypes
    <2> QED
      BY <2>1, DistanceTypes DEF Lengths, Kinds
  <1>4. \A t \in Kinds : t \in DOMAIN Distance \/ t = "SONY" \/ t = "RC5" \/ t = "RC6"
    BY DistanceTypes DEF Kinds
  <1>5. Lengths["JVC"] = 16
    <2>1. "JVC" \in DOMAIN Distance
      BY DistanceTypes
    <2> QED
      BY <1>3, <2>1, DistanceValues
  <1>6. ASSUME NEW t \in Kinds
        PROVE  Lengths[t] \in Nat
    <2>1. CASE t \in DOMAIN Distance
      <3>1. Distance[t].bits \in Nat
        BY <2>1, DistanceBounded DEF Bounded
      <3> QED
        BY <1>3, <2>1, <3>1
    <2> QED
      BY <1>2, <1>4, <2>1
  <1> QED
    BY <1>1, <1>2, <1>3, <1>4, <1>5, <1>6

\* What can be sent: as many bits as the kind has; only JVC repeats
\* without a header.
IsCode(type, data, repeat) ==
    /\ type \in Kinds /\ data \in [1 .. Lengths[type] -> {0, 1}]
    /\ repeat \in BOOLEAN /\ (repeat => type = "JVC")

\* What must be decoded of it.
Answer(type, data, repeat, h) ==
    IF Doubled(type, h) THEN Repeat("SANYO")
    ELSE IF repeat THEN Repeat("JVC") ELSE Decoded(type, Lengths[type], data)

\* Every code there is fits the buffer, and any recording of it within
\* the margins is decoded as what was sent, or as the gap.
LEMMA CodeDecoded ==
    ASSUME NEW type, NEW data, NEW repeat, IsCode(type, data, repeat)
    PROVE  /\ Recordable(Periods(send(type, data, repeat)))
           /\ \A h : Heard(h, Periods(send(type, data, repeat)))
                     => decode(h) = Answer(type, data, repeat, h)
  <1>1. /\ type \in Kinds /\ data \in [1 .. Lengths[type] -> {0, 1}]
        /\ repeat \in BOOLEAN /\ (repeat => type = "JVC")
    BY DEF IsCode
  <1>2. CASE type \in DOMAIN Distance /\ ~repeat
    <2>1. type # "SONY" /\ type # "RC5" /\ type # "RC6"
      BY <1>2, DistanceTypes
    <2>2. send(type, data, repeat) = sendDistance(Distance[type], data, TRUE)
      BY <1>2, <2>1 DEF send
    <2>3. Lengths[type] = Distance[type].bits /\ data \in [1 .. Distance[type].bits -> {0, 1}]
      BY <1>1, <1>2, LengthsOf
    <2>4. Recordable(Periods(sendDistance(Distance[type], data, TRUE)))
      BY <1>2, <2>3, DistanceRecordable
    <2>5. ASSUME NEW h, Heard(h, Periods(sendDistance(Distance[type], data, TRUE)))
          PROVE  decode(h) = IF Doubled(type, h) THEN Repeat("SANYO")
                             ELSE Decoded(type, Distance[type].bits, data)
      BY <1>2, <2>3, <2>5, DistanceDecoded
    <2> QED
      BY <1>2, <2>2, <2>3, <2>4, <2>5 DEF Answer
  <1>3. CASE repeat
    <2>1. type = "JVC" /\ repeat = TRUE /\ ~repeat = FALSE
      BY <1>1, <1>3
    <2>2. send(type, data, repeat) = sendDistance(Distance["JVC"], data, FALSE)
      BY <2>1 DEF send
    <2>3. data \in [1 .. 16 -> {0, 1}]
      BY <1>1, <2>1, LengthsOf
    <2>4. Recordable(Periods(sendDistance(Distance["JVC"], data, FALSE)))
      BY <2>3, RepeatRecordable
    <2>5. ASSUME NEW h, Heard(h, Periods(sendDistance(Distance["JVC"], data, FALSE)))
          PROVE  decode(h) = IF Doubled("JVC", h) THEN Repeat("SANYO") ELSE Repeat("JVC")
      BY <2>3, <2>5, RepeatDecoded
    <2> QED
      BY <1>3, <2>1, <2>2, <2>4, <2>5, Zenon DEF Answer
  <1>4. CASE type = "SONY" /\ ~repeat
    <2>1. send(type, data, repeat) = sendSony(data)
      BY <1>4 DEF send
    <2>2. Lengths[type] = 12 /\ data \in [1 .. 12 -> {0, 1}]
      BY <1>1, <1>4, LengthsOf
    <2>3. Recordable(Periods(sendSony(data)))
      BY <2>2, SonyRecordable
    <2>4. ASSUME NEW h, Heard(h, Periods(sendSony(data)))
          PROVE  decode(h) = IF Doubled("SONY", h) THEN Repeat("SANYO")
                             ELSE Decoded("SONY", 12, data)
      BY <2>2, <2>4, SonyDecoded
    <2> QED
      BY <1>4, <2>1, <2>2, <2>3, <2>4 DEF Answer
  <1>5. CASE type = "RC5" /\ ~repeat
    <2>1. send(type, data, repeat) = sendRC5(data)
      BY <1>5 DEF send
    <2>2. Lengths[type] = 12 /\ data \in [1 .. 12 -> {0, 1}]
      BY <1>1, <1>5, LengthsOf
    <2>3. Recordable(Periods(sendRC5(data)))
      BY <2>2, RC5Recordable
    <2>4. ASSUME NEW h, Heard(h, Periods(sendRC5(data)))
          PROVE  decode(h) = IF Doubled("RC5", h) THEN Repeat("SANYO")
                             ELSE Decoded("RC5", 12, data)
      BY <2>2, <2>4, RC5Decoded
    <2> QED
      BY <1>5, <2>1, <2>2, <2>3, <2>4 DEF Answer
  <1>6. CASE type = "RC6" /\ ~repeat
    <2>1. send(type, data, repeat) = sendRC6(data)
      BY <1>6 DEF send
    <2>2. Lengths[type] = 20 /\ data \in [1 .. 20 -> {0, 1}]
      BY <1>1, <1>6, LengthsOf
    <2>3. Recordable(Periods(sendRC6(data)))
      BY <2>2, RC6Recordable
    <2>4. ASSUME NEW h, Heard(h, Periods(sendRC6(data)))
          PROVE  decode(h) = IF Doubled("RC6", h) THEN Repeat("SANYO")
                             ELSE Decoded("RC6", 20, data)
      BY <2>2, <2>4, RC6Decoded
    <2> QED
      BY <1>6, <2>1, <2>2, <2>3, <2>4 DEF Answer
  <1>7. type \in DOMAIN Distance \/ type = "SONY" \/ type = "RC5" \/ type = "RC6"
    BY <1>1, LengthsOf
  <1> QED
    BY <1>1, <1>2, <1>3, <1>4, <1>5, <1>6, <1>7

\* The inductive invariant: what is recorded is within the margins of what
\* was sent, and what is decoded is its answer.
CodeInv ==
    /\ IsCode(sent.type, sent.data, sent.repeat)
    /\ heard # Nothing => Heard(heard, Periods(send(sent.type, sent.data, sent.repeat)))
    /\ result # Nothing
       => heard # Nothing /\ result = Answer(sent.type, sent.data, sent.repeat, heard)

\* Nothing sent, nothing decoded.
LEMMA CodeInit ==
    ASSUME IRInit
    PROVE  CodeInv
  <1>1. PICK type \in DOMAIN Lengths, block \in Blocks :
           \E repeat \in IF type = "JVC" THEN BOOLEAN ELSE {FALSE} :
              sent = [type |-> type, repeat |-> repeat,
                      data |-> [i \in 1 .. Lengths[type] |-> Repeated(block, i)]]
    BY DEF IRInit
  <1>2. PICK repeat \in IF type = "JVC" THEN BOOLEAN ELSE {FALSE} :
              sent = [type |-> type, repeat |-> repeat,
                      data |-> [i \in 1 .. Lengths[type] |-> Repeated(block, i)]]
    BY <1>1
  <1> DEFINE d == [i \in 1 .. Lengths[type] |-> Repeated(block, i)]
  <1>3. sent.type = type /\ sent.repeat = repeat /\ sent.data = d
    BY <1>2
  <1>4. repeat \in BOOLEAN /\ (repeat => type = "JVC")
    BY <1>2
  <1>5. type \in Kinds /\ Lengths[type] \in Nat
    BY <1>1, LengthsOf
  <1>6. block \in Seq({0, 1}) /\ block # <<>>
    BY <1>1, CodesAssumption
  <1>7. d \in [1 .. Lengths[type] -> {0, 1}]
    <2>1. ASSUME NEW i \in 1 .. Lengths[type]
          PROVE  Repeated(block, i) \in {0, 1}
      <3>1. i \in Nat /\ i >= 1
        BY <1>5
      <3> QED
        BY <1>6, <3>1, RepeatedLemma
    <2> QED
      BY <2>1
  <1> HIDE DEF d
  <1>8. IsCode(sent.type, sent.data, sent.repeat)
    BY <1>3, <1>4, <1>5, <1>7 DEF IsCode
  <1> QED
    BY <1>8 DEF IRInit, CodeInv

\* Each step sends one code and decodes the recording of it.
LEMMA CodeStep ==
    ASSUME CodeInv, IRNext
    PROVE  CodeInv'
  <1>1. IsCode(sent.type, sent.data, sent.repeat)
    BY DEF CodeInv
  <1> DEFINE line == Periods(send(sent.type, sent.data, sent.repeat))
  <1>2. Recordable(line) /\ \A h : Heard(h, line) => decode(h) = Answer(sent.type, sent.data, sent.repeat, h)
    BY <1>1, CodeDecoded
  <1>3. CASE IRReceive
    <2>1. PICK e \in Excesses, p \in Phases, t \in Silences, s \in Stales :
             heard' = Measured(line, e, p, Gap(t), s)
      BY <1>3 DEF IRReceive
    <2>2. sent' = sent /\ result' = result /\ heard = Nothing
      BY <1>3 DEF IRReceive
    <2>4. Gap(t) \in Nat
      BY CodesAssumption, SMT DEF Gap, TIMER_RANGE
    <2>3. Heard(heard', line)
      <3> HIDE DEF line
      <3> QED
        BY <1>2, <2>1, <2>4, RecordableHeard
    <2> QED
      BY <2>2, <2>3 DEF CodeInv
  <1>4. CASE IRDecode
    <2>1. heard # Nothing /\ result' = decode(heard) /\ sent' = sent /\ heard' = heard
      BY <1>4 DEF IRDecode
    <2>2. Heard(heard, line)
      BY <2>1 DEF CodeInv
    <2>3. result' = Answer(sent.type, sent.data, sent.repeat, heard)
      BY <1>2, <2>1, <2>2
    <2> QED
      BY <2>1, <2>3 DEF CodeInv
  <1> QED
    BY <1>3, <1>4 DEF IRNext

\* Whatever value of whatever kind the send functions put on the line, and
\* however a detector within its margins measures each of its edges, decode()
\* returns that kind and that value, or the repeat of SANYO if the gap before
\* the code was recorded as one of less than 800 ticks (500 for SONY), and the
\* code is not NEC and has 26 entries.
THEOREM EverySentCodeIsDecoded == IRSpec => []SentIsDecoded
  <1>1. IRInit => CodeInv
    BY CodeInit
  <1>2. CodeInv /\ [IRNext]_lineVars => CodeInv'
    <2>1. CASE IRNext
      BY <2>1, CodeStep
    <2>2. CASE UNCHANGED lineVars
      BY <2>2 DEF CodeInv, lineVars
    <2> QED
      BY <2>1, <2>2
  <1>3. CodeInv => SentIsDecoded
    BY DEF CodeInv, SentIsDecoded, Answer
  <1> QED
    BY <1>1, <1>2, <1>3, PTL DEF IRSpec

-----------------------------------------------------------------------------
\* What a frame is: a sync, the identity and the other bits, the number of
\* ones among them even.
Bit == {"0", "1"}
Wire == Bit \cup {"SYNC"}
BitsOf(payload) == sensor_id \o payload
Size(payload) == Len(sensor_id) + Len(payload) + 1

\* What the assumption says of their numbers and of the buffer.
LEMMA BitsLemma ==
    ASSUME NEW payload \in Payloads
    PROVE  /\ BitsOf(payload) \in Seq(Bit) /\ Len(sensor_id) \in Nat \ {0} /\ Len(payload) \in Nat
           /\ Len(BitsOf(payload)) = Len(sensor_id) + Len(payload)
           /\ \A k \in 1 .. Len(sensor_id) : BitsOf(payload)[k] = sensor_id[k]
           /\ Size(payload) \in Nat /\ Size(payload) >= 2
           /\ buffer_size \in Nat /\ buffer_size >= 4 * (Size(payload) + 1)
  <1>1. /\ sensor_id \in Seq(Bit) /\ sensor_id # <<>> /\ payload \in Seq(Bit)
        /\ buffer_size \in Nat /\ buffer_size >= 4 * (Len(sensor_id) + Len(payload) + 2)
    BY PollAssumption DEF Bit
  <1>2. Len(sensor_id) \in Nat \ {0} /\ Len(payload) \in Nat
    BY <1>1, EmptySeq, LenProperties
  <1>3. /\ BitsOf(payload) \in Seq(Bit) /\ Len(BitsOf(payload)) = Len(sensor_id) + Len(payload)
        /\ \A k \in 1 .. Len(sensor_id) : BitsOf(payload)[k] = sensor_id[k]
    BY <1>1, <1>2, ConcatProperties DEF BitsOf
  <1> QED
    BY <1>1, <1>2, <1>3, SMT DEF Size

\* The pulses of a frame, one by one.
LEMMA FrameLemma ==
    ASSUME NEW payload \in Payloads
    PROVE  LET F == Frame(payload)
               n == Size(payload)
           IN  /\ F \in Seq(Wire) /\ Len(F) = n + 1 /\ F[1] = "SYNC"
               /\ \A k \in 1 .. n - 1 : F[k + 1] = BitsOf(payload)[k]
               /\ F[n + 1] = IF Odd(BitsOf(payload)) THEN "1" ELSE "0"
  <1> DEFINE B == BitsOf(payload)
             p == IF Odd(B) THEN "1" ELSE "0"
             n == Size(payload)
  <1>1. B \in Seq(Wire) /\ Len(B) = n - 1 /\ n \in Nat /\ n >= 2
    BY BitsLemma, SMT DEF Wire, Size
  <1>2. Frame(payload) = (<<"SYNC">> \o B) \o <<p>>
    BY DEF Frame, BitsOf
  <1>3. p \in Wire
    BY DEF Wire, Bit
  <1> HIDE DEF B, p, n
  <1>4. <<"SYNC">> \in Seq(Wire) /\ Len(<<"SYNC">>) = 1 /\ <<"SYNC">>[1] = "SYNC"
    BY DEF Wire
  <1>5. <<p>> \in Seq(Wire) /\ Len(<<p>>) = 1 /\ <<p>>[1] = p
    BY <1>3
  <1> DEFINE s == <<"SYNC">>
             t == s \o B
  <1>6. /\ t \in Seq(Wire) /\ Len(t) = n /\ t[1] = "SYNC"
        /\ \A k \in 1 .. n - 1 : t[k + 1] = B[k]
    <2>1. t \in Seq(Wire) /\ Len(t) = 1 + (n - 1)
          /\ \A i \in 1 .. 1 + (n - 1) : t[i] = IF i <= 1 THEN s[i] ELSE B[i - 1]
      BY <1>1, <1>4, ConcatProperties
    <2> HIDE DEF s, t
    <2>2. 1 \in 1 .. 1 + (n - 1) /\ 1 <= 1 /\ 1 + (n - 1) = n
      BY <1>1, SMT
    <2>3. ASSUME NEW k \in 1 .. n - 1
          PROVE  t[k + 1] = B[k]
      <3>1. k + 1 \in 1 .. 1 + (n - 1) /\ ~(k + 1 <= 1) /\ (k + 1) - 1 = k
        BY <1>1, SMT
      <3> QED
        BY <2>1, <3>1
    <2>4. t[1] = "SYNC"
      BY <1>4, <2>1, <2>2 DEF s
    <2> QED
      BY <2>1, <2>2, <2>3, <2>4
  <1> DEFINE F == t \o <<p>>
  <1>7. F \in Seq(Wire) /\ Len(F) = n + 1
        /\ \A i \in 1 .. n + 1 : F[i] = IF i <= n THEN t[i] ELSE <<p>>[i - n]
    BY <1>1, <1>5, <1>6, ConcatProperties
  <1>8. Frame(payload) = F
    BY <1>2
  <1> HIDE DEF F, t
  <1>9. F[1] = "SYNC" /\ F[n + 1] = p /\ \A k \in 1 .. n - 1 : F[k + 1] = B[k]
    <2>1. 1 \in 1 .. n + 1 /\ 1 <= n /\ n + 1 \in 1 .. n + 1 /\ ~(n + 1 <= n) /\ (n + 1) - n = 1
      BY <1>1, SMT
    <2>2. ASSUME NEW k \in 1 .. n - 1
          PROVE  F[k + 1] = B[k]
      <3>1. k + 1 \in 1 .. n + 1 /\ k + 1 <= n
        BY <1>1, SMT
      <3> QED
        BY <1>6, <1>7, <3>1
    <2>3. F[1] = "SYNC"
      BY <1>6, <1>7, <2>1
    <2>4. F[n + 1] = p
      BY <1>5, <1>7, <2>1
    <2> QED
      BY <2>2, <2>3, <2>4
  <1> QED
    BY <1>7, <1>8, <1>9 DEF B, p, n

\* What is found in an undisturbed frame: the frame without its sync.
LEMMA TailLemma ==
    ASSUME NEW payload \in Payloads
    PROVE  LET f == Tail(Frame(payload))
               n == Size(payload)
           IN  /\ f \in Seq(Wire) /\ Len(f) = n
               /\ \A k \in 1 .. n : f[k] = Frame(payload)[k + 1] /\ f[k] \in Bit
               /\ \A k \in 1 .. Len(sensor_id) : f[k] = sensor_id[k]
               /\ crc(f, n)
  <1> DEFINE F == Frame(payload)
             f == Tail(F)
             n == Size(payload)
             B == BitsOf(payload)
  <1>1. /\ F \in Seq(Wire) /\ Len(F) = n + 1
        /\ \A k \in 1 .. n - 1 : F[k + 1] = B[k]
        /\ F[n + 1] = IF Odd(B) THEN "1" ELSE "0"
    BY FrameLemma
  <1>2. /\ B \in Seq(Bit) /\ Len(B) = n - 1 /\ n \in Nat /\ n >= 2
        /\ Len(sensor_id) \in Nat /\ Len(sensor_id) <= n - 1
        /\ \A k \in 1 .. Len(sensor_id) : B[k] = sensor_id[k]
    BY BitsLemma, SMT DEF Size
  <1> HIDE DEF F, n, B
  <1>3. f \in Seq(Wire) /\ Len(f) = n /\ \A k \in 1 .. n : f[k] = F[k + 1]
    <2>1. F # <<>>
      BY <1>1, <1>2, EmptySeq, SMT
    <2> QED
      BY <1>1, <1>2, <2>1, HeadTailProperties, SMT
  <1> HIDE DEF f
  <1>4. \A k \in 1 .. n - 1 : f[k] = B[k]
    <2>1. \A k \in 1 .. n - 1 : k \in 1 .. n
      BY <1>2, SMT
    <2> QED
      BY <1>1, <1>3, <2>1
  <1>5. f[n] = IF Odd(B) THEN "1" ELSE "0"
    <2>1. n \in 1 .. n
      BY <1>2, SMT
    <2> QED
      BY <1>1, <1>3, <2>1
  <1>6. ASSUME NEW k \in 1 .. n
        PROVE  f[k] \in Bit
    <2>1. CASE k = n
      BY <1>5, <2>1 DEF Bit
    <2>2. CASE k # n
      <3>1. k \in 1 .. n - 1
        BY <1>2, <2>2, SMT
      <3> QED
        BY <1>2, <1>4, <3>1, ElementOfSeq
    <2> QED
      BY <2>1, <2>2
  <1>7. SubSeq(f, 1, n - 1) = B
    <2>1. /\ SubSeq(f, 1, n - 1) \in Seq(Wire) /\ Len(SubSeq(f, 1, n - 1)) = n - 1
          /\ \A k \in 1 .. n - 1 : SubSeq(f, 1, n - 1)[k] = f[k]
      BY <1>2, <1>3, SubSeqProperties, SMT
    <2>2. B \in Seq(Wire)
      BY <1>2 DEF Wire
    <2> QED
      BY <1>2, <1>4, <2>1, <2>2, SeqEqual
  <1>8. crc(f, n)
    BY <1>5, <1>7 DEF crc
  <1>9. \A k \in 1 .. Len(sensor_id) : f[k] = sensor_id[k]
    <2>1. \A k \in 1 .. Len(sensor_id) : k \in 1 .. n - 1
      BY <1>2, SMT
    <2> QED
      BY <1>2, <1>4, <2>1
  <1> QED
    BY <1>3, <1>6, <1>8, <1>9 DEF F, f, n

\* The last character before a sync is the one right before it, if that is
\* not a sync too; a sync that comes first has none.
LEMMA LastLemma ==
    ASSUME NEW T, NEW i \in Nat, NEW k \in Nat \ {0}, T[i + k] = "SYNC"
    PROVE  LET last == SelectLastInSubSeq(T, i + 1, i + k, LAMBDA p : p # "SYNC")
           IN  /\ k = 1 => last = 0
               /\ k > 1 /\ T[i + k - 1] # "SYNC" => last = i + k - 1
  <1> DEFINE S == {x \in i + 1 .. i + k : T[x] # "SYNC"}
  <1>1. SelectLastInSubSeq(T, i + 1, i + k, LAMBDA p : p # "SYNC")
           = IF S # {} THEN Max(S) ELSE 0
    BY Zenon DEF SelectLastInSubSeq
  <1>2. k = 1 => S = {}
    BY SMT
  <1>3. ASSUME k > 1, T[i + k - 1] # "SYNC"
        PROVE  S # {} /\ Max(S) = i + k - 1
    <2> DEFINE m == i + k - 1
    <2>1. m \in S
      BY <1>3, SMT
    <2>2. \A x \in S : x <= m /\ x \in Nat
      BY SMT
    <2>3. m \in Nat
      BY SMT
    <2> HIDE DEF S, m
    <2>4. PICK z \in S : z = Max(S) /\ \A x \in S : z >= x
      <3>1. \E z \in S : \A x \in S : z >= x
        BY <2>1, <2>2, <2>3
      <3>2. Max(S) = CHOOSE z \in S : \A x \in S : z >= x
        BY Zenon DEF Max
      <3> QED
        BY <3>1, <3>2
    <2>5. z = m
      BY <2>1, <2>2, <2>3, <2>4
    <2> QED
      BY <2>1, <2>4, <2>5 DEF m
  <1> QED
    BY <1>1, <1>2, <1>3

\* The character at k: the pulse itself, the one before a sync, or, for a
\* sync that comes first, the one left from before.
Read(c, T, i, k, b) ==
    /\ T[i + k] # "SYNC" => c[k] = T[i + k]
    /\ T[i + k] = "SYNC" /\ k = 1 => c[k] = b
    /\ T[i + k] = "SYNC" /\ k > 1 /\ T[i + k - 1] # "SYNC" => c[k] = T[i + k - 1]

Captures(c, T, i, n, b) ==
    /\ \E S : c \in Seq(S)
    /\ Len(c) = n
    /\ \A k \in 1 .. n : Read(c, T, i, k, b)

\* captured() reads in this way.
LEMMA CapturedLemma ==
    ASSUME NEW T, NEW i \in Nat, NEW n \in Nat, NEW b
    PROVE  Captures(captured(T, i, n, b), T, i, n, b)
  <1> DEFINE c == captured(T, i, n, b)
             last(k) == SelectLastInSubSeq(T, i + 1, i + k, LAMBDA p : p # "SYNC")
  <1>1. c = [k \in 1 .. n |-> IF T[i + k] # "SYNC" THEN T[i + k]
                              ELSE IF last(k) = 0 THEN b ELSE T[last(k)]]
    BY Zenon DEF captured
  <1>2. ASSUME NEW k \in 1 .. n
        PROVE  Read(c, T, i, k, b)
    <2>1. c[k] = IF T[i + k] # "SYNC" THEN T[i + k]
                 ELSE IF last(k) = 0 THEN b ELSE T[last(k)]
      BY <1>1
    <2>2. CASE T[i + k] # "SYNC"
      BY <2>1, <2>2 DEF Read
    <2>3. CASE T[i + k] = "SYNC"
      <3>1. /\ k = 1 => last(k) = 0
            /\ k > 1 /\ T[i + k - 1] # "SYNC" => last(k) = i + k - 1
        BY <2>3, LastLemma
      <3>2. c[k] = IF last(k) = 0 THEN b ELSE T[last(k)]
        BY <2>1, <2>3
      <3> HIDE DEF last, c
      <3>3. k > 1 => i + k - 1 # 0
        BY SMT
      <3> QED
        BY <2>3, <3>1, <3>2, <3>3 DEF Read
    <2> QED
      BY <2>2, <2>3
  <1>3. c = [k \in 1 .. n |-> c[k]]
    BY <1>1
  <1> HIDE DEF c
  <1> DEFINE S == {c[k] : k \in 1 .. n}
  <1>4. c \in [1 .. n -> S]
    BY <1>3
  <1>5. c \in Seq(S) /\ Len(c) = n
    BY <1>4, FunctionIsSeq
  <1>6. Captures(c, T, i, n, b)
    BY <1>2, <1>5 DEF Captures
  <1> QED
    BY <1>6 DEF c

\* The bits read of a frame, its parity and the sync behind it looked at:
\* what accepted() asks of the characters.
LEMMA AcceptedLemma ==
    ASSUME NEW n \in Nat \ {0}, NEW S, NEW c \in Seq(S), Len(c) = n + 1,
           NEW I, sensor_id \in Seq(I), Len(sensor_id) <= n
    PROVE  accepted(c, n) <=> /\ \A k \in 1 .. n + 1 : c[k] # "?"
                              /\ \A k \in 1 .. Len(sensor_id) : c[k] = sensor_id[k]
                              /\ crc(c, n)
  <1> DEFINE m == Len(sensor_id)
             p == SubSeq(c, 1, m)
  <1>1. m \in Nat
    BY LenProperties
  <1>2. Contains(c, "?") <=> \E k \in 1 .. n + 1 : c[k] = "?"
    BY Zenon DEF Contains
  <1>3. \A k \in 1 .. m : k \in 1 .. Len(c)
    BY <1>1, SMT
  <1>4. /\ p \in Seq(S) /\ Len(p) = m
        /\ \A k \in 1 .. m : p[k] = c[k]
    <2>1. \A k \in 1 .. m : c[k] \in S
      BY <1>3, ElementOfSeq
    <2> HIDE DEF m
    <2>2. /\ SubSeq(c, 1, m) \in Seq(S) /\ Len(SubSeq(c, 1, m)) = IF 1 <= m THEN m - 1 + 1 ELSE 0
          /\ \A k \in 1 .. m - 1 + 1 : SubSeq(c, 1, m)[k] = c[1 + k - 1]
      BY <1>1, <2>1, SubSeqProperties
    <2> QED
      BY <1>1, <2>2, SMT
  <1>5. p = sensor_id <=> \A k \in 1 .. m : c[k] = sensor_id[k]
    <2>1. ASSUME \A k \in 1 .. m : c[k] = sensor_id[k]
          PROVE  p = sensor_id
      <3>1. p = [k \in 1 .. m |-> p[k]] /\ sensor_id = [k \in 1 .. m |-> sensor_id[k]]
        BY <1>4, LenProperties
      <3>2. \A k \in 1 .. m : p[k] = sensor_id[k]
        BY <1>4, <2>1
      <3> QED
        BY <3>1, <3>2
    <2>2. ASSUME p = sensor_id
          PROVE  \A k \in 1 .. m : c[k] = sensor_id[k]
      BY <1>4, <2>2
    <2> QED
      BY <2>1, <2>2
  <1> QED
    BY <1>2, <1>5, Zenon DEF accepted

\* The places of the ones among the first m bits.
Ones(c, m) == {k \in 1 .. m : c[k] = "1"}

\* Odd() counts them.
LEMMA OnesLemma ==
    ASSUME NEW m \in Nat, NEW S, NEW c \in Seq(S), m <= Len(c)
    PROVE  /\ Odd(SubSeq(c, 1, m)) <=> Cardinality(Ones(c, m)) % 2 = 1
           /\ IsFiniteSet(Ones(c, m)) /\ Cardinality(Ones(c, m)) \in Nat
  <1> DEFINE p == SubSeq(c, 1, m)
  <1>1. \A k \in 1 .. m : c[k] \in S
    <2>1. \A k \in 1 .. m : k \in 1 .. Len(c)
      BY LenProperties, SMT
    <2> QED
      BY <2>1, ElementOfSeq
  <1>2. p \in Seq(S) /\ Len(p) = m /\ \A k \in 1 .. m : p[k] = c[k]
    <2>1. /\ p \in Seq(S) /\ Len(p) = IF 1 <= m THEN m - 1 + 1 ELSE 0
          /\ \A k \in 1 .. m - 1 + 1 : p[k] = c[1 + k - 1]
      BY <1>1, SubSeqProperties
    <2> HIDE DEF p
    <2> QED
      BY <2>1, SMT
  <1>3. DOMAIN p = 1 .. m
    BY <1>2, LenProperties
  <1>4. {k \in DOMAIN p : p[k] = "1"} = Ones(c, m)
    BY <1>2, <1>3, Zenon DEF Ones
  <1>5. Odd(p) <=> Cardinality(Ones(c, m)) % 2 = 1
    BY <1>4, Zenon DEF Odd
  <1>6. IsFiniteSet(1 .. m)
    BY FS_Interval
  <1>7. IsFiniteSet(Ones(c, m))
    BY <1>6, FS_Subset DEF Ones
  <1>8. Cardinality(Ones(c, m)) \in Nat
    BY <1>7, FS_CardinalityType
  <1> QED
    BY <1>5, <1>7, <1>8

\* One more element makes an even number odd and an odd one even.
LEMMA OneMore ==
    ASSUME NEW X, NEW Y, NEW x, IsFiniteSet(X), x \notin X, Y = X \cup {x},
           Cardinality(X) \in Nat
    PROVE  Cardinality(X) % 2 = 1 <=> Cardinality(Y) % 2 # 1
  <1>1. Cardinality(Y) = Cardinality(X) + 1
    BY FS_AddElement
  <1>2. PICK m \in Nat : m = Cardinality(X)
    OBVIOUS
  <1>3. m % 2 = 1 <=> (m + 1) % 2 # 1
    BY SMT
  <1> QED
    BY <1>1, <1>2, <1>3

\* Messages of n bits that differ at most at j.
OneOff(c, f, n, j) ==
    /\ \A k \in 1 .. n : c[k] \in Bit /\ f[k] \in Bit
    /\ \A k \in 1 .. n : k # j => c[k] = f[k]

Same(c, f, n) == \A k \in 1 .. n : c[k] = f[k]

\* Of two messages that differ in one bit at most, both with even parity,
\* neither differs from the other.
LEMMA ParityLemma ==
    ASSUME NEW n \in Nat \ {0}, NEW S, NEW c \in Seq(S), n <= Len(c),
           NEW R, NEW f \in Seq(R), n <= Len(f), NEW j \in 1 .. n,
           OneOff(c, f, n, j), crc(c, n), crc(f, n)
    PROVE  Same(c, f, n)
  <1> DEFINE C == Ones(c, n - 1)
             F == Ones(f, n - 1)
  <1>0. /\ \A k \in 1 .. n : c[k] \in Bit /\ f[k] \in Bit
        /\ \A k \in 1 .. n : k # j => c[k] = f[k]
    BY DEF OneOff
  <1>1. n - 1 \in Nat /\ n - 1 <= Len(c) /\ n - 1 <= Len(f)
    BY LenProperties, SMT
  <1>2. /\ Cardinality(C) % 2 = 1 <=> c[n] = "1"
        /\ IsFiniteSet(C) /\ Cardinality(C) \in Nat
    BY <1>1, OnesLemma DEF crc
  <1>3. /\ Cardinality(F) % 2 = 1 <=> f[n] = "1"
        /\ IsFiniteSet(F) /\ Cardinality(F) \in Nat
    BY <1>1, OnesLemma DEF crc
  <1>4. SUFFICES ASSUME c[j] # f[j]
                 PROVE  FALSE
    BY <1>0 DEF Same
  <1>5. n \in 1 .. n
    BY SMT
  <1>6. \A k \in 1 .. n - 1 : k \in 1 .. n /\ k # n
    BY SMT
  <1>7. CASE j = n
    <2>1. C = F
      BY <1>0, <1>6, <1>7 DEF Ones
    <2>2. c[n] = "1" <=> f[n] = "1"
      BY <1>2, <1>3, <2>1
    <2> QED
      BY <1>0, <1>4, <1>5, <1>7, <2>2 DEF Bit
  <1>8. CASE j # n
    <2>1. c[n] = f[n]
      BY <1>0, <1>5, <1>8
    <2>2. j \in 1 .. n - 1
      BY <1>8, SMT
    <2>3. \A k \in 1 .. n - 1 : k # j => (k \in C <=> k \in F)
      BY <1>0, <1>6 DEF Ones
    <2>4. CASE c[j] = "1"
      <3>1. f[j] # "1"
        BY <1>4, <2>4
      <3>2. j \notin F /\ C = F \cup {j}
        BY <2>2, <2>3, <2>4, <3>1 DEF Ones
      <3>3. Cardinality(F) % 2 = 1 <=> Cardinality(C) % 2 # 1
        BY <1>3, <3>2, OneMore, Zenon
      <3> QED
        BY <1>2, <1>3, <2>1, <3>3
    <2>5. CASE c[j] # "1"
      <3>1. f[j] = "1"
        BY <1>0, <1>4, <2>5 DEF Bit
      <3>2. j \notin C /\ F = C \cup {j}
        BY <2>2, <2>3, <2>5, <3>1 DEF Ones
      <3>3. Cardinality(C) % 2 = 1 <=> Cardinality(F) % 2 # 1
        BY <1>2, <3>2, OneMore, Zenon
      <3> QED
        BY <1>2, <1>3, <2>1, <3>3
    <2> QED
      BY <2>4, <2>5
  <1> QED
    BY <1>7, <1>8

\* What the recording of a pulse can be.
Recorded == {"0", "1", "SYNC", "?"}

\* CharsBehind a true sync nothing is accepted but the frame, whatever one of its
\* pulses was disturbed into: a bit is told by the parity, a length outside the
\* windows is refused, and a sync only repeats a bit.
LEMMA AcceptedAtSync ==
    ASSUME NEW payload \in Payloads, NEW T, NEW i \in Nat, NEW b, NEW j \in 1 .. Size(payload),
           T[i + j] \in Recorded,
           \A k \in 1 .. Size(payload) : k # j => T[i + k] = Frame(payload)[k + 1],
           accepted(captured(T, i, Size(payload) + 1, b), Size(payload))
    PROVE  SubSeq(captured(T, i, Size(payload) + 1, b), 1, Size(payload)) = Tail(Frame(payload))
  <1> DEFINE n == Size(payload)
             f == Tail(Frame(payload))
             c == captured(T, i, n + 1, b)
             m == Len(sensor_id)
  <1>1. n \in Nat /\ n >= 2 /\ m \in Nat \ {0} /\ m <= n /\ sensor_id \in Seq(Bit)
    BY BitsLemma, PollAssumption, SMT DEF Size, Bit
  <1>2. /\ f \in Seq(Wire) /\ Len(f) = n
        /\ \A k \in 1 .. n : f[k] = Frame(payload)[k + 1] /\ f[k] \in Bit
        /\ \A k \in 1 .. m : f[k] = sensor_id[k]
        /\ crc(f, n)
    BY TailLemma
  <1> HIDE DEF n, f, m
  <1>3. n + 1 \in Nat /\ n \in Nat \ {0}
    BY <1>1, SMT
  <1>4. \A k \in 1 .. n : k # j => T[i + k] = f[k]
    BY <1>2 DEF n
  <1>5. PICK S : /\ c \in Seq(S) /\ Len(c) = n + 1
                 /\ \A k \in 1 .. n + 1 : Read(c, T, i, k, b)
    <2>1. Captures(c, T, i, n + 1, b)
      BY <1>3, CapturedLemma
    <2> HIDE DEF c
    <2> QED
      BY <2>1 DEF Captures
  <1> HIDE DEF c
  <1>6. accepted(c, n)
    BY DEF c, n
  <1>7. /\ \A k \in 1 .. n + 1 : c[k] # "?"
        /\ \A k \in 1 .. m : c[k] = sensor_id[k]
        /\ crc(c, n)
    BY <1>1, <1>3, <1>5, <1>6, AcceptedLemma DEF m
  <1>8. \A k \in 1 .. n : k \in 1 .. n + 1
    BY <1>1, SMT
  <1>9. ASSUME NEW k \in 1 .. n, k # j
        PROVE  c[k] = f[k]
    <2>1. Read(c, T, i, k, b) /\ T[i + k] = f[k] /\ f[k] \in Bit
      BY <1>2, <1>4, <1>5, <1>8, <1>9
    <2>2. f[k] # "SYNC"
      BY <2>1 DEF Bit
    <2> QED
      BY <2>1, <2>2 DEF Read
  <1>10. j \in 1 .. n
    BY DEF n
  <1>11. c[j] \in Bit
    <2>1. Read(c, T, i, j, b) /\ c[j] # "?"
      BY <1>5, <1>7, <1>8, <1>10
    <2>2. CASE j = 1
      <3>1. 1 \in 1 .. m
        BY <1>1, SMT
      <3>2. c[1] = f[1] /\ f[1] \in Bit
        BY <1>2, <1>7, <1>10, <2>2, <3>1
      <3> QED
        BY <2>2, <3>2
    <2>3. CASE j # 1
      <3>1. j > 1 /\ j - 1 \in 1 .. n /\ j - 1 # j /\ i + (j - 1) = i + j - 1
        BY <1>1, <1>10, <2>3, SMT
      <3>2. T[i + j - 1] = f[j - 1] /\ f[j - 1] \in Bit
        BY <1>2, <1>4, <3>1
      <3>3. T[i + j - 1] # "SYNC"
        BY <3>2 DEF Bit
      <3>4. CASE T[i + j] = "SYNC"
        BY <2>1, <3>1, <3>2, <3>3, <3>4 DEF Read
      <3>5. CASE T[i + j] # "SYNC"
        BY <2>1, <3>5 DEF Read, Recorded, Bit
      <3> QED
        BY <3>4, <3>5
    <2> QED
      BY <2>2, <2>3
  <1>12. \A k \in 1 .. n : c[k] \in Bit /\ f[k] \in Bit
    BY <1>2, <1>9, <1>11
  <1>13. n <= Len(c) /\ n <= Len(f)
    BY <1>1, <1>2, <1>5, SMT
  <1>14. \A k \in 1 .. n : c[k] = f[k]
    <2>1. OneOff(c, f, n, j)
      BY <1>9, <1>12 DEF OneOff
    <2>2. c \in Seq(S) /\ f \in Seq(Wire) /\ crc(c, n) /\ crc(f, n)
      BY <1>2, <1>5, <1>7
    <2> QED
      BY <1>3, <1>10, <1>13, <2>1, <2>2, ParityLemma DEF Same
  <1> DEFINE d == SubSeq(c, 1, n)
  <1>15. d \in Seq(Bit) /\ Len(d) = n /\ \A k \in 1 .. n : d[k] = c[k]
    <2>1. /\ d \in Seq(Bit) /\ Len(d) = IF 1 <= n THEN n - 1 + 1 ELSE 0
          /\ \A k \in 1 .. n - 1 + 1 : d[k] = c[1 + k - 1]
      BY <1>1, <1>12, SubSeqProperties
    <2> HIDE DEF d
    <2> QED
      BY <1>1, <2>1, SMT
  <1> HIDE DEF d
  <1>16. d = f
    <2>1. d = [k \in 1 .. n |-> d[k]] /\ f = [k \in 1 .. n |-> f[k]]
      BY <1>2, <1>15, LenProperties
    <2> QED
      BY <1>14, <1>15, <2>1
  <1> QED
    BY <1>16 DEF c, d, f, n

\* An undisturbed frame between its two syncs is accepted.
LEMMA IntactAccepted ==
    ASSUME NEW payload \in Payloads, NEW T, NEW i \in Nat, NEW b,
           \A k \in 1 .. Size(payload) : T[i + k] = Frame(payload)[k + 1],
           T[i + Size(payload) + 1] = "SYNC"
    PROVE  accepted(captured(T, i, Size(payload) + 1, b), Size(payload))
  <1> DEFINE n == Size(payload)
             f == Tail(Frame(payload))
             c == captured(T, i, n + 1, b)
             m == Len(sensor_id)
  <1>1. n \in Nat /\ n >= 2 /\ m \in Nat \ {0} /\ m <= n /\ sensor_id \in Seq(Bit)
    BY BitsLemma, PollAssumption, SMT DEF Size, Bit
  <1>2. /\ f \in Seq(Wire) /\ Len(f) = n
        /\ \A k \in 1 .. n : f[k] = Frame(payload)[k + 1] /\ f[k] \in Bit
        /\ \A k \in 1 .. m : f[k] = sensor_id[k]
        /\ crc(f, n)
    BY TailLemma
  <1> HIDE DEF n, f, m
  <1>3. n + 1 \in Nat /\ n \in Nat \ {0} /\ n \in 1 .. n /\ n + 1 \in 1 .. n + 1 /\ n + 1 > 1
    BY <1>1, SMT
  <1>4. /\ \A k \in 1 .. n : T[i + k] = f[k]
        /\ T[i + n + 1] = "SYNC"
    BY <1>2 DEF n
  <1>5. PICK S : /\ c \in Seq(S) /\ Len(c) = n + 1
                 /\ \A k \in 1 .. n + 1 : Read(c, T, i, k, b)
    <2>1. Captures(c, T, i, n + 1, b)
      BY <1>3, CapturedLemma
    <2> HIDE DEF c
    <2> QED
      BY <2>1 DEF Captures
  <1> HIDE DEF c
  <1>6. ASSUME NEW k \in 1 .. n
        PROVE  c[k] = f[k] /\ c[k] \in Bit
    <2>1. k \in 1 .. n + 1
      BY <1>1, SMT
    <2>2. Read(c, T, i, k, b) /\ T[i + k] = f[k] /\ f[k] \in Bit
      BY <1>2, <1>4, <1>5, <2>1
    <2>3. f[k] # "SYNC"
      BY <2>2 DEF Bit
    <2> QED
      BY <2>2, <2>3 DEF Read
  <1>7. c[n + 1] \in Bit
    <2>1. Read(c, T, i, n + 1, b) /\ T[i + n] = f[n] /\ f[n] \in Bit
      BY <1>2, <1>3, <1>4, <1>5
    <2>2. i + (n + 1) = i + n + 1 /\ i + (n + 1) - 1 = i + n
      BY <1>1, SMT
    <2>3. f[n] # "SYNC"
      BY <2>1 DEF Bit
    <2> QED
      BY <1>3, <1>4, <2>1, <2>2, <2>3 DEF Read
  <1>8. \A k \in 1 .. n + 1 : c[k] # "?"
    <2>1. ASSUME NEW k \in 1 .. n + 1
          PROVE  c[k] # "?"
      <3>1. k \in 1 .. n \/ k = n + 1
        BY <1>1, SMT
      <3> QED
        BY <1>6, <1>7, <3>1 DEF Bit
    <2> QED
      BY <2>1
  <1>9. \A k \in 1 .. m : c[k] = sensor_id[k]
    <2>1. \A k \in 1 .. m : k \in 1 .. n
      BY <1>1, SMT
    <2> QED
      BY <1>2, <1>6, <2>1
  <1>10. crc(c, n)
    <2>1. n - 1 \in Nat /\ n - 1 <= Len(c) /\ n - 1 <= Len(f)
      BY <1>1, <1>2, <1>5, SMT
    <2>2. \A k \in 1 .. n - 1 : k \in 1 .. n
      BY <1>1, SMT
    <2>3. Ones(c, n - 1) = Ones(f, n - 1)
      BY <1>6, <2>2 DEF Ones
    <2>4. Odd(SubSeq(c, 1, n - 1)) <=> Odd(SubSeq(f, 1, n - 1))
      <3>1. Odd(SubSeq(c, 1, n - 1)) <=> Cardinality(Ones(c, n - 1)) % 2 = 1
        BY <1>5, <2>1, OnesLemma
      <3>2. Odd(SubSeq(f, 1, n - 1)) <=> Cardinality(Ones(f, n - 1)) % 2 = 1
        BY <1>2, <2>1, OnesLemma
      <3> QED
        BY <2>3, <3>1, <3>2, Zenon
    <2> QED
      BY <1>2, <1>3, <1>6, <2>4 DEF crc
  <1>11. accepted(c, n)
    BY <1>1, <1>3, <1>5, <1>8, <1>9, <1>10, AcceptedLemma DEF m
  <1> QED
    BY <1>11 DEF c, n

\* Two frames, one behind the other.
LEMMA TwiceLemma ==
    ASSUME NEW payload \in Payloads, NEW p \in 1 .. 2 * (Size(payload) + 1)
    PROVE  (Frame(payload) \o Frame(payload))[p]
              = IF p <= Size(payload) + 1 THEN Frame(payload)[p]
                ELSE Frame(payload)[p - (Size(payload) + 1)]
  <1>1. Frame(payload) \in Seq(Wire) /\ Len(Frame(payload)) = Size(payload) + 1
    BY FrameLemma
  <1>2. Size(payload) \in Nat
    BY BitsLemma
  <1>3. p \in 1 .. (Size(payload) + 1) + (Size(payload) + 1)
    BY <1>2, SMT
  <1> DEFINE F == Frame(payload)
             N == Size(payload) + 1
  <1> HIDE DEF F, N
  <1>4. \A q \in 1 .. Len(F) + Len(F) :
           (F \o F)[q] = IF q <= Len(F) THEN F[q] ELSE F[q - Len(F)]
    BY <1>1, ConcatProperties DEF F
  <1>5. Len(F) = N /\ p \in 1 .. N + N
    BY <1>1, <1>3 DEF F, N
  <1>6. (F \o F)[p] = IF p <= N THEN F[p] ELSE F[p - N]
    BY <1>4, <1>5
  <1> QED
    BY <1>6 DEF F, N

\* Among the pulses behind another one than the sync, as many as the identity
\* has, the sync is not followed by a second one.
LEMMA OneSync ==
    ASSUME NEW payload \in Payloads, NEW j \in 2 .. Size(payload) + 1,
           NEW k \in 2 .. Len(sensor_id),
           (Frame(payload) \o Frame(payload))[j + k] = "SYNC"
    PROVE  (Frame(payload) \o Frame(payload))[j + k - 1] \in Bit
  <1> DEFINE F == Frame(payload)
             D == F \o F
             n == Size(payload)
  <1>1. n \in Nat /\ n >= 2 /\ Len(sensor_id) \in Nat /\ Len(sensor_id) <= n
    BY BitsLemma, SMT DEF Size
  <1>2. /\ F[1] = "SYNC" /\ \A q \in 1 .. n : F[q + 1] \in Bit
    BY FrameLemma, TailLemma
  <1> HIDE DEF n
  <1>3. j + k \in 1 .. 2 * (n + 1) /\ j + k - 1 \in 1 .. 2 * (n + 1) /\ j + k > 3
    BY <1>1, SMT DEF n
  <1>4. \A p \in 1 .. 2 * (n + 1) : D[p] = IF p <= n + 1 THEN F[p] ELSE F[p - (n + 1)]
    BY TwiceLemma, Zenon DEF n
  <1> HIDE DEF F, D
  <1>5. \A q \in 2 .. n + 1 : F[q] \in Bit /\ F[q] # "SYNC"
    <2>1. ASSUME NEW q \in 2 .. n + 1
          PROVE  F[q] \in Bit
      <3>1. q - 1 \in 1 .. n /\ (q - 1) + 1 = q
        BY <1>1, SMT
      <3> QED
        BY <1>2, <3>1
    <2> QED
      BY <2>1 DEF Bit
  <1>6. j + k = n + 2
    <2>1. D[j + k] = "SYNC"
      BY DEF D, F
    <2>2. CASE j + k <= n + 1
      <3>1. j + k \in 2 .. n + 1
        BY <1>1, <1>3, <2>2, SMT
      <3> QED
        <4>1. D[j + k] = F[j + k]
          BY <1>3, <1>4, <2>2
        <4> QED
          BY <1>5, <2>1, <3>1, <4>1
    <2>3. CASE j + k > n + 2
      <3>1. j + k - (n + 1) \in 2 .. n + 1 /\ ~(j + k <= n + 1)
        BY <1>1, <1>3, <2>3, SMT
      <3> QED
        <4>1. PICK p \in 1 .. 2 * (n + 1) : p = j + k
          BY <1>3
        <4>2. ~(p <= n + 1) /\ p - (n + 1) \in 2 .. n + 1
          BY <1>1, <1>3, <2>3, <4>1, SMT
        <4>3. D[p] = F[p - (n + 1)]
          BY <1>4, <4>2
        <4> QED
          BY <1>5, <2>1, <4>1, <4>2, <4>3
    <2> QED
      BY <1>1, <1>3, <2>2, <2>3, SMT
  <1>7. j + k - 1 <= n + 1 /\ j + k - 1 \in 2 .. n + 1
    BY <1>1, <1>6, SMT
  <1>8. D[j + k - 1] \in Bit
    BY <1>3, <1>4, <1>5, <1>7
  <1> QED
    BY <1>8 DEF D, F

\* CharsBehind a pulse that was disturbed into a sync the identity is not read.
LEMMA FalseSync ==
    ASSUME NEW payload \in Payloads, IdentityOnce(payload), NEW T, NEW i \in Nat, NEW b,
           NEW j \in 2 .. Size(payload) + 1,
           \A k \in 1 .. Len(sensor_id) : T[i + k] = (Frame(payload) \o Frame(payload))[j + k]
    PROVE  ~accepted(captured(T, i, Size(payload) + 1, b), Size(payload))
  <1> DEFINE n == Size(payload)
             m == Len(sensor_id)
             D == Frame(payload) \o Frame(payload)
             c == captured(T, i, n + 1, b)
             a == IF b \in Bit THEN b ELSE "0"
             e == captured(D, j, m, a)
  <1>1. /\ n \in Nat /\ n >= 2 /\ m \in Nat \ {0} /\ m <= n
        /\ sensor_id \in Seq(Bit) /\ sensor_id = [k \in 1 .. m |-> sensor_id[k]]
    <2>1. /\ n \in Nat /\ n >= 2 /\ m \in Nat \ {0} /\ m <= n /\ sensor_id \in Seq(Bit)
      BY BitsLemma, PollAssumption, SMT DEF Size, Bit
    <2> QED
      BY <2>1, LenProperties
  <1>2. e # sensor_id
    <2>1. Len(Frame(payload)) = n + 1
      BY FrameLemma
    <2>2. a \in {"0", "1"}
      BY DEF Bit
    <2> HIDE DEF a
    <2> QED
      BY <2>1, <2>2 DEF IdentityOnce
  <1>3. a \in Bit /\ (b \in Bit => a = b)
    BY DEF Bit
  <1> HIDE DEF a, n, m
  <1>4. SUFFICES ASSUME accepted(c, n)
                 PROVE  FALSE
    BY DEF c, n
  <1>5. n + 1 \in Nat /\ n \in Nat \ {0} /\ j \in Nat /\ m \in Nat
    BY <1>1, SMT
  <1>6. PICK S : /\ c \in Seq(S) /\ Len(c) = n + 1
                 /\ \A k \in 1 .. n + 1 : Read(c, T, i, k, b)
    <2>1. Captures(c, T, i, n + 1, b)
      BY <1>5, CapturedLemma
    <2> HIDE DEF c
    <2> QED
      BY <2>1 DEF Captures
  <1>7. /\ e = [k \in 1 .. m |-> e[k]]
        /\ \A k \in 1 .. m : Read(e, D, j, k, a)
    <2>1. Captures(e, D, j, m, a)
      BY <1>5, CapturedLemma
    <2> HIDE DEF e
    <2>2. PICK R : e \in Seq(R) /\ Len(e) = m
      BY <2>1 DEF Captures
    <2> QED
      BY <2>1, <2>2, LenProperties DEF Captures
  <1> HIDE DEF c, e
  <1>8. \A k \in 1 .. m : c[k] = sensor_id[k]
    BY <1>1, <1>4, <1>5, <1>6, AcceptedLemma DEF m
  <1>9. \A k \in 1 .. m : T[i + k] = D[j + k]
    BY DEF m, D
  <1>10. ASSUME NEW k \in 1 .. m
         PROVE  e[k] = c[k]
    <2>1. k \in 1 .. n + 1
      BY <1>1, SMT
    <2>2. Read(c, T, i, k, b) /\ Read(e, D, j, k, a) /\ T[i + k] = D[j + k]
      BY <1>6, <1>7, <1>9, <2>1
    <2>3. CASE D[j + k] # "SYNC"
      BY <2>2, <2>3 DEF Read
    <2>4. CASE D[j + k] = "SYNC" /\ k = 1
      <3>1. c[k] = b /\ e[k] = a
        BY <2>2, <2>4 DEF Read
      <3>2. c[k] \in Bit
        BY <1>1, <1>8, ElementOfSeq DEF m
      <3> QED
        BY <1>3, <3>1, <3>2
    <2>5. CASE D[j + k] = "SYNC" /\ k # 1
      <3>1. k \in 2 .. m /\ k > 1 /\ k - 1 \in 1 .. m
        BY <1>1, <2>5, SMT
      <3>2. D[j + k - 1] \in Bit
        BY <2>5, <3>1, OneSync DEF n, m, D
      <3>3. D[j + k - 1] # "SYNC"
        BY <3>2 DEF Bit
      <3>4. T[i + (k - 1)] = D[j + (k - 1)]
        BY <1>9, <3>1
      <3>5. i + (k - 1) = i + k - 1 /\ j + (k - 1) = j + k - 1
        BY <1>1, SMT
      <3> QED
        BY <2>2, <2>5, <3>1, <3>3, <3>4, <3>5 DEF Read
    <2> QED
      BY <2>3, <2>4, <2>5
  <1>11. e = sensor_id
    BY <1>1, <1>7, <1>8, <1>10
  <1> QED
    BY <1>2, <1>11

\* A number of the form n * q + r, r below n, has these two parts.
LEMMA ModUnique ==
    ASSUME NEW n \in Nat \ {0}, NEW q \in Nat, NEW r \in 0 .. n - 1
    PROVE  (n * q + r) % n = r
  BY SMT

\* And every number is of that form.
LEMMA ModParts ==
    ASSUME NEW n \in Nat \ {0}, NEW x \in Nat
    PROVE  x % n \in 0 .. n - 1 /\ \E q \in Nat : x = n * q + (x % n)
  <1>1. x % n \in 0 .. n - 1 /\ x \div n \in Nat /\ x = n * (x \div n) + (x % n)
    BY SMT
  <1> QED
    BY <1>1

\* The remainder of a number k further on.
LEMMA ModAdd ==
    ASSUME NEW n \in Nat \ {0}, NEW x \in Nat, NEW k \in 0 .. n
    PROVE  /\ x % n \in 0 .. n - 1
           /\ (x + k) % n = IF (x % n) + k < n THEN (x % n) + k ELSE (x % n) + k - n
  <1>1. PICK q \in Nat : x = n * q + (x % n)
    BY ModParts
  <1>2. PICK r \in 0 .. n - 1 : r = x % n
    BY ModParts
  <1>3. x + k = (n * q + r) + k
    BY <1>1, <1>2
  <1>4. CASE r + k < n
    <2>1. r + k \in 0 .. n - 1
      BY <1>4, SMT
    <2>2. (n * q + (r + k)) % n = r + k
      BY <2>1, ModUnique
    <2>3. (n * q + r) + k = n * q + (r + k)
      <3>1. PICK y \in Nat : y = n * q
        BY SMT
      <3> QED
        BY <3>1, SMT
    <2> QED
      BY <1>2, <1>3, <1>4, <2>2, <2>3
  <1>5. CASE ~(r + k < n)
    <2>1. r + k - n \in 0 .. n - 1 /\ q + 1 \in Nat
      BY <1>5, SMT
    <2>2. (n * (q + 1) + (r + k - n)) % n = r + k - n
      BY <2>1, ModUnique
    <2>3. (n * q + r) + k = n * (q + 1) + (r + k - n)
      <3>1. PICK y \in Nat : y = n * q /\ n * (q + 1) = y + n
        BY SMT
      <3> QED
        BY <3>1, SMT
    <2> QED
      BY <1>2, <1>3, <1>5, <2>2, <2>3
  <1>6. x % n \in 0 .. n - 1
    BY ModParts
  <1> QED
    BY <1>2, <1>4, <1>5, <1>6

\* Which pulse of a frame of n pulses is recorded at i, if the recording
\* begins with the pulse `start'.
Place(start, i, n) == ((start + i - 2) % n) + 1

\* The place k pulses further on, around the end of the frame once at most.
LEMMA PlaceLemma ==
    ASSUME NEW n \in Nat \ {0}, NEW start \in 1 .. n, NEW i \in Nat \ {0}, NEW k \in 0 .. n
    PROVE  /\ Place(start, i, n) \in 1 .. n
           /\ Place(start, i + k, n) = IF Place(start, i, n) + k <= n THEN Place(start, i, n) + k
                                       ELSE Place(start, i, n) + k - n
  <1> DEFINE x == start + i - 2
  <1>1. x \in Nat /\ start + (i + k) - 2 = x + k
    BY SMT
  <1> HIDE DEF x
  <1>2. PICK r \in 0 .. n - 1 : /\ r = x % n
                                /\ (x + k) % n = IF r + k < n THEN r + k ELSE r + k - n
    BY <1>1, ModAdd
  <1>3. Place(start, i, n) = r + 1 /\ Place(start, i + k, n) = ((x + k) % n) + 1
    BY <1>1, <1>2 DEF Place, x
  <1> QED
    BY <1>2, <1>3, SMT

\* The first sync of a recording.
LEMMA FirstSync ==
    ASSUME NEW n \in Nat, n >= 2, NEW start \in 1 .. n
    PROVE  \E i \in 1 .. n : Place(start, i, n) = 1
  <1>1. CASE start = 1
    <2>1. 0 % n = 0 /\ 1 \in 1 .. n /\ start + 1 - 2 = 0
      BY <1>1, SMT
    <2> QED
      BY <2>1 DEF Place
  <1>2. CASE start # 1
    <2> DEFINE i == n - start + 2
    <2>1. i \in 1 .. n /\ start + i - 2 = n
      BY <1>2, SMT
    <2>2. n % n = 0
      BY SMT
    <2> HIDE DEF i
    <2> QED
      BY <2>1, <2>2 DEF Place
  <1> QED
    BY <1>1, <1>2

\* A recording of the repeated frame, at most one of its pulses disturbed.
Heard1(T, payload, start, at, pulse) ==
    \A i \in 1 .. buffer_size :
       T[i] = IF i = at THEN pulse ELSE Frame(payload)[Place(start, i, Size(payload) + 1)]

\* What search() looks through: the syncs with room for a frame, of them those
\* an accepted frame follows; h[i - 1] is the character left when it gets to i.
Syncs(T, n) == {i \in 1 .. buffer_size - n - 1 : T[i] = "SYNC"}
CharsBehind(T, i, n, h) == captured(T, i, n + 1, h[i - 1])
Found(T, n, h) == {i \in Syncs(T, n) : accepted(CharsBehind(T, i, n, h), n)}

\* search() returns what is behind the first of them.
LEMMA SearchLemma ==
    ASSUME NEW T, NEW n, NEW b
    PROVE  \E h : search(T, n, b) =
                     IF Found(T, n, h) = {} THEN <<>>
                     ELSE SubSeq(CharsBehind(T, Min(Found(T, n, h)), n, h), 1, n)
  <1> DEFINE left[i \in 0 .. buffer_size] ==
                IF i = 0 THEN b
                ELSE IF i \in Syncs(T, n) THEN captured(T, i, n + 1, left[i - 1])[n + 1]
                ELSE left[i - 1]
  <1>1. search(T, n, b) =
           IF Found(T, n, left) = {} THEN <<>>
           ELSE SubSeq(CharsBehind(T, Min(Found(T, n, left)), n, left), 1, n)
    BY DEF search, Found, Syncs, CharsBehind
  <1> HIDE DEF left
  <1> QED
    BY <1>1

\* CharsBehind the last pulse of a frame of n pulses comes the first.
Around(p, n) == IF p <= n THEN p ELSE p - n

\* The pulses recorded behind i are those of the frame from the one at i on.
LEMMA RecordedAsSent ==
    ASSUME NEW payload \in Payloads, NEW start \in 1 .. Size(payload) + 1, NEW T, NEW at, NEW pulse,
           Heard1(T, payload, start, at, pulse),
           NEW i \in 1 .. buffer_size, NEW k \in 0 .. Size(payload) + 1,
           i + k <= buffer_size, i + k # at
    PROVE  LET p == Place(start, i, Size(payload) + 1)
           IN  T[i + k] = Frame(payload)[Around(p + k, Size(payload) + 1)]
  <1> DEFINE N == Size(payload) + 1
  <1>1. N \in Nat \ {0} /\ i \in Nat \ {0} /\ buffer_size \in Nat
    <2>1. Size(payload) \in Nat /\ buffer_size \in Nat
      BY BitsLemma
    <2> QED
      BY <2>1, SMT
  <1>2. start \in 1 .. N /\ k \in 0 .. N
    OBVIOUS
  <1> HIDE DEF N
  <1>3. Place(start, i + k, N) = Around(Place(start, i, N) + k, N)
    <2>1. PICK p \in 1 .. N :
             /\ p = Place(start, i, N)
             /\ Place(start, i + k, N) = IF p + k <= N THEN p + k ELSE p + k - N
      BY <1>1, <1>2, PlaceLemma
    <2>2. Place(start, i + k, N) = Around(p + k, N)
      BY <1>1, <1>2, <2>1 DEF Around
    <2> QED
      BY <2>1, <2>2
  <1>4. i + k \in 1 .. buffer_size
    BY <1>1, <1>2, SMT
  <1>5. T[i + k] = Frame(payload)[Place(start, i + k, N)]
    BY <1>4, Zenon DEF Heard1, N
  <1> QED
    BY <1>3, <1>5, Zenon DEF N

\* Of a recording of four frames a frame between its two syncs is whole.
LEMMA OneIsWhole ==
    ASSUME NEW payload \in Payloads, NEW start \in 1 .. Size(payload) + 1, NEW at \in Nat
    PROVE  \E i \in 1 .. 3 * (Size(payload) + 1) :
              /\ Place(start, i, Size(payload) + 1) = 1
              /\ at \notin i .. i + Size(payload) + 1
  <1>1. PICK N \in Nat : N = Size(payload) + 1 /\ N >= 3
    BY BitsLemma, SMT
  <1>2. PICK i \in 1 .. N : Place(start, i, N) = 1
    BY <1>1, FirstSync, SMT
  <1>3. Place(start, (i + N) + N, N) = 1
    <2>1. N \in Nat \ {0} /\ N \in 0 .. N /\ start \in 1 .. N /\ 1 + N - N = 1 /\ ~(1 + N <= N)
      BY <1>1, SMT
    <2>2. ASSUME NEW j \in Nat \ {0}, Place(start, j, N) = 1
          PROVE  Place(start, j + N, N) = 1
      <3>1. Place(start, j + N, N) = IF Place(start, j, N) + N <= N THEN Place(start, j, N) + N
                                     ELSE Place(start, j, N) + N - N
        BY <2>1, PlaceLemma
      <3> QED
        BY <2>1, <2>2, <3>1
    <2>3. i \in Nat \ {0} /\ i + N \in Nat \ {0}
      BY <1>1, <1>2, SMT
    <2> QED
      BY <1>2, <2>2, <2>3
  <1>4. CASE at \in i .. i + N
    <2> DEFINE j == (i + N) + N
    <2>1. j \in 1 .. 3 * N /\ at \notin j .. j + N
      BY <1>1, <1>4, SMT
    <2>2. Place(start, j, N) = 1
      BY <1>3
    <2> HIDE DEF j
    <2>3. Size(payload) \in Nat
      BY BitsLemma
    <2>4. j + Size(payload) + 1 = j + N
      BY <1>1, <2>1, <2>3, SMT
    <2> QED
      BY <1>1, <2>1, <2>2, <2>4
  <1>5. CASE at \notin i .. i + N
    <2>1. Size(payload) \in Nat
      BY BitsLemma
    <2>2. i \in 1 .. 3 * N /\ i + Size(payload) + 1 = i + N
      BY <1>1, <1>2, <2>1, SMT
    <2> QED
      BY <1>1, <1>2, <1>5, <2>2
  <1> QED
    BY <1>4, <1>5

\* So search() finds something.
LEMMA SomethingIsFound ==
    ASSUME NEW payload \in Payloads, NEW start \in 1 .. Size(payload) + 1, NEW T, NEW at \in Nat,
           NEW pulse, Heard1(T, payload, start, at, pulse), NEW h
    PROVE  Found(T, Size(payload), h) # {}
  <1> DEFINE n == Size(payload)
             F == Frame(payload)
  <1>1. n \in Nat /\ n >= 2 /\ buffer_size \in Nat /\ buffer_size >= 4 * (n + 1)
    BY BitsLemma
  <1>2. F[1] = "SYNC"
    BY FrameLemma
  <1>3. PICK i \in 1 .. 3 * (n + 1) : Place(start, i, n + 1) = 1 /\ at \notin i .. i + n + 1
    BY OneIsWhole
  <1> HIDE DEF n
  <1>4. /\ i \in Nat /\ i \in 1 .. buffer_size /\ i \in 1 .. buffer_size - n - 1
        /\ i + (n + 1) <= buffer_size /\ 0 \in 0 .. n + 1 /\ n + 1 \in 0 .. n + 1
        /\ i + 0 = i /\ i + (n + 1) = i + n + 1 /\ i # at /\ i + n + 1 # at
        /\ 1 + 0 <= n + 1 /\ 1 + 0 = 1 /\ ~(1 + (n + 1) <= n + 1) /\ 1 + (n + 1) - (n + 1) = 1
    BY <1>1, <1>3, SMT
  <1>5. ASSUME NEW k \in 0 .. n + 1
        PROVE  T[i + k] = F[Around(1 + k, n + 1)]
    <2>1. i + k <= buffer_size /\ i + k # at
      BY <1>1, <1>3, <1>4, SMT
    <2> QED
      BY <1>3, <1>4, <2>1, RecordedAsSent DEF n
  <1>6. T[i] = "SYNC" /\ T[i + n + 1] = "SYNC"
    <2>1. T[i + 0] = F[1]
      BY <1>4, <1>5 DEF Around
    <2>2. T[i + (n + 1)] = F[1]
      BY <1>4, <1>5 DEF Around
    <2> QED
      BY <1>2, <1>4, <2>1, <2>2
  <1>7. \A k \in 1 .. n : T[i + k] = F[k + 1]
    <2>1. ASSUME NEW k \in 1 .. n
          PROVE  T[i + k] = F[k + 1]
      <3>1. k \in 0 .. n + 1 /\ 1 + k <= n + 1 /\ 1 + k = k + 1
        BY <1>1, SMT
      <3> QED
        BY <1>5, <3>1 DEF Around
    <2> QED
      BY <2>1
  <1>8. accepted(CharsBehind(T, i, n, h), n)
    BY <1>4, <1>6, <1>7, IntactAccepted DEF n, CharsBehind
  <1>9. i \in Found(T, n, h)
    BY <1>4, <1>6, <1>8 DEF Found, Syncs
  <1> QED
    BY <1>9 DEF n

\* And what it finds behind any sync, the first or another, is the frame.
LEMMA NothingElseIsFound ==
    ASSUME NEW payload \in Payloads, IdentityOnce(payload), NEW start \in 1 .. Size(payload) + 1,
           NEW T, NEW at \in Nat, NEW pulse \in Recorded, Heard1(T, payload, start, at, pulse),
           NEW h, NEW i \in Found(T, Size(payload), h)
    PROVE  SubSeq(CharsBehind(T, i, Size(payload), h), 1, Size(payload)) = Tail(Frame(payload))
  <1> DEFINE n == Size(payload)
             F == Frame(payload)
             m == Len(sensor_id)
             p == Place(start, i, n + 1)
  <1>1. /\ n \in Nat /\ n >= 2 /\ buffer_size \in Nat /\ buffer_size >= 4 * (n + 1)
        /\ m \in Nat /\ m <= n
    BY BitsLemma, SMT DEF Size
  <1>2. /\ F[1] = "SYNC" /\ \A q \in 1 .. n : F[q + 1] \in Bit
    BY FrameLemma, TailLemma
  <1>3. i \in 1 .. buffer_size - n - 1 /\ T[i] = "SYNC" /\ accepted(CharsBehind(T, i, n, h), n)
    BY DEF Found, Syncs
  <1> HIDE DEF n, m
  <1>4. /\ i \in Nat /\ i \in Nat \ {0} /\ i \in 1 .. buffer_size /\ i + n + 1 <= buffer_size
        /\ n + 1 \in Nat \ {0} /\ 0 \in 0 .. n + 1
    BY <1>1, <1>3, SMT
  <1>5. p \in 1 .. n + 1
    BY <1>4, PlaceLemma DEF n
  <1> HIDE DEF p
  <1>6. ASSUME NEW k \in 0 .. n + 1, i + k # at
        PROVE  T[i + k] = F[Around(p + k, n + 1)]
    <2>1. i + k <= buffer_size
      BY <1>1, <1>4, SMT
    <2> QED
      BY <1>4, <1>6, <2>1, RecordedAsSent DEF n, p
  <1>7. CASE p = 1
    <2> DEFINE j == IF at \in i + 1 .. i + n THEN at - i ELSE 1
    <2>1. j \in 1 .. n
      BY <1>1, <1>4, SMT
    <2>2. ASSUME NEW k \in 1 .. n, i + k # at
          PROVE  T[i + k] = F[k + 1]
      <3>1. k \in 0 .. n + 1 /\ p + k <= n + 1 /\ p + k = k + 1
        BY <1>1, <1>7, SMT
      <3> QED
        BY <1>6, <2>2, <3>1 DEF Around
    <2>3. \A k \in 1 .. n : k # j => T[i + k] = F[k + 1]
      <3>1. \A k \in 1 .. n : k # j => i + k # at
        BY <1>1, <1>4, SMT
      <3> QED
        BY <2>2, <3>1
    <2>4. T[i + j] \in Recorded
      <3>1. i + j \in 1 .. buffer_size
        BY <1>1, <1>4, <2>1, SMT
      <3> HIDE DEF j
      <3>2. CASE i + j = at
        <4>1. T[i + j] = pulse
          BY <3>1, <3>2 DEF Heard1
        <4> QED
          BY <4>1
      <3>3. CASE i + j # at
        <4>1. T[i + j] \in Bit
          BY <1>2, <2>1, <2>2, <3>3
        <4> QED
          BY <4>1 DEF Bit, Recorded
      <3> QED
        BY <3>2, <3>3
    <2> HIDE DEF j
    <2> QED
      BY <1>3, <1>4, <2>1, <2>3, <2>4, AcceptedAtSync DEF n, CharsBehind
  <1>8. CASE p # 1
    <2>1. i = at
      <3>1. SUFFICES ASSUME i # at
                     PROVE  FALSE
        OBVIOUS
      <3>2. i + 0 = i /\ p + 0 <= n + 1 /\ p + 0 = p /\ p - 1 \in 1 .. n /\ (p - 1) + 1 = p
        BY <1>1, <1>4, <1>5, <1>8, SMT
      <3>3. T[i] = F[p]
        BY <1>4, <1>6, <3>1, <3>2 DEF Around
      <3>4. F[p] \in Bit
        BY <1>2, <3>2
      <3> QED
        BY <1>3, <3>3, <3>4 DEF Bit
    <2>2. p \in 2 .. n + 1
      BY <1>1, <1>5, <1>8, SMT
    <2>3. ASSUME NEW k \in 1 .. m
          PROVE  T[i + k] = (F \o F)[p + k]
      <3>1. k \in 0 .. n + 1 /\ i + k # at /\ p + k \in 1 .. 2 * (n + 1)
        BY <1>1, <1>4, <1>5, <2>1, SMT
      <3>2. PICK q \in 1 .. 2 * (n + 1) : q = p + k
        BY <3>1
      <3>3. (F \o F)[q] = F[Around(q, n + 1)]
        BY TwiceLemma DEF n, Around
      <3>4. T[i + k] = F[Around(q, n + 1)]
        BY <1>6, <3>1, <3>2
      <3> QED
        BY <3>2, <3>3, <3>4, Zenon
    <2>4. ~accepted(CharsBehind(T, i, n, h), n)
      BY <1>4, <2>2, <2>3, FalseSync DEF n, m, CharsBehind
    <2> QED
      BY <1>3, <2>4
  <1> QED
    BY <1>7, <1>8

\* Whatever character an earlier search left, search() returns the frame.
LEMMA SearchFinds ==
    ASSUME NEW payload \in Payloads, IdentityOnce(payload), NEW start \in 1 .. Size(payload) + 1,
           NEW T, NEW at \in Nat, NEW pulse \in Recorded, Heard1(T, payload, start, at, pulse), NEW b
    PROVE  search(T, Size(payload), b) = Tail(Frame(payload))
  <1> DEFINE n == Size(payload)
  <1>1. PICK h : search(T, n, b) =
                    IF Found(T, n, h) = {} THEN <<>>
                    ELSE SubSeq(CharsBehind(T, Min(Found(T, n, h)), n, h), 1, n)
    BY SearchLemma
  <1> DEFINE S == Found(T, n, h)
  <1>2. S # {}
    BY SomethingIsFound
  <1>3. S \subseteq Nat
    <2>1. n \in Nat /\ buffer_size \in Nat
      BY BitsLemma
    <2> HIDE DEF n
    <2> QED
      BY <2>1, SMT DEF Found, Syncs
  <1>4. Min(S) \in S
    <2> HIDE DEF S
    <2>1. \E x \in S : \A y \in S : x <= y
      BY <1>2, <1>3, LeastLemma
    <2> QED
      BY <2>1, Zenon DEF Min
  <1>5. SubSeq(CharsBehind(T, Min(S), n, h), 1, n) = Tail(Frame(payload))
    BY <1>4, NothingElseIsFound
  <1> QED
    BY <1>1, <1>2, <1>5

\* The inductive invariant: what was sent is one of the recordings PollInit
\* begins with, and what was heard of it is undisturbed but for one pulse.
SentInv ==
    /\ sent.type = "radio" /\ sent.payload \in Payloads
    /\ sent.start \in 1 .. Size(sent.payload) + 1
    /\ sent.at \in Nat /\ sent.pulse \in Recorded \cup {"out"}
HeardInv ==
    heard # Nothing /\ sent.pulse # "out"
    => Heard1(heard, sent.payload, sent.start, sent.at, sent.pulse)
PollInv == SentInv /\ HeardInv /\ FrameIsFound

\* A recording begins as the invariant says, with nothing heard.
LEMMA PollInvInit == PollInit => PollInv
  <1> SUFFICES ASSUME PollInit
               PROVE  PollInv
    OBVIOUS
  <1>0. PICK payload \in Payloads :
          \E start \in 1 .. Len(Frame(payload)) :
             \E at \in 0 .. buffer_size, pulse \in {"0", "1", "SYNC", "?", "out"} :
                sent = [type |-> "radio", payload |-> payload, start |-> start,
                        at |-> at, pulse |-> pulse]
    BY DEF PollInit
  <1>1. PICK start \in 1 .. Len(Frame(payload)), at \in 0 .. buffer_size,
             pulse \in {"0", "1", "SYNC", "?", "out"} :
          sent = [type |-> "radio", payload |-> payload, start |-> start,
                  at |-> at, pulse |-> pulse]
    BY <1>0
  <1>2. Len(Frame(payload)) = Size(payload) + 1
    BY FrameLemma
  <1>3. at \in Nat
    BY BitsLemma, SMT
  <1>4. SentInv
    BY <1>1, <1>2, <1>3 DEF SentInv, Recorded
  <1>5. heard = Nothing /\ result = Nothing
    BY DEF PollInit
  <1> QED
    BY <1>4, <1>5 DEF PollInv, HeardInv, FrameIsFound

\* What Capture() records of a frame that is not cut short.
LEMMA CaptureHears ==
    ASSUME SentInv, Capture, sent.pulse # "out"
    PROVE  Heard1(heard', sent.payload, sent.start, sent.at, sent.pulse)
  <1> DEFINE frame == Frame(sent.payload)
             N == Size(sent.payload) + 1
             B == buffer_size
             line == [i \in 1 .. B + 1 |-> IF i = sent.at THEN sent.pulse
                                           ELSE frame[((sent.start + i - 2) % Len(frame)) + 1]]
  <1>1. B \in Nat /\ Len(frame) = N
    BY BitsLemma, FrameLemma DEF SentInv
  <1>2. heard' = SubSeq(line, 1, B)
    BY DEF Capture
  <1> HIDE DEF B, N
  <1>3. \A i \in 1 .. B + 1 : line[i] = IF i = sent.at THEN sent.pulse
                                        ELSE frame[Place(sent.start, i, N)]
    BY <1>1 DEF Place
  <1> DEFINE S == {line[i] : i \in 1 .. B + 1}
  <1>4. line \in [1 .. B + 1 -> S]
    OBVIOUS
  <1> HIDE DEF line, S
  <1>5. line \in Seq(S) /\ Len(line) = B + 1
    <2>1. B + 1 \in Nat
      BY <1>1, SMT
    <2> QED
      BY <1>4, <2>1, FunctionIsSeq
  <1>6. \A i \in 1 .. B : heard'[i] = line[i]
    <2>1. \A i \in 1 .. B : i \in 1 .. B + 1
      BY <1>1, SMT
    <2>2. \A i \in 1 .. B : line[i] \in S
      BY <1>4, <2>1
    <2>3. \A i \in 1 .. B - 1 + 1 : SubSeq(line, 1, B)[i] = line[1 + i - 1]
      BY <1>1, <2>2, SubSeqProperties
    <2> QED
      BY <1>1, <1>2, <2>3, SMT
  <1>7. \A i \in 1 .. B : heard'[i] = IF i = sent.at THEN sent.pulse
                                      ELSE frame[Place(sent.start, i, N)]
    <2>1. \A i \in 1 .. B : i \in 1 .. B + 1
      BY <1>1, SMT
    <2> QED
      BY <1>3, <1>6, <2>1
  <1> QED
    BY <1>7 DEF Heard1, B, N

\* Capture() records what is sent, Search() finds the frame in it.
LEMMA PollInvNext == PollInv /\ [PollNext]_lineVars => PollInv'
  <1> SUFFICES ASSUME PollInv, [PollNext]_lineVars
               PROVE  PollInv'
    OBVIOUS
  <1>1. SentInv /\ HeardInv /\ FrameIsFound
    BY DEF PollInv
  <1>2. sent' = sent
    BY DEF PollNext, Capture, Search, lineVars
  <1>3. SentInv'
    BY <1>1, <1>2 DEF SentInv
  <1>4. CASE Capture
    <2>1. HeardInv'
      <3>1. sent.pulse # "out" => Heard1(heard', sent.payload, sent.start, sent.at, sent.pulse)
        BY <1>1, <1>4, CaptureHears
      <3> QED
        BY <1>2, <3>1 DEF HeardInv
    <2>2. FrameIsFound'
      <3>1. result' = result
        BY <1>4 DEF Capture
      <3> QED
        BY <1>1, <1>2, <3>1 DEF FrameIsFound
    <2> QED
      BY <1>3, <2>1, <2>2 DEF PollInv
  <1>5. CASE Search
    <2>1. heard' = heard /\ heard # Nothing
      BY <1>5 DEF Search
    <2>2. HeardInv'
      BY <1>1, <1>2, <2>1 DEF HeardInv
    <2>3. ASSUME sent.pulse # "out", IdentityOnce(sent.payload)
          PROVE  result'.data = Tail(Frame(sent.payload))
      <3>1. PICK b : result' = [type |-> "radio", data |-> search(heard, Size(sent.payload), b)]
        BY <1>5 DEF Search, Size
      <3>2. /\ sent.payload \in Payloads /\ sent.start \in 1 .. Size(sent.payload) + 1
            /\ sent.at \in Nat /\ sent.pulse \in Recorded
        BY <1>1, <2>3 DEF SentInv
      <3>3. Heard1(heard, sent.payload, sent.start, sent.at, sent.pulse)
        BY <1>1, <2>1, <2>3 DEF HeardInv
      <3>4. search(heard, Size(sent.payload), b) = Tail(Frame(sent.payload))
        BY <2>3, <3>2, <3>3, SearchFinds
      <3> QED
        BY <3>1, <3>4
    <2>4. FrameIsFound'
      BY <1>2, <2>3 DEF FrameIsFound
    <2> QED
      BY <1>3, <2>2, <2>4 DEF PollInv
  <1>6. CASE UNCHANGED lineVars
    BY <1>1, <1>6 DEF lineVars, PollInv, SentInv, HeardInv, FrameIsFound
  <1> QED
    BY <1>4, <1>5, <1>6 DEF PollNext

\* Whatever the identity, the payload and the length of the buffer: search()
\* in sketch_feb03a.ino finds the frame that was sent in every recording of
\* four frames of which one pulse at most is disturbed and none is lost, if the
\* identity can be read in a frame only once (lines 157 to 205).
THEOREM DisturbedFrameIsFound == PollSpec => []FrameIsFound
  <1>1. PollInv => FrameIsFound
    BY DEF PollInv
  <1> QED
    BY <1>1, PollInvInit, PollInvNext, PTL DEF PollSpec
=============================================================================
