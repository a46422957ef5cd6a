-------------------------- MODULE Irrigation_proof ---------------------------
(* What the irrigation timer keeps, proved for every length of minute, hour *)
(* and day, every set of settings and every resynchronisation of the clock. *)
EXTENDS Irrigation, TLAPS

-----------------------------------------------------------------------------
(* The inductive invariant.                                                 *)
Program == {"top", "look", "display", "hour", "hour2", "minute", "valve", "plan"}

Types ==
    /\ time \in 0 .. TicksADay - 1 /\ wait \in Nat
    /\ timer \in [1 .. 3 -> Timers]
    /\ start \in Hours /\ stop1 \in Hours /\ interval \in Intervals
    /\ prevDisplay \in 0 .. TicksADay /\ next_minutes \in 0 .. HOUR - 1
    /\ firstTime \in BOOLEAN
    /\ pc \in Program /\ todo \in 0 .. 6
    /\ lag \in 0 .. MaxLag /\ writes \in Nat /\ jumps \in Nat
    /\ dry \in Nat /\ changes \in Nat /\ age \in Nat /\ steady \in BOOLEAN

\* What is open follows from how far the valve sequence has come.
Valves ==
    /\ wait > 0 => pc = "valve"
    /\ pc = "valve" => /\ todo \in 1 .. 6
                       /\ open = {v \in 1 .. 3 : v < todo /\ v < 8 - todo}
    /\ pc # "valve" => open = {}

\* The histories start anew when the window closes.
Window == (age > 0 => InWindow(time)) /\ (steady => InWindow(time))

\* Ticks since the minute next_minutes of this hour or the last one began.
Past(m, n) == IF m >= n THEN m - n ELSE m + HOUR - n
IntoOf(t, n) == MINUTE * Past(minute(t), n) + (t % MINUTE)
Into == IntoOf(time, next_minutes)

\* Ticks since the clock last showed prevDisplay.
Since == IF time >= prevDisplay THEN time - prevDisplay
                                ELSE time + TicksADay - prevDisplay

\* The minute next_minutes has come, and loop() has not been watering: a pass
\* that will look at the minute is under way, or the one before it that found
\* prevDisplay equal to the time, or the one before that, begun too early.
Prompt ==
    ~Watering /\ Into < MINUTE /\ age > Into =>
        CASE pc = "top"  -> \/ Into < lag
                            \/ /\ Since <= lag /\ Since <= Into
                               /\ Into < Since + 2 * MaxLag
          [] pc = "look" -> \/ Into < lag + MaxLag
                            \/ /\ lag <= Since /\ Since <= Into
                               /\ Into < Since + 2 * MaxLag
                               /\ Into < lag + 3 * MaxLag
          [] OTHER       -> Into < lag + 3 * MaxLag

\* The hour that AnHourPerChange allows, counted from the minute next_minutes.
Hourly ==
    ~Watering =>
        IF Into < MINUTE THEN age <= Into + MINUTE * HOUR ELSE age <= Into

\* The same for the interval: the last Plan lies that far before next_minutes.
Regular ==
    ~Watering /\ steady =>
        IF Into < MINUTE THEN Into < age /\ age <= Into + MINUTE * interval
                         ELSE age + MINUTE * HOUR <= Into + MINUTE * interval

\* A change starts the hour over, and what passed before it was no longer.
PerChange == ~Watering => dry <= HourAndMinute * changes + age

IInv == Types /\ Valves /\ Window /\ Prompt /\ Hourly /\ Regular /\ PerChange

-----------------------------------------------------------------------------
(* The clock: quotients and remainders of its ticks.                        *)
LEMMA Constants ==
    /\ MINUTE \in Nat \ {0} /\ HOUR \in Nat \ {0, 1} /\ DAY \in Nat \ {0}
    /\ MINUTE * HOUR \in Nat /\ MINUTE < MINUTE * HOUR
    /\ TicksADay \in Nat /\ MINUTE * HOUR <= TicksADay
    /\ MaxLag \in Nat /\ 4 * MaxLag <= MINUTE
PROOF
  <1>1. /\ MINUTE \in Nat \ {0} /\ HOUR \in Nat \ {0, 1} /\ DAY \in Nat \ {0}
        /\ MaxLag \in Nat /\ 4 * MaxLag <= MINUTE BY IrrigationAssumption
  <1>2. \A m, n \in Nat \ {0} : m * n \in Nat /\ m <= m * n BY SMT
  <1>3. \A m \in Nat \ {0}, n \in Nat \ {0, 1} : m < m * n BY SMT
  <1>4. MINUTE * HOUR \in Nat /\ MINUTE < MINUTE * HOUR BY <1>1, <1>2, <1>3
  <1>5. TicksADay \in Nat /\ MINUTE * HOUR <= TicksADay
        BY <1>1, <1>2, <1>4 DEF TicksADay
  <1> QED BY <1>1, <1>4, <1>5

\* The histories saturate above every bound the properties put on them.
LEMMA CapType ==
    /\ HourAndMinute \in Nat /\ HourAndMinute = MINUTE * HOUR + MINUTE
    /\ Cap \in Nat /\ HourAndMinute < Cap
PROOF
  <1>1. \A m, n \in Nat : m * n \in Nat /\ m * (n + 1) = m * n + m BY SMT
  <1>2. HourAndMinute \in Nat /\ HourAndMinute = MINUTE * HOUR + MINUTE
        BY <1>1, Constants DEF HourAndMinute
  <1>3. MaxWrites + MaxJumps \in Nat /\ MaxWrites \in Nat /\ MaxJumps \in Nat
        BY IrrigationAssumption
  <1>4. /\ HourAndMinute * (MaxWrites + MaxJumps) \in Nat
        /\ HourAndMinute * ((MaxWrites + MaxJumps) + 1)
              = HourAndMinute * (MaxWrites + MaxJumps) + HourAndMinute
        BY <1>1, <1>2, <1>3
  <1>5. Cap = HourAndMinute * ((MaxWrites + MaxJumps) + 1) + 1 BY <1>3 DEF Cap
  <1> HIDE DEF HourAndMinute
  <1> QED BY <1>2, <1>4, <1>5

LEMMA DivUnique ==
    ASSUME NEW n \in Nat \ {0}, NEW q \in Nat, NEW r \in 0 .. n - 1
    PROVE  (n * q + r) % n = r /\ (n * q + r) \div n = q
PROOF BY SMT

LEMMA DivStep ==
    ASSUME NEW n \in Nat \ {0}, NEW a \in Nat
    PROVE  /\ a % n \in 0 .. n - 1 /\ a \div n \in Nat
           /\ a % n = n - 1 => (a + 1) % n = 0 /\ (a + 1) \div n = (a \div n) + 1
           /\ a % n # n - 1 => (a + 1) % n = (a % n) + 1 /\ (a + 1) \div n = a \div n
PROOF
  <1> DEFINE q == a \div n
             r == a % n
  <1>1. q \in Nat /\ r \in 0 .. n - 1 /\ a = n * q + r BY SMT
  <1>2. CASE r = n - 1
    <2>1. a + 1 = n * (q + 1) BY <1>1, <1>2, SMT
    <2>2. a + 1 = n * (q + 1) + 0 /\ q + 1 \in Nat /\ 0 \in 0 .. n - 1 BY <1>1, <2>1
    <2> HIDE DEF q, r
    <2>3. (n * (q + 1) + 0) % n = 0 /\ (n * (q + 1) + 0) \div n = q + 1
          BY <2>2, DivUnique
    <2>4. (a + 1) % n = 0 /\ (a + 1) \div n = q + 1 BY <2>2, <2>3, Zenon
    <2> QED BY <1>1, <1>2, <2>4 DEF q, r
  <1>3. CASE r # n - 1
    <2>1. a + 1 = n * q + (r + 1) /\ r + 1 \in 0 .. n - 1 BY <1>1, <1>3, SMT
    <2>2. (a + 1) % n = r + 1 /\ (a + 1) \div n = q BY <1>1, <2>1, SMT
    <2> QED BY <1>1, <1>3, <2>2
  <1> QED BY <1>2, <1>3

\* The last tick of the day belongs to the last minute of an hour.
LEMMA Midnight ==
    /\ (TicksADay - 1) % MINUTE = MINUTE - 1
    /\ minute(TicksADay - 1) = HOUR - 1
    /\ 0 % MINUTE = 0 /\ minute(0) = 0
PROOF
  <1> DEFINE hours == HOUR * DAY
  <1>1. MINUTE \in Nat \ {0} /\ HOUR \in Nat \ {0, 1} /\ DAY \in Nat \ {0} BY Constants
  <1>2. hours \in Nat \ {0} /\ hours = HOUR * (DAY - 1) + HOUR BY <1>1, SMT
  <1>3. TicksADay = MINUTE * hours
    <2>1. \A a, b, c \in Nat : a * b * c = a * (b * c) BY SMT
    <2> QED BY <1>1, <2>1 DEF TicksADay
  <1>4. TicksADay - 1 = MINUTE * (hours - 1) + (MINUTE - 1)
    <2> HIDE DEF hours
    <2> QED BY <1>1, <1>2, <1>3, SMT
  <1>5. hours - 1 = HOUR * (DAY - 1) + (HOUR - 1) BY <1>1, <1>2, SMT
  <1>6. (TicksADay - 1) % MINUTE = MINUTE - 1 /\ (TicksADay - 1) \div MINUTE = hours - 1
    <2> HIDE DEF hours
    <2>1. hours - 1 \in Nat /\ MINUTE - 1 \in 0 .. MINUTE - 1 BY <1>1, <1>2
    <2>2. /\ (MINUTE * (hours - 1) + (MINUTE - 1)) % MINUTE = MINUTE - 1
          /\ (MINUTE * (hours - 1) + (MINUTE - 1)) \div MINUTE = hours - 1
          BY <1>1, <2>1, DivUnique
    <2> QED BY <1>4, <2>2
  <1>7. (hours - 1) % HOUR = HOUR - 1
    <2>1. DAY - 1 \in Nat /\ HOUR - 1 \in 0 .. HOUR - 1 BY <1>1
    <2>2. (HOUR * (DAY - 1) + (HOUR - 1)) % HOUR = HOUR - 1 BY <1>1, <2>1, DivUnique
    <2> HIDE DEF hours
    <2> QED BY <1>5, <2>2
  <1>8. 0 % MINUTE = 0 /\ 0 \div MINUTE = 0 /\ 0 % HOUR = 0 BY <1>1, SMT
  <1> HIDE DEF hours
  <1> QED BY <1>6, <1>7, <1>8 DEF minute

LEMMA MinuteRange ==
    ASSUME NEW t \in Nat
    PROVE  minute(t) \in 0 .. HOUR - 1 /\ t % MINUTE \in 0 .. MINUTE - 1
PROOF
  <1>1. t % MINUTE \in 0 .. MINUTE - 1 /\ t \div MINUTE \in Nat BY Constants, DivStep
  <1>2. (t \div MINUTE) % HOUR \in 0 .. HOUR - 1 BY <1>1, Constants, DivStep
  <1> QED BY <1>1, <1>2 DEF minute

\* A tick later: the next tick of the minute, or the first of the next minute.
LEMMA MinuteStep ==
    ASSUME NEW t \in 0 .. TicksADay - 1, NEW u, u = (t + 1) % TicksADay
    PROVE  /\ u \in 0 .. TicksADay - 1
           /\ u = IF t = TicksADay - 1 THEN 0 ELSE t + 1
           /\ t % MINUTE # MINUTE - 1 => /\ u % MINUTE = (t % MINUTE) + 1
                                         /\ minute(u) = minute(t)
           /\ t % MINUTE = MINUTE - 1 =>
                 /\ u % MINUTE = 0
                 /\ minute(u) = IF minute(t) = HOUR - 1 THEN 0 ELSE minute(t) + 1
PROOF
  <1>1. TicksADay \in Nat \ {0} /\ t \in Nat BY Constants
  <1>2. \A n \in Nat \ {0} : \A a \in 0 .. n - 1 :
           (a + 1) % n = IF a = n - 1 THEN 0 ELSE a + 1 BY SMT
  <1>3. u = IF t = TicksADay - 1 THEN 0 ELSE t + 1 BY <1>1, <1>2
  <1>4. u \in 0 .. TicksADay - 1 BY <1>1, <1>3
  <1>5. CASE t = TicksADay - 1 BY <1>3, <1>4, <1>5, Midnight
  <1>6. CASE t # TicksADay - 1
    <2>1. u = t + 1 BY <1>3, <1>6
    <2>2. t \div MINUTE \in Nat BY <1>1, Constants, DivStep
    <2>3. CASE t % MINUTE # MINUTE - 1
      <3>1. u % MINUTE = (t % MINUTE) + 1 /\ u \div MINUTE = t \div MINUTE
            BY <1>1, <2>1, <2>3, Constants, DivStep
      <3> QED BY <1>3, <1>4, <2>3, <3>1 DEF minute
    <2>4. CASE t % MINUTE = MINUTE - 1
      <3>1. u % MINUTE = 0 /\ u \div MINUTE = (t \div MINUTE) + 1
            BY <1>1, <2>1, <2>4, Constants, DivStep
      <3>2. ((t \div MINUTE) + 1) % HOUR =
               IF (t \div MINUTE) % HOUR = HOUR - 1 THEN 0 ELSE ((t \div MINUTE) % HOUR) + 1
            BY <2>2, Constants, DivStep
      <3> QED BY <1>3, <1>4, <2>4, <3>1, <3>2 DEF minute
    <2> QED BY <2>3, <2>4
  <1> QED BY <1>5, <1>6

\* So Into counts the ticks of the hour, whatever the minute it begins with.
LEMMA IntoRange ==
    ASSUME NEW t \in 0 .. TicksADay - 1, NEW n \in 0 .. HOUR - 1
    PROVE  /\ IntoOf(t, n) \in Nat /\ IntoOf(t, n) < MINUTE * HOUR
           /\ IntoOf(t, n) < MINUTE <=> minute(t) = n
PROOF
  <1> DEFINE d == Past(minute(t), n)
             s == t % MINUTE
  <1>1. MINUTE \in Nat \ {0} /\ HOUR \in Nat \ {0, 1} BY Constants
  <1>2. minute(t) \in 0 .. HOUR - 1 /\ s \in 0 .. MINUTE - 1 BY MinuteRange, Constants
  <1>3. d \in 0 .. HOUR - 1 /\ (d = 0 <=> minute(t) = n) BY <1>1, <1>2 DEF Past
  <1>4. IntoOf(t, n) = MINUTE * d + s BY DEF IntoOf
  <1> HIDE DEF d, s
  <1>5. MINUTE * d \in Nat /\ MINUTE * d + MINUTE <= MINUTE * HOUR
    <2>1. \A m, a, b \in Nat : a + 1 <= b => m * a \in Nat /\ m * a + m <= m * b BY SMT
    <2> QED BY <1>1, <1>3, <2>1
  <1>6. d # 0 => MINUTE <= MINUTE * d
    <2>1. \A m \in Nat, a \in Nat \ {0} : m <= m * a BY SMT
    <2> QED BY <1>1, <1>3, <2>1
  <1>7. d = 0 => MINUTE * d = 0 BY <1>1, <1>3
  <1>8. MINUTE * HOUR \in Nat BY Constants
  <1> QED BY <1>1, <1>2, <1>3, <1>4, <1>5, <1>6, <1>7, <1>8

LEMMA IntoStep ==
    ASSUME Types, Tick
    PROVE  /\ time' \in 0 .. TicksADay - 1
           /\ Into' = IF Into = MINUTE * HOUR - 1 THEN 0 ELSE Into + 1
PROOF
  <1> DEFINE d == Past(minute(time), next_minutes)
             s == time % MINUTE
  <1>1. MINUTE \in Nat \ {0} /\ HOUR \in Nat \ {0, 1} /\ MINUTE * HOUR \in Nat
        BY Constants
  <1>2. minute(time) \in 0 .. HOUR - 1 /\ s \in 0 .. MINUTE - 1
        BY MinuteRange, Constants DEF Types
  <1>3. next_minutes' = next_minutes /\ next_minutes \in 0 .. HOUR - 1
        BY DEF Tick, plan, Types
  <1>4. /\ time' \in 0 .. TicksADay - 1
        /\ s # MINUTE - 1 => time' % MINUTE = s + 1 /\ minute(time') = minute(time)
        /\ s = MINUTE - 1 =>
              /\ time' % MINUTE = 0
              /\ minute(time') = IF minute(time) = HOUR - 1 THEN 0 ELSE minute(time) + 1
        BY MinuteStep DEF Tick, Types
  <1>5. d \in 0 .. HOUR - 1 BY <1>1, <1>2, <1>3 DEF Past
  <1>6. Into = MINUTE * d + s BY DEF Into, IntoOf
  <1>7. Into' = MINUTE * Past(minute(time'), next_minutes) + (time' % MINUTE)
        BY <1>3 DEF Into, IntoOf, Past, minute
  <1>8. \A m, a, b \in Nat : a + 1 <= b => m * a \in Nat /\ m * a + m <= m * b BY SMT
  <1>9. MINUTE * d \in Nat /\ MINUTE * d + MINUTE <= MINUTE * HOUR BY <1>1, <1>5, <1>8
  <1>10. CASE s # MINUTE - 1
    <2>1. Into' = MINUTE * d + (s + 1) BY <1>4, <1>7, <1>10
    <2> HIDE DEF d, s
    <2> QED BY <1>1, <1>2, <1>4, <1>6, <1>9, <1>10, <2>1
  <1>11. CASE s = MINUTE - 1
    <2>1. Past(minute(time'), next_minutes) = IF d = HOUR - 1 THEN 0 ELSE d + 1
          BY <1>1, <1>2, <1>3, <1>4, <1>11 DEF Past
    <2>2. CASE d = HOUR - 1
      <3>1. Into' = 0
        <4>1. Into' = MINUTE * 0 + 0 BY <1>4, <1>7, <1>11, <2>1, <2>2
        <4> QED BY <1>1, <4>1
      <3>2. MINUTE * (HOUR - 1) + MINUTE = MINUTE * HOUR BY <1>1, SMT
      <3>3. Into = MINUTE * HOUR - 1 BY <1>1, <1>6, <1>9, <1>11, <2>2, <3>2
      <3> QED BY <1>4, <3>1, <3>3
    <2>3. CASE d # HOUR - 1
      <3>1. Into' = MINUTE * (d + 1)
        <4>1. Into' = MINUTE * (d + 1) + 0 BY <1>4, <1>7, <1>11, <2>1, <2>3
        <4>2. MINUTE * (d + 1) \in Nat BY <1>1, <1>5, SMT
        <4> QED BY <4>1, <4>2
      <3> HIDE DEF d, s
      <3>2. MINUTE * (d + 1) = MINUTE * d + MINUTE BY <1>1, <1>5, SMT
      <3>3. d + 2 <= HOUR /\ d + 1 \in Nat BY <1>1, <1>5, <2>3
      <3>4. MINUTE * (d + 1) + MINUTE <= MINUTE * HOUR BY <1>1, <1>5, <1>8, <3>3
      <3> QED BY <1>1, <1>4, <1>6, <1>9, <1>11, <3>1, <3>2, <3>4
    <2> QED BY <2>2, <2>3
  <1> QED BY <1>10, <1>11

LEMMA SinceStep ==
    ASSUME Types, Tick
    PROVE  /\ Since \in 0 .. TicksADay
           /\ Since + 1 < TicksADay => Since' = Since + 1
PROOF
  <1>1. TicksADay \in Nat \ {0} BY Constants
  <1>2. time' = IF time = TicksADay - 1 THEN 0 ELSE time + 1
        BY MinuteStep DEF Tick, Types
  <1>3. prevDisplay' = prevDisplay /\ prevDisplay \in 0 .. TicksADay
        /\ time \in 0 .. TicksADay - 1 BY DEF Tick, plan, Types
  <1> HIDE DEF TicksADay
  <1> QED BY <1>1, <1>2, <1>3 DEF Since

\* An interval is at least a minute and at most an hour less one.
LEMMA IntervalRange ==
    ASSUME NEW v \in 1 .. HOUR - 1
    PROVE  /\ MINUTE * v \in Nat /\ MINUTE <= MINUTE * v
           /\ MINUTE * v + MINUTE <= MINUTE * HOUR
           /\ MINUTE * (v + 1) = MINUTE * v + MINUTE
           /\ MINUTE * (HOUR - v) = MINUTE * HOUR - MINUTE * v
PROOF
  <1>1. MINUTE \in Nat \ {0} /\ HOUR \in Nat /\ v \in Nat \ {0} /\ v + 1 <= HOUR
        BY Constants
  <1>2. \A m, a, b \in Nat : a + 1 <= b => /\ m * a \in Nat /\ m * a + m <= m * b
                                           /\ m * (a + 1) = m * a + m
                                           /\ m * (b - a) = m * b - m * a BY SMT
  <1>3. \A m \in Nat, a \in Nat \ {0} : m <= m * a BY SMT
  <1> QED BY <1>1, <1>2, <1>3

\* The minute that Plan sets lies an hour less the interval in the past.
LEMMA PlanLemma ==
    ASSUME NEW t \in 0 .. TicksADay - 1, NEW v \in 1 .. HOUR - 1, NEW n,
           n = IF minute(t) + v > HOUR - 1 THEN (minute(t) + v) - HOUR ELSE minute(t) + v
    PROVE  /\ n \in 0 .. HOUR - 1
           /\ MINUTE <= IntoOf(t, n)
           /\ MINUTE * HOUR <= IntoOf(t, n) + MINUTE * v
PROOF
  <1>1. MINUTE \in Nat \ {0} /\ HOUR \in Nat \ {0, 1} BY Constants
  <1>2. minute(t) \in 0 .. HOUR - 1 /\ t % MINUTE \in 0 .. MINUTE - 1
        BY MinuteRange, Constants
  <1>3. n \in 0 .. HOUR - 1 BY <1>1, <1>2
  <1>4. Past(minute(t), n) = HOUR - v BY <1>1, <1>2 DEF Past
  <1>5. IntoOf(t, n) = MINUTE * (HOUR - v) + (t % MINUTE) BY <1>4 DEF IntoOf
  <1>6. MINUTE * HOUR \in Nat BY Constants
  <1> QED BY <1>1, <1>2, <1>3, <1>5, <1>6, IntervalRange

Replan == next_minutes' = IF minute(time) + interval > HOUR - 1
                          THEN (minute(time) + interval) - HOUR
                          ELSE minute(time) + interval
LEMMA PlanSets == ASSUME Plan PROVE Replan
PROOF BY Zenon DEF Plan, Replan

LEMMA InWindowKept ==
    ASSUME NEW t, UNCHANGED <<start, stop1>> PROVE InWindow(t)' = InWindow(t')
PROOF BY DEF InWindow, hour

-----------------------------------------------------------------------------
(* Types.                                                                   *)
LEMMA Settings ==
    /\ \A v \in Timers : v \in Nat
    /\ \A v \in Intervals : v \in 1 .. HOUR - 1
    /\ \A j \in Jumps : j \in Nat
PROOF BY IrrigationAssumption

LEMMA PauseType == ASSUME Types, NEW n \in 1 .. 6 PROVE Pause(n) \in Nat
PROOF
  <1>1. CASE n <= 3
    <2>1. timer[n] \in Timers BY <1>1 DEF Types
    <2> QED BY <1>1, <2>1, Settings DEF Pause
  <1>2. CASE n > 3 BY <1>2 DEF Pause
  <1> QED BY <1>1, <1>2

LEMMA TypesInit == Init => Types
PROOF
  <1> SUFFICES ASSUME Init PROVE Types OBVIOUS
  <1>1. /\ timer \in [1 .. 3 -> Timers]
        /\ start \in Hours /\ stop1 \in Hours /\ interval \in Intervals
        BY IrrigationAssumption DEF Init
  <1>2. time \in 0 .. TicksADay - 1 /\ prevDisplay \in 0 .. TicksADay
        BY Constants DEF Init
  <1>3. next_minutes \in 0 .. HOUR - 1 /\ lag \in 0 .. MaxLag BY Constants DEF Init
  <1>4. pc \in Program /\ firstTime \in BOOLEAN /\ steady \in BOOLEAN BY DEF Init, Program
  <1>5. /\ wait \in Nat /\ todo \in 0 .. 6 /\ writes \in Nat /\ jumps \in Nat
        /\ dry \in Nat /\ changes \in Nat /\ age \in Nat BY DEF Init
  <1> QED BY <1>1, <1>2, <1>3, <1>4, <1>5 DEF Types

LEMMA TypesStep == ASSUME Types, Valves, [Next]_vars PROVE Types'
PROOF
  <1> USE DEF Types, Program
  <1>0. TicksADay \in Nat \ {0} /\ MaxLag \in Nat BY Constants
  <1>1. CASE Tick
    <2>1. time' \in 0 .. TicksADay - 1 BY <1>1, IntoStep
    <2>2. wait' \in Nat /\ lag' \in 0 .. MaxLag BY <1>0, <1>1 DEF Tick
    <2>3. dry' \in Nat /\ changes' \in Nat /\ age' \in Nat
      <3>1. dry' \in {0, Older(dry)} /\ changes' \in {0, changes} /\ age' \in {0, Older(age)}
            BY <1>1 DEF Tick
      <3>2. Older(dry) \in Nat /\ Older(age) \in Nat BY DEF Older
      <3> QED BY <3>1, <3>2
    <2>4. steady' \in BOOLEAN
      <3>1. steady' = (steady /\ InWindow(time')) BY <1>1 DEF Tick
      <3> QED BY <3>1
    <2>5. UNCHANGED <<timer, start, stop1, interval, prevDisplay, next_minutes,
                      firstTime, pc, todo, writes, jumps>>
          BY <1>1 DEF Tick, set, plan, env
    <2>6. /\ timer' \in [1 .. 3 -> Timers] /\ firstTime' \in BOOLEAN
          /\ start' \in Hours /\ stop1' \in Hours /\ interval' \in Intervals
          BY <2>5
    <2>7. /\ prevDisplay' \in 0 .. TicksADay /\ next_minutes' \in 0 .. HOUR - 1
          /\ pc' \in Program /\ todo' \in 0 .. 6 /\ writes' \in Nat /\ jumps' \in Nat
          BY <2>5
    <2> HIDE DEF Program
    <2> QED BY <2>1, <2>2, <2>3, <2>4, <2>6, <2>7
  <1>2. ASSUME NEW j \in Jumps, Resync(j) PROVE Types'
    <2>1. time + j \in Nat BY Settings
    <2>2. time' \in 0 .. TicksADay - 1
      <3>1. (time + j) % TicksADay \in 0 .. TicksADay - 1 BY <1>0, <2>1, DivStep
      <3> QED BY <1>2, <3>1 DEF Resync
    <2>3. jumps' = jumps + 1 /\ age' = 0 /\ dry' = dry /\ changes' = changes + 1
          BY <1>2, Zenon DEF Resync, Changed
    <2>4. steady' = FALSE BY <1>2, Zenon DEF Resync, Changed
    <2>5. UNCHANGED <<wait, timer, start, stop1, interval, prevDisplay, next_minutes,
                      firstTime, pc, todo, lag, writes>>
          BY <1>2 DEF Resync, set, plan
    <2>6. /\ timer' \in [1 .. 3 -> Timers] /\ firstTime' \in BOOLEAN
          /\ start' \in Hours /\ stop1' \in Hours /\ interval' \in Intervals
          BY <2>5
    <2>7. /\ prevDisplay' \in 0 .. TicksADay /\ next_minutes' \in 0 .. HOUR - 1
          /\ pc' \in Program /\ todo' \in 0 .. 6 /\ writes' \in Nat
          /\ wait' \in Nat /\ lag' \in 0 .. MaxLag
          BY <2>5
    <2>8. jumps' \in Nat /\ age' \in Nat /\ dry' \in Nat /\ changes' \in Nat BY <2>3
    <2>9. steady' \in BOOLEAN BY <2>4, Zenon
    <2> HIDE DEF Program
    <2> QED BY <2>2, <2>6, <2>7, <2>8, <2>9
  <1>3. CASE RunIdle BY <1>0, <1>3 DEF RunIdle, set, plan, env, history
  <1>4. CASE BLYNK_WRITE
    <2>1. /\ timer' \in [1 .. 3 -> Timers] /\ start' \in Hours /\ stop1' \in Hours
          /\ interval' \in Intervals
          BY <1>4 DEF BLYNK_WRITE
    <2>2. \/ Changed
          \/ UNCHANGED history
          \/ steady' = FALSE /\ UNCHANGED <<dry, changes, age>>
          BY <1>4 DEF BLYNK_WRITE
    <2>3. dry' \in Nat /\ changes' \in Nat /\ age' \in Nat BY <2>2 DEF Changed, history
    <2>4. steady' \in BOOLEAN
      <3>1. CASE Changed
        <4>1. steady' = FALSE BY <3>1, Zenon DEF Changed
        <4> QED BY <4>1, Zenon
      <3>2. CASE UNCHANGED history
        <4>1. steady' = steady BY <3>2 DEF history
        <4> QED BY <4>1
      <3>3. CASE steady' = FALSE BY <3>3, Zenon
      <3> QED BY <2>2, <3>1, <3>2, <3>3
    <2> QED BY <1>0, <1>4, <2>1, <2>3, <2>4 DEF BLYNK_WRITE, plan
  <1>5. CASE SameSecond BY <1>5 DEF SameSecond, Step, set, plan, env, history
  <1>6. CASE NewSecond BY <1>6 DEF NewSecond, Step, set, plan, env, history
  <1>7. CASE SetDisplay BY <1>0, <1>7 DEF SetDisplay, Step, set, env, history
  <1>8. CASE AfterStart BY <1>8 DEF AfterStart, Step, set, plan, env, history
  <1>9. CASE BeforeStop BY <1>9 DEF BeforeStop, Step, set, plan, env, history
  <1>10. CASE NotNow BY <1>10 DEF NotNow, Step, set, plan, env, history
  <1>11. CASE Activate BY <1>11 DEF Activate, Step, set, plan, env, history
  <1>12. CASE Valve
    <2>1. todo \in 1 .. 6 BY <1>12 DEF Valve, Valves
    <2>2. wait' \in Nat BY <1>12, <2>1, PauseType DEF Valve
    <2>3. todo' \in 0 .. 6 /\ pc' \in Program BY <1>12, <2>1 DEF Valve, Step
    <2> QED BY <1>12, <2>2, <2>3 DEF Valve, Step, set, plan, env, history
  <1>13. CASE Plan
    <2>1. Replan BY <1>13, PlanSets
    <2>2. interval \in 1 .. HOUR - 1 BY Settings
    <2>3. next_minutes' \in 0 .. HOUR - 1 BY <2>1, <2>2, PlanLemma DEF Replan
    <2>4. steady' \in BOOLEAN
      <3>1. steady' = InWindow(time) BY <1>13 DEF Plan
      <3> QED BY <3>1 DEF InWindow
    <2> QED BY <1>13, <2>3, <2>4 DEF Plan, Step, set, env, history
  <1>14. CASE UNCHANGED vars BY <1>14 DEF vars, set, plan, env, history
  <1> QED BY <1>1, <1>2, <1>3, <1>4, <1>5, <1>6, <1>7, <1>8, <1>9, <1>10, <1>11,
             <1>12, <1>13, <1>14 DEF Next, Loop

-----------------------------------------------------------------------------
(* The valves.                                                              *)
LEMMA ValvesStep == ASSUME Types, Valves, [Next]_vars PROVE Valves'
PROOF
  <1> USE DEF Valves
  <1>1. CASE Tick
    <2>1. UNCHANGED <<pc, todo, open>> /\ wait' = IF wait > 0 THEN wait - 1 ELSE 0
          BY <1>1 DEF Tick
    <2> QED BY <2>1 DEF Types
  <1>2. ASSUME NEW j \in Jumps, Resync(j) PROVE Valves'
        BY <1>2 DEF Resync
  <1>3. CASE RunIdle \/ BLYNK_WRITE
    <2>1. pc = "top" /\ pc' = "look" /\ UNCHANGED <<wait, open>> /\ wait = 0
          BY <1>3 DEF RunIdle, BLYNK_WRITE
    <2> QED BY <2>1
  <1>4. CASE SameSecond \/ NewSecond \/ SetDisplay \/ AfterStart \/ BeforeStop \/ NotNow
    <2>1. /\ pc \in {"look", "display", "hour", "hour2", "minute"}
          /\ pc' \in {"top", "display", "hour", "hour2", "minute"}
          /\ UNCHANGED <<wait, open>> /\ wait = 0
          BY <1>4 DEF SameSecond, NewSecond, SetDisplay, AfterStart, BeforeStop, NotNow, Step
    <2> QED BY <2>1
  <1>5. CASE Activate
    <2>1. pc = "minute" /\ pc' = "valve" /\ todo' = 1 /\ open' = open /\ wait' = wait
          BY <1>5 DEF Activate, Step
    <2>2. open' = {} BY <2>1
    <2> QED BY <2>1, <2>2
  <1>6. CASE Valve
    <2>1. pc = "valve" /\ todo \in 1 .. 6
          /\ open = {v \in 1 .. 3 : v < todo /\ v < 8 - todo} BY <1>6 DEF Valve
    <2>2. open' = IF todo <= 3 THEN open \cup {todo} ELSE open \ {7 - todo}
          BY <1>6 DEF Valve
    <2>3. CASE todo < 6
      <3>1. pc' = "valve" /\ todo' = todo + 1 BY <1>6, <2>3 DEF Valve, Step
      <3>2. open' = {v \in 1 .. 3 : v < todo + 1 /\ v < 8 - (todo + 1)}
            BY <2>1, <2>2, <2>3
      <3> QED BY <2>1, <2>3, <3>1, <3>2
    <2>4. CASE todo = 6
      <3>1. pc' = "plan" /\ wait' = 0 BY <1>6, <2>4 DEF Valve, Step, Pause
      <3>2. open' = {} BY <2>1, <2>2, <2>4
      <3> QED BY <3>1, <3>2
    <2> QED BY <2>1, <2>3, <2>4
  <1>7. CASE Plan BY <1>7 DEF Plan, Step
  <1>8. CASE UNCHANGED vars BY <1>8 DEF vars
  <1> QED BY <1>1, <1>2, <1>3, <1>4, <1>5, <1>6, <1>7, <1>8 DEF Next, Loop

-----------------------------------------------------------------------------
(* The histories.                                                           *)
LEMMA WindowStep == ASSUME Types, Window, [Next]_vars PROVE Window'
PROOF
  <1> USE DEF Window
  <1>1. CASE Tick
    <2>1. age' > 0 => InWindow(time') BY <1>1 DEF Tick
    <2>2. steady' => InWindow(time') BY <1>1, Zenon DEF Tick
    <2>3. InWindow(time)' = InWindow(time') BY <1>1, InWindowKept DEF Tick, set
    <2> QED BY <2>1, <2>2, <2>3
  <1>2. ASSUME NEW j \in Jumps, Resync(j) PROVE Window'
    <2>1. age' = 0 /\ ~steady' BY <1>2, Zenon DEF Resync, Changed
    <2> QED BY <2>1
  <1>3. CASE BLYNK_WRITE
    <2>1. \/ age' = 0 /\ ~steady'
          \/ UNCHANGED <<age, start, stop1, time>> /\ (steady' => steady)
          BY <1>3 DEF BLYNK_WRITE, Changed, history
    <2>2. ASSUME UNCHANGED <<age, start, stop1, time>>, steady' => steady PROVE Window'
      <3>1. InWindow(time)' = InWindow(time) BY <2>2, InWindowKept
      <3> QED BY <2>2, <3>1
    <2> QED BY <2>1, <2>2
  <1>4. CASE Plan
    <2>1. age' = 0 /\ UNCHANGED <<start, stop1, time>> BY <1>4 DEF Plan, Step, set
    <2>2. steady' = InWindow(time) BY <1>4, Zenon DEF Plan
    <2>3. InWindow(time)' = InWindow(time) BY <2>1, InWindowKept
    <2> QED BY <2>1, <2>2, <2>3
  <1>5. ASSUME UNCHANGED <<age, start, stop1, time, steady>> PROVE Window'
    <2>1. InWindow(time)' = InWindow(time) BY <1>5, InWindowKept
    <2> QED BY <1>5, <2>1
  <1>6. CASE RunIdle BY <1>5, <1>6 DEF RunIdle, set, history
  <1>7. CASE SameSecond BY <1>5, <1>7 DEF SameSecond, Step, set, history
  <1>8. CASE NewSecond BY <1>5, <1>8 DEF NewSecond, Step, set, history
  <1>9. CASE SetDisplay BY <1>5, <1>9 DEF SetDisplay, Step, set, history
  <1>10. CASE AfterStart BY <1>5, <1>10 DEF AfterStart, Step, set, history
  <1>11. CASE BeforeStop BY <1>5, <1>11 DEF BeforeStop, Step, set, history
  <1>12. CASE NotNow BY <1>5, <1>12 DEF NotNow, Step, set, history
  <1>13. CASE Activate BY <1>5, <1>13 DEF Activate, Step, set, history
  <1>14. CASE Valve BY <1>5, <1>14 DEF Valve, Step, set, history
  <1>15. CASE UNCHANGED vars BY <1>5, <1>15 DEF vars, set, history
  <1> QED BY <1>1, <1>2, <1>3, <1>4, <1>6, <1>7, <1>8, <1>9, <1>10, <1>11, <1>12,
             <1>13, <1>14, <1>15 DEF Next, Loop

-----------------------------------------------------------------------------
(* Waterings come in time.  What every action but Tick, Resync and Plan     *)
(* leaves alone:                                                            *)
Calm ==
    /\ UNCHANGED <<time, next_minutes>>
    /\ age' = age \/ age' = 0
    /\ ~Watering' => ~Watering
    /\ steady' => steady /\ age' = age /\ interval' = interval

LEMMA CalmStep ==
    ASSUME Types, [Next]_vars, ~Tick, \A j \in Jumps : ~Resync(j), ~Plan
    PROVE  Calm
PROOF
  <1> USE DEF Calm, Watering
  <1>1. CASE RunIdle BY <1>1 DEF RunIdle, set, plan, history
  <1>2. CASE BLYNK_WRITE
    <2>1. /\ age' = age \/ age' = 0
          /\ steady' => steady /\ age' = age /\ interval' = interval
          BY <1>2 DEF BLYNK_WRITE, Changed, history
    <2>2. UNCHANGED <<time, next_minutes>> /\ pc = "top" BY <1>2 DEF BLYNK_WRITE, plan
    <2> QED BY <2>1, <2>2
  <1>3. CASE SameSecond BY <1>3 DEF SameSecond, Step, set, plan, history
  <1>4. CASE NewSecond BY <1>4 DEF NewSecond, Step, set, plan, history
  <1>5. CASE SetDisplay BY <1>5 DEF SetDisplay, Step, set, history
  <1>6. CASE AfterStart BY <1>6 DEF AfterStart, Step, set, plan, history
  <1>7. CASE BeforeStop BY <1>7 DEF BeforeStop, Step, set, plan, history
  <1>8. CASE NotNow BY <1>8 DEF NotNow, Step, set, plan, history
  <1>9. CASE Activate BY <1>9 DEF Activate, Step, set, plan, history
  <1>10. CASE Valve BY <1>10 DEF Valve, Step, set, plan, history
  <1>11. CASE UNCHANGED vars BY <1>11 DEF vars, set, plan, history
  <1> QED BY <1>1, <1>2, <1>3, <1>4, <1>5, <1>6, <1>7, <1>8, <1>9, <1>10, <1>11
          DEF Next, Loop

LEMMA IntoKept == ASSUME UNCHANGED <<time, next_minutes>> PROVE Into' = Into
PROOF BY DEF Into

LEMMA IntoType == Types => Into \in Nat /\ Into < MINUTE * HOUR
PROOF BY IntoRange DEF Types, Into

\* The minute next_minutes does not end with loop() still waiting for it.
LEMMA MinuteNotMissed ==
    ASSUME Types, Valves, Prompt, Tick, ~Watering, age > Into, Into < MINUTE
    PROVE  Into + 1 < MINUTE /\ lag < MaxLag /\ lag' = lag + 1 /\ wait = 0
PROOF
  <1>1. Into \in Nat BY IntoType
  <1>2. MINUTE \in Nat /\ MaxLag \in Nat /\ 4 * MaxLag <= MINUTE BY Constants
  <1>3. wait = 0 BY DEF Types, Valves, Watering
  <1>4. lag < MaxLag /\ lag' = lag + 1 /\ lag \in Nat BY <1>2, <1>3 DEF Tick, Types
  <1>5. CASE pc = "top"
    <2>1. \/ Into < lag
          \/ Since <= lag /\ Into < Since + 2 * MaxLag BY <1>5 DEF Prompt
    <2>2. Since \in Nat BY SinceStep, Constants
    <2> QED BY <1>1, <1>2, <1>3, <1>4, <2>1, <2>2
  <1>6. CASE pc = "look"
    <2>1. Into < lag + MaxLag \/ Into < lag + 3 * MaxLag BY <1>6 DEF Prompt
    <2> QED BY <1>1, <1>2, <1>3, <1>4, <2>1
  <1>7. CASE pc \notin {"top", "look"}
    <2>1. Into < lag + 3 * MaxLag BY <1>7 DEF Prompt
    <2> QED BY <1>1, <1>2, <1>3, <1>4, <2>1
  <1> QED BY <1>5, <1>6, <1>7

LEMMA HourlyStep ==
    ASSUME Types, Types', Valves, Prompt, Hourly, [Next]_vars PROVE Hourly'
PROOF
  <1>0. /\ MINUTE \in Nat \ {0} /\ MINUTE * HOUR \in Nat /\ MINUTE < MINUTE * HOUR
        BY Constants
  <1>1. Into \in Nat /\ Into < MINUTE * HOUR BY IntoType
  <1>2. Into' \in Nat
    <2>1. /\ time' \in 0 .. TicksADay - 1 /\ next_minutes' \in 0 .. HOUR - 1 BY DEF Types
    <2>2. Into' = IntoOf(time', next_minutes') BY DEF Into, IntoOf, minute, Past
    <2> QED BY <2>1, <2>2, IntoRange
  <1>3. ASSUME age' = 0 PROVE Hourly' BY <1>0, <1>2, <1>3 DEF Hourly
  <1>4. CASE Tick
    <2> SUFFICES ASSUME ~Watering'
                 PROVE IF Into' < MINUTE THEN age' <= Into' + MINUTE * HOUR
                                         ELSE age' <= Into' BY DEF Hourly
    <2>1. ~Watering BY <1>4 DEF Tick, Watering
    <2>2. Into' = IF Into = MINUTE * HOUR - 1 THEN 0 ELSE Into + 1 BY <1>4, IntoStep
    <2>3. age' \in Nat /\ age' <= age + 1 /\ age \in Nat
          BY <1>4 DEF Tick, Older, Types
    <2>4. CASE Into < MINUTE /\ age > Into
      <3>1. Into + 1 < MINUTE BY <1>4, <2>1, <2>4, MinuteNotMissed
      <3>2. age <= Into + MINUTE * HOUR BY <2>1, <2>4 DEF Hourly
      <3> QED BY <1>0, <1>1, <2>2, <2>3, <3>1, <3>2
    <2>5. CASE ~(Into < MINUTE /\ age > Into)
      <3>1. age <= Into BY <1>1, <2>1, <2>3, <2>5 DEF Hourly
      <3> QED BY <1>0, <1>1, <2>2, <2>3, <3>1
    <2> QED BY <2>4, <2>5
  <1>5. ASSUME NEW j \in Jumps, Resync(j) PROVE Hourly'
        BY <1>3, <1>5 DEF Resync, Changed
  <1>6. CASE Plan BY <1>3, <1>6 DEF Plan
  <1>7. CASE Calm
    <2>1. CASE age' = 0 BY <1>3, <2>1
    <2>2. CASE age' = age
      <3>1. Into' = Into BY <1>7, IntoKept DEF Calm
      <3> QED BY <1>7, <2>2, <3>1 DEF Calm, Hourly
    <2> QED BY <1>7, <2>1, <2>2 DEF Calm
  <1> QED BY <1>4, <1>5, <1>6, <1>7, CalmStep

\* In the window at most an hour and a minute passes without a change.
LEMMA HourlyBound == ASSUME Types, Hourly, ~Watering PROVE age <= HourAndMinute
PROOF
  <1>1. Into \in Nat /\ Into < MINUTE * HOUR BY IntoType
  <1>2. age \in Nat BY DEF Types
  <1>3. IF Into < MINUTE THEN age <= Into + MINUTE * HOUR ELSE age <= Into BY DEF Hourly
  <1> QED BY <1>1, <1>2, <1>3, Constants, CapType

LEMMA PerChangeStep ==
    ASSUME Types, Types', Hourly, PerChange, [Next]_vars PROVE PerChange'
PROOF
  <1>1. /\ HourAndMinute \in Nat /\ HourAndMinute < Cap /\ Cap \in Nat BY CapType
  <1>2. dry \in Nat /\ changes \in Nat /\ age \in Nat BY DEF Types
  <1>3. dry' \in Nat /\ changes' \in Nat /\ age' \in Nat BY DEF Types
  <1>4. \A m, n \in Nat : m * n \in Nat /\ m * (n + 1) = m * n + m BY SMT
  <1> DEFINE allowed == HourAndMinute * changes
  <1>5. allowed \in Nat /\ HourAndMinute * (changes + 1) = allowed + HourAndMinute
        BY <1>1, <1>2, <1>4
  <1>6. ~Watering => age <= HourAndMinute BY HourlyBound
  <1>7. ~Watering => dry <= allowed + age BY DEF PerChange
  <1>8. (HourAndMinute * changes)' = HourAndMinute * changes'
        BY DEF HourAndMinute
  <1>9. HourAndMinute * changes' \in Nat BY <1>1, <1>3, <1>4
  <1> HIDE DEF allowed
  <1>10. ASSUME dry' = 0 PROVE PerChange' BY <1>3, <1>8, <1>9, <1>10 DEF PerChange
  <1>11. ASSUME UNCHANGED <<dry, changes, age>>, ~Watering' => ~Watering PROVE PerChange'
         BY <1>7, <1>8, <1>11 DEF PerChange, allowed
  <1>12. ASSUME Changed, ~Watering' => ~Watering PROVE PerChange'
    <2>1. dry' = dry /\ changes' = changes + 1 /\ age' = 0 BY <1>12, Zenon DEF Changed
    <2>2. HourAndMinute * changes' = allowed + HourAndMinute BY <1>5, <2>1
    <2> QED BY <1>1, <1>2, <1>5, <1>6, <1>7, <1>8, <1>12, <2>1, <2>2 DEF PerChange
  <1>13. CASE Tick
    <2>1. CASE InWindow(time) /\ InWindow(time') /\ ~Watering
      <3>1. dry' = Older(dry) /\ age' = Older(age) /\ changes' = changes
            BY <1>13, <2>1 DEF Tick
      <3>2. age' = age + 1 BY <1>1, <1>2, <1>6, <2>1, <3>1 DEF Older
      <3>3. dry' <= dry + 1 BY <1>2, <3>1 DEF Older
      <3>4. HourAndMinute * changes' = allowed BY <3>1 DEF allowed
      <3> QED BY <1>2, <1>3, <1>5, <1>7, <1>8, <2>1, <3>2, <3>3, <3>4 DEF PerChange
    <2>2. CASE ~(InWindow(time) /\ InWindow(time') /\ ~Watering)
      <3>1. dry' = 0 BY <1>13, <2>2 DEF Tick
      <3> QED BY <1>10, <3>1
    <2> QED BY <2>1, <2>2
  <1>14. ASSUME NEW j \in Jumps, Resync(j) PROVE PerChange'
    <2>1. Changed /\ pc' = pc BY <1>14, Zenon DEF Resync
    <2> QED BY <1>12, <2>1 DEF Watering
  <1>15. CASE BLYNK_WRITE
    <2>1. Changed \/ UNCHANGED <<dry, changes, age>> BY <1>15 DEF BLYNK_WRITE, history
    <2>2. ~Watering BY <1>15 DEF BLYNK_WRITE, Watering
    <2> QED BY <1>11, <1>12, <2>1, <2>2
  <1>16. CASE Plan BY <1>10, <1>16 DEF Plan
  <1>17. CASE \/ RunIdle \/ SameSecond \/ NewSecond \/ SetDisplay \/ AfterStart
              \/ BeforeStop \/ NotNow \/ Activate \/ Valve \/ UNCHANGED vars
    <2> USE <1>11 DEF Watering, history
    <2>1. CASE RunIdle BY <2>1 DEF RunIdle
    <2>2. CASE SameSecond BY <2>2 DEF SameSecond
    <2>3. CASE NewSecond BY <2>3 DEF NewSecond
    <2>4. CASE SetDisplay BY <2>4 DEF SetDisplay
    <2>5. CASE AfterStart BY <2>5 DEF AfterStart
    <2>6. CASE BeforeStop BY <2>6 DEF BeforeStop
    <2>7. CASE NotNow BY <2>7 DEF NotNow
    <2>8. CASE Activate BY <2>8 DEF Activate, Step
    <2>9. CASE Valve BY <2>9 DEF Valve, Step
    <2>10. CASE UNCHANGED vars BY <2>10 DEF vars
    <2> QED BY <1>17, <2>1, <2>2, <2>3, <2>4, <2>5, <2>6, <2>7, <2>8, <2>9, <2>10
  <1> QED BY <1>13, <1>14, <1>15, <1>16, <1>17 DEF Next, Loop

LEMMA RegularStep ==
    ASSUME Types, Types', Valves, Window, Window', Prompt, Regular, [Next]_vars
    PROVE  Regular'
PROOF
  <1>0. /\ MINUTE \in Nat \ {0} /\ MINUTE * HOUR \in Nat /\ MINUTE < MINUTE * HOUR
        BY Constants
  <1>1. Into \in Nat /\ Into < MINUTE * HOUR BY IntoType
  <1>2. interval \in 1 .. HOUR - 1 BY Settings DEF Types
  <1>3. /\ MINUTE * interval \in Nat /\ MINUTE <= MINUTE * interval
        /\ MINUTE * interval + MINUTE <= MINUTE * HOUR BY <1>2, IntervalRange
  <1>4. CASE Tick
    <2> SUFFICES ASSUME ~Watering', steady'
                 PROVE IF Into' < MINUTE
                       THEN Into' < age' /\ age' <= Into' + MINUTE * interval'
                       ELSE age' + MINUTE * HOUR <= Into' + MINUTE * interval'
        BY DEF Regular
    <2>1. ~Watering /\ interval' = interval BY <1>4 DEF Tick, Watering, set
    <2>2. Into' = IF Into = MINUTE * HOUR - 1 THEN 0 ELSE Into + 1 BY <1>4, IntoStep
    <2>3. steady /\ InWindow(time') BY <1>4, Zenon DEF Tick
    <2>4. InWindow(time) BY <2>3 DEF Window
    <2>5. age' = Older(age) BY <1>4, <2>1, <2>3, <2>4 DEF Tick
    <2>6. age \in Nat /\ Cap \in Nat /\ MINUTE * HOUR + MINUTE < Cap
          BY CapType DEF Types
    <2>7. IF Into < MINUTE THEN Into < age /\ age <= Into + MINUTE * interval
                           ELSE age + MINUTE * HOUR <= Into + MINUTE * interval
          BY <2>1, <2>3 DEF Regular
    <2>8. age' = age + 1
      <3>1. age < Cap BY <1>0, <1>1, <1>3, <2>6, <2>7
      <3> QED BY <2>5, <3>1 DEF Older
    <2>9. CASE Into < MINUTE
      <3>1. Into + 1 < MINUTE BY <1>1, <1>4, <2>1, <2>6, <2>7, <2>9, MinuteNotMissed
      <3> QED BY <1>0, <1>1, <1>3, <2>1, <2>2, <2>6, <2>7, <2>8, <2>9, <3>1
    <2>10. CASE ~(Into < MINUTE)
           BY <1>0, <1>1, <1>3, <2>1, <2>2, <2>6, <2>7, <2>8, <2>10
    <2> QED BY <2>9, <2>10
  <1>5. ASSUME NEW j \in Jumps, Resync(j) PROVE Regular'
    <2>1. ~steady' BY <1>5, Zenon DEF Resync, Changed
    <2> QED BY <2>1 DEF Regular
  <1>6. CASE Plan
    <2>1. Replan BY <1>6, PlanSets
    <2>2. MINUTE <= IntoOf(time, next_minutes')
          /\ MINUTE * HOUR <= IntoOf(time, next_minutes') + MINUTE * interval
          BY <1>2, <2>1, PlanLemma DEF Replan, Types
    <2>3. time' = time /\ interval' = interval /\ age' = 0 BY <1>6 DEF Plan, Step, set
    <2>4. Into' = IntoOf(time, next_minutes') BY <2>3 DEF Into, IntoOf, minute, Past
    <2>5. Into' \in Nat BY <2>3, <2>4, IntoRange DEF Types
    <2> QED BY <1>0, <1>3, <2>2, <2>3, <2>4, <2>5 DEF Regular
  <1>7. CASE Calm
    <2>1. Into' = Into BY <1>7, IntoKept DEF Calm
    <2> QED BY <1>7, <2>1 DEF Calm, Regular
  <1> QED BY <1>4, <1>5, <1>6, <1>7, CalmStep

LEMMA PromptTick ==
    ASSUME Types, Valves, Prompt, Tick PROVE Prompt'
PROOF
  <1> SUFFICES ASSUME ~Watering', Into' < MINUTE, age' > Into'
               PROVE  CASE pc' = "top"  -> \/ Into' < lag'
                                           \/ /\ Since' <= lag' /\ Since' <= Into'
                                              /\ Into' < Since' + 2 * MaxLag
                        [] pc' = "look" -> \/ Into' < lag' + MaxLag
                                           \/ /\ lag' <= Since' /\ Since' <= Into'
                                              /\ Into' < Since' + 2 * MaxLag
                                              /\ Into' < lag' + 3 * MaxLag
                        [] OTHER        -> Into' < lag' + 3 * MaxLag
      BY DEF Prompt
  <1>1. Into \in Nat BY IntoType
  <1>2. /\ MINUTE \in Nat \ {0} /\ MINUTE * HOUR \in Nat /\ MINUTE < MINUTE * HOUR
        /\ MaxLag \in Nat /\ TicksADay \in Nat /\ MINUTE * HOUR <= TicksADay
        BY Constants
  <1>3. pc' = pc /\ ~Watering BY DEF Tick, Watering
  <1>4. wait = 0 /\ lag \in Nat /\ age \in Nat BY <1>3 DEF Types, Valves, Watering
  <1>5. lag' = lag + 1 /\ lag < MaxLag BY <1>2, <1>4 DEF Tick
  <1>6. age' \in Nat /\ age' <= age + 1 BY <1>4 DEF Tick, Older
  <1>7. Into' = IF Into = MINUTE * HOUR - 1 THEN 0 ELSE Into + 1 BY IntoStep
  <1>8. CASE Into' = 0
    <2>1. Into' < lag' /\ Into' < lag' + MaxLag /\ Into' < lag' + 3 * MaxLag
          BY <1>2, <1>4, <1>5, <1>8
    <2> QED BY <2>1
  <1>9. CASE Into' = Into + 1
    <2>1. Into < MINUTE /\ age > Into BY <1>1, <1>2, <1>4, <1>6, <1>9
    <2>2. Into + 1 < MINUTE BY <1>3, <2>1, MinuteNotMissed
    <2>3. Since \in Nat /\ (Since <= Into => Since' = Since + 1)
      <3>1. Since \in Nat BY SinceStep, <1>2
      <3>2. Since <= Into => Since + 1 < TicksADay BY <1>1, <1>2, <2>2, <3>1
      <3> QED BY <3>1, <3>2, SinceStep
    <2>4. CASE pc = "top"
      <3>1. \/ Into < lag
            \/ Since <= lag /\ Since <= Into /\ Into < Since + 2 * MaxLag
            BY <1>3, <2>1, <2>4 DEF Prompt
      <3> QED BY <1>1, <1>2, <1>3, <1>4, <1>5, <1>9, <2>3, <2>4, <3>1
    <2>5. CASE pc = "look"
      <3>1. \/ Into < lag + MaxLag
            \/ /\ lag <= Since /\ Since <= Into
               /\ Into < Since + 2 * MaxLag /\ Into < lag + 3 * MaxLag
            BY <1>3, <2>1, <2>5 DEF Prompt
      <3> QED BY <1>1, <1>2, <1>3, <1>4, <1>5, <1>9, <2>3, <2>5, <3>1
    <2>6. CASE pc \notin {"top", "look"}
      <3>1. Into < lag + 3 * MaxLag BY <1>3, <2>1, <2>6 DEF Prompt
      <3>2. Into' < lag' + 3 * MaxLag BY <1>1, <1>2, <1>4, <1>5, <1>9, <3>1
      <3> QED BY <1>3, <2>6, <3>2
    <2> QED BY <2>4, <2>5, <2>6
  <1> QED BY <1>7, <1>8, <1>9

LEMMA PromptStep ==
    ASSUME Types, Types', Valves, Window, Prompt, [Next]_vars PROVE Prompt'
PROOF
  <1>1. Into \in Nat BY IntoType
  <1>2. MaxLag \in Nat /\ lag \in Nat /\ lag <= MaxLag BY Constants DEF Types
  <1>3. Since \in Nat BY Constants DEF Since, Types
  <1>4. ASSUME age' = 0 PROVE Prompt'
    <2>1. Into' \in Nat
      <3>1. /\ time' \in 0 .. TicksADay - 1 /\ next_minutes' \in 0 .. HOUR - 1
            BY DEF Types
      <3>2. Into' = IntoOf(time', next_minutes') BY DEF Into, IntoOf, minute, Past
      <3> QED BY <3>1, <3>2, IntoRange
    <2>2. ~(age' > Into') BY <1>4, <2>1
    <2> QED BY <2>2 DEF Prompt
  <1>5. CASE Tick BY <1>5, PromptTick
  <1>6. ASSUME NEW j \in Jumps, Resync(j) PROVE Prompt'
        BY <1>4, <1>6 DEF Resync, Changed
  <1>7. CASE Plan BY <1>4, <1>7 DEF Plan
  <1>8. CASE ~Tick /\ (\A j \in Jumps : ~Resync(j)) /\ ~Plan
    <2>1. Calm BY <1>8, CalmStep
    <2>2. Into' = Into BY <2>1, IntoKept DEF Calm
    <2>3. CASE age' = 0 BY <1>4, <2>3
    <2>4. CASE age' = age
      <3> SUFFICES ASSUME ~Watering', Into < MINUTE, age > Into PROVE Prompt'
          BY <2>2, <2>4 DEF Prompt
      <3>1. ~Watering BY <2>1 DEF Calm
      <3>2. InWindow(time) BY <1>1 DEF Window, Types
      <3>3. CASE RunIdle \/ BLYNK_WRITE
        <4>1. pc = "top" /\ pc' = "look" /\ lag' = 0 /\ UNCHANGED <<time, prevDisplay>>
              BY <3>3 DEF RunIdle, BLYNK_WRITE, plan
        <4>2. Since' = Since BY <4>1 DEF Since
        <4>3. \/ Into < lag
              \/ Since <= lag /\ Since <= Into /\ Into < Since + 2 * MaxLag
              BY <3>1, <4>1 DEF Prompt
        <4>4. \/ Into' < lag' + MaxLag
              \/ /\ lag' <= Since' /\ Since' <= Into'
                 /\ Into' < Since' + 2 * MaxLag /\ Into' < lag' + 3 * MaxLag
              BY <1>1, <1>2, <1>3, <2>2, <4>1, <4>2, <4>3
        <4> QED BY <4>1, <4>4 DEF Prompt
      <3>4. CASE SameSecond
        <4>1. /\ pc = "look" /\ pc' = "top" /\ time = prevDisplay
              /\ UNCHANGED <<time, prevDisplay, lag>>
              BY <3>4 DEF SameSecond, Step, plan
        <4>2. Since = 0 /\ Since' = 0 BY <4>1 DEF Since, Types
        <4>3. \/ Into < lag + MaxLag
              \/ Into < Since + 2 * MaxLag BY <3>1, <4>1 DEF Prompt
        <4>4. Since' <= lag' /\ Since' <= Into' /\ Into' < Since' + 2 * MaxLag
              BY <1>1, <1>2, <2>2, <4>1, <4>2, <4>3
        <4> QED BY <4>1, <4>4 DEF Prompt
      <3>5. CASE NewSecond
        <4>1. pc = "look" /\ pc' = "display" /\ lag' = lag
              BY <3>5 DEF NewSecond, Step
        <4>2. Into < lag + MaxLag \/ Into < lag + 3 * MaxLag BY <3>1, <4>1 DEF Prompt
        <4>3. Into' < lag' + 3 * MaxLag BY <1>1, <1>2, <2>2, <4>1, <4>2
        <4> QED BY <4>1, <4>3 DEF Prompt
      <3>6. CASE SetDisplay \/ AfterStart \/ BeforeStop
        <4>1. /\ pc \in {"display", "hour", "hour2"} /\ lag' = lag
              /\ pc' \in {"hour", "hour2", "minute"}
          <5>1. CASE SetDisplay BY <5>1 DEF SetDisplay, Step
          <5>2. CASE AfterStart BY <3>2, <5>2 DEF AfterStart, Step, InWindow
          <5>3. CASE BeforeStop BY <3>2, <5>3 DEF BeforeStop, Step, InWindow
          <5> QED BY <3>6, <5>1, <5>2, <5>3
        <4>2. Into' < lag' + 3 * MaxLag BY <2>2, <3>1, <4>1 DEF Prompt
        <4> QED BY <4>1, <4>2 DEF Prompt
      <3>7. CASE NotNow
        <4>1. minute(time) = next_minutes BY IntoRange DEF Types, Into
        <4> QED BY <3>7, <4>1 DEF NotNow
      <3>8. CASE Activate \/ Valve
        <4>1. pc' \in {"valve", "plan"} BY <3>8 DEF Activate, Valve, Step
        <4> QED BY <4>1 DEF Watering
      <3>9. CASE UNCHANGED vars
        <4>1. UNCHANGED <<time, next_minutes, prevDisplay, pc, lag, age>>
              BY <3>9 DEF vars, plan, history
        <4>2. Since' = Since BY <4>1 DEF Since
        <4> QED BY <2>2, <4>1, <4>2 DEF Prompt, Watering
      <3> QED BY <1>8, <3>3, <3>4, <3>5, <3>6, <3>7, <3>8, <3>9 DEF Next, Loop
    <2> QED BY <2>1, <2>3, <2>4 DEF Calm
  <1> QED BY <1>5, <1>6, <1>7, <1>8

-----------------------------------------------------------------------------
(* The theorems.                                                            *)
\* The inductive invariant holds for every setting, every pass of loop() and
\* every new setting of the clock.
THEOREM IrrigationInvariant == Spec => []IInv
PROOF
  <1>1. Init => IInv
    <2> SUFFICES ASSUME Init PROVE IInv OBVIOUS
    <2>1. Types BY TypesInit
    <2>2. age = 0 /\ ~steady BY Zenon DEF Init
    <2>3. Valves /\ Window BY <2>2 DEF Init, Valves, Window
    <2>4. Into \in Nat BY <2>1, IntoType
    <2>5. Prompt BY <2>2, <2>4 DEF Prompt
    <2>6. Hourly BY <2>2, <2>4, Constants DEF Hourly
    <2>7. Regular BY <2>2 DEF Regular
    <2>8. PerChange
      <3>1. dry = 0 /\ changes = 0 /\ age = 0 BY Zenon DEF Init
      <3> QED BY <3>1, CapType DEF PerChange
    <2> QED BY <2>1, <2>3, <2>5, <2>6, <2>7, <2>8 DEF IInv
  <1>2. IInv /\ [Next]_vars => IInv'
    <2> SUFFICES ASSUME IInv, [Next]_vars PROVE IInv' OBVIOUS
    <2>1. Types' /\ Valves' /\ Window'
          BY TypesStep, ValvesStep, WindowStep DEF IInv
    <2> QED BY <2>1, PromptStep, HourlyStep, RegularStep, PerChangeStep DEF IInv
  <1> QED BY <1>1, <1>2, PTL DEF Spec

\* Whatever is set and however the clock jumps, a valve is open only inside the
\* sequence of sequential_timers(), and the first to open is the last to close.
THEOREM ValvesTheorem == Spec => []ValvesNested
PROOF
  <1>1. IInv => ValvesNested
    <2> SUFFICES ASSUME IInv PROVE ValvesNested OBVIOUS
    <2>1. ~Watering => open = {} BY DEF IInv, Valves, Watering
    <2>2. \A n \in {2, 3} : n \in open => n - 1 \in open BY DEF IInv, Valves
    <2> QED BY <2>1, <2>2 DEF ValvesNested
  <1> QED BY <1>1, IrrigationInvariant, PTL

\* In the window the valves never stay closed for more than an hour and the
\* minute in which loop() notices, and as long again for every time the clock or
\* the window was set since they were last opened, wherever it was set to.
THEOREM HourTheorem == Spec => []AnHourPerChange
PROOF
  <1>1. IInv => AnHourPerChange
    <2> SUFFICES ASSUME IInv, ~Watering PROVE dry <= HourAndMinute * (changes + 1)
        BY DEF AnHourPerChange
    <2>1. age <= HourAndMinute /\ HourAndMinute \in Nat BY HourlyBound, CapType DEF IInv
    <2>2. dry \in Nat /\ changes \in Nat /\ age \in Nat BY DEF IInv, Types
    <2>3. dry <= HourAndMinute * changes + age BY DEF IInv, PerChange
    <2>4. HourAndMinute * changes \in Nat
          /\ HourAndMinute * (changes + 1) = HourAndMinute * changes + HourAndMinute
      <3>1. \A m, n \in Nat : m * n \in Nat /\ m * (n + 1) = m * n + m BY SMT
      <3> QED BY <2>1, <2>2, <3>1
    <2> QED BY <2>1, <2>2, <2>3, <2>4
  <1> QED BY <1>1, IrrigationInvariant, PTL

\* On one clock and one setting the next watering starts in the minute that is
\* `interval' minutes after the last: no pass of loop() misses it.
THEOREM IntervalTheorem == Spec => []EveryInterval
PROOF
  <1>1. IInv => EveryInterval
    <2> SUFFICES ASSUME IInv, steady, ~Watering PROVE age <= MINUTE * (interval + 1)
        BY DEF EveryInterval
    <2>1. Into \in Nat /\ Into < MINUTE * HOUR BY IntoType DEF IInv
    <2>2. age \in Nat /\ interval \in 1 .. HOUR - 1 BY Settings DEF IInv, Types
    <2>3. IF Into < MINUTE THEN Into < age /\ age <= Into + MINUTE * interval
                           ELSE age + MINUTE * HOUR <= Into + MINUTE * interval
          BY DEF IInv, Regular
    <2> QED BY <2>1, <2>2, <2>3, Constants, IntervalRange
  <1> QED BY <1>1, IrrigationInvariant, PTL
=============================================================================
