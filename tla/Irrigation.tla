----------------------------- MODULE Irrigation -----------------------------
(* timers.ino: between the hours start and stop1, at the minute             *)
(* next_minutes, loop() opens three valves one after the other and closes   *)
(* them in reverse order, then sets next_minutes `interval' minutes on.     *)
(* The six numbers come from the Blynk application.  Each call of hour()    *)
(* and minute() reads the clock anew, and a call of now() may resynchronise *)
(* it, so the clock may jump between any two of them.                       *)
(*                                                                          *)
(* Time is the time of day in ticks: a tick stands for the second at which  *)
(* now() changes, MINUTE ticks a minute, HOUR minutes an hour, DAY hours a  *)
(* day (60, 60 and 24 in the sketch).                                       *)
EXTENDS Naturals

CONSTANTS
    MINUTE, HOUR, DAY,
    Timers,         \* values of timer1, timer2, timer3, in ticks
    Hours,          \* values of start and stop1
    Intervals,      \* values of interval
    FirstTimers, FirstStart, FirstStop, FirstInterval,  \* 10, 5, 1; 8; 17; 2
    Jumps,          \* resynchronisations: ticks the clock is set forward
    MaxLag,         \* ticks a pass of loop() takes, its delays apart; after a
                    \* stale prevDisplay a minute has room for four
    MaxWrites, MaxJumps     \* bounds: numbers written, resynchronisations

ASSUME IrrigationAssumption ==
    /\ MINUTE \in Nat \ {0} /\ HOUR \in Nat \ {0, 1} /\ DAY \in Nat \ {0}
    /\ Timers \subseteq Nat /\ Hours \subseteq 0 .. DAY - 1
    /\ Intervals \subseteq 1 .. HOUR - 1
    /\ FirstTimers \in [1 .. 3 -> Timers]
    /\ FirstStart \in Hours /\ FirstStop \in Hours /\ FirstInterval \in Intervals
    /\ Jumps \subseteq Nat
    /\ MaxLag \in Nat /\ 4 * MaxLag <= MINUTE
    /\ MaxWrites \in Nat /\ MaxJumps \in Nat

VARIABLES
    time, wait,             \* the clock, and the rest of a delay()
    timer, start, stop1, interval,
    prevDisplay, next_minutes, firstTime,
    open,                   \* the valves D1, D2, D3 that are open
    pc, todo,               \* next statement, rest of the valve sequence
    lag, writes, jumps,
    \* Histories, which no action reads but to count on:
    dry,        \* ticks in the window since the last watering, saturating
    changes,    \* since then: how often the clock or the window was set
    age,        \* ticks of dry since the last of these, saturating
    steady      \* since the last watering in the window, on one clock and setting

env  == <<writes, jumps>>
set  == <<timer, start, stop1, interval>>
plan == <<prevDisplay, next_minutes, firstTime>>
history == <<dry, changes, age, steady>>
vars == <<time, wait, set, plan, open, pc, todo, lag, env, history>>

TicksADay == MINUTE * HOUR * DAY
HourAndMinute == MINUTE * (HOUR + 1)
Cap == HourAndMinute * (MaxWrites + MaxJumps + 1) + 1
hour(t) == t \div (MINUTE * HOUR)
minute(t) == (t \div MINUTE) % HOUR
InWindow(t) == hour(t) >= start /\ hour(t) <= stop1
Watering == pc \in {"valve", "plan"}

\* sequential_timers: the delay behind each of its six digitalWrite()s.
Pause(n) == IF n <= 3 THEN timer[n] ELSE IF n < 6 THEN 1 ELSE 0

Init ==
    /\ time \in 0 .. TicksADay - 1 /\ wait = 0
    /\ timer = FirstTimers
    /\ start = FirstStart /\ stop1 = FirstStop /\ interval = FirstInterval
    /\ prevDisplay = TicksADay              \* 0 in 1970: no time of today
    /\ next_minutes = 0 /\ firstTime = TRUE
    /\ open = {} /\ pc = "top" /\ todo = 0
    /\ lag = 0 /\ writes = 0 /\ jumps = 0
    /\ dry = 0 /\ changes = 0 /\ age = 0 /\ steady = FALSE

-----------------------------------------------------------------------------
(* The clock.  A pass of loop() is never longer than MaxLag ticks, the      *)
(* delays of sequential_timers() apart.                                     *)
Older(a) == IF a < Cap THEN a + 1 ELSE a

Tick ==
    /\ wait > 0 \/ lag < MaxLag
    /\ time' = (time + 1) % TicksADay
    /\ wait' = IF wait > 0 THEN wait - 1 ELSE 0
    /\ lag' = IF wait > 0 THEN lag ELSE lag + 1
    /\ IF InWindow(time) /\ InWindow(time') /\ ~Watering
       THEN dry' = Older(dry) /\ age' = Older(age) /\ changes' = changes
       ELSE dry' = 0 /\ age' = 0 /\ changes' = 0
    /\ steady' = (steady /\ InWindow(time'))
    /\ UNCHANGED <<set, plan, open, pc, todo, env>>

\* The clock or the window is set: the valves may stay closed for another hour.
Changed == changes' = changes + 1 /\ age' = 0 /\ steady' = FALSE /\ dry' = dry

\* now() is called in every pass, not during a delay, and may set the clock.
Resync(j) ==
    /\ pc \in {"look", "display", "hour", "hour2", "minute", "plan"}
    /\ jumps < MaxJumps
    /\ time' = (time + j) % TicksADay
    /\ jumps' = jumps + 1
    /\ Changed
    /\ UNCHANGED <<wait, set, plan, open, pc, todo, lag, writes>>

-----------------------------------------------------------------------------
(* loop()                                                                   *)
Step(next) ==
    /\ wait = 0
    /\ pc' = next
    /\ UNCHANGED <<time, env>>

\* Blynk.run() delivers nothing, or one of the numbers.
RunIdle ==
    /\ pc = "top" /\ wait = 0
    /\ pc' = "look" /\ lag' = 0
    /\ UNCHANGED <<time, wait, set, plan, open, todo, env, history>>

BLYNK_WRITE ==
    /\ pc = "top" /\ wait = 0 /\ writes < MaxWrites
    /\ \/ \E n \in 1 .. 3, v \in Timers : timer' = [timer EXCEPT ![n] = v]
          /\ UNCHANGED <<start, stop1, interval, history>>
       \/ \E h \in Hours : start' = h /\ Changed
          /\ UNCHANGED <<timer, stop1, interval>>
       \/ \E h \in Hours : stop1' = h /\ Changed
          /\ UNCHANGED <<timer, start, interval>>
       \/ \E v \in Intervals : interval' = v /\ steady' = FALSE
          /\ UNCHANGED <<timer, start, stop1, dry, changes, age>>
    /\ writes' = writes + 1
    /\ pc' = "look" /\ lag' = 0
    /\ UNCHANGED <<time, wait, plan, open, todo, jumps>>

\* Only when the second has changed is there anything to do.
SameSecond ==
    /\ pc = "look" /\ time = prevDisplay
    /\ Step("top")
    /\ UNCHANGED <<wait, set, plan, open, todo, lag, history>>

NewSecond ==
    /\ pc = "look" /\ time # prevDisplay
    /\ Step("display")
    /\ UNCHANGED <<wait, set, plan, open, todo, lag, history>>

\* prevDisplay is set from another reading of the clock than was compared.
SetDisplay ==
    /\ pc = "display"
    /\ Step("hour")
    /\ prevDisplay' = time
    /\ UNCHANGED <<wait, set, next_minutes, firstTime, open, todo, lag, history>>

\* hour() >= start and hour() <= stop1 are two readings of the clock.
AfterStart ==
    /\ pc = "hour"
    /\ Step(IF hour(time) >= start THEN "hour2" ELSE "top")
    /\ UNCHANGED <<wait, set, plan, open, todo, lag, history>>

\* Mutant of BeforeStop: the hour stop1 itself is left out.
BeforeStopStrict ==
    /\ pc = "hour2"
    /\ Step(IF hour(time) < stop1 THEN "minute" ELSE "top")
    /\ UNCHANGED <<wait, set, plan, open, todo, lag, history>>
BeforeStop ==
    /\ pc = "hour2"
    /\ Step(IF hour(time) <= stop1 THEN "minute" ELSE "top")
    /\ UNCHANGED <<wait, set, plan, open, todo, lag, history>>

NotNow ==
    /\ pc = "minute" /\ minute(time) # next_minutes /\ ~firstTime
    /\ Step("top")
    /\ UNCHANGED <<wait, set, plan, open, todo, lag, history>>

Activate ==
    /\ pc = "minute" /\ (minute(time) = next_minutes \/ firstTime)
    /\ Step("valve")
    /\ todo' = 1
    /\ UNCHANGED <<wait, set, plan, open, lag, history>>

\* Mutant of Valve: the valves are closed in the order they were opened.
ValveForward ==
    /\ pc = "valve"
    /\ Step(IF todo < 6 THEN "valve" ELSE "plan")
    /\ open' = CASE todo <= 3 -> open \cup {todo} [] OTHER -> open \ {todo - 3}
    /\ wait' = Pause(todo)
    /\ todo' = IF todo < 6 THEN todo + 1 ELSE 0
    /\ UNCHANGED <<set, plan, lag, history>>
\* One digitalWrite() of sequential_timers() and the delay() that follows it.
Valve ==
    /\ pc = "valve"
    /\ Step(IF todo < 6 THEN "valve" ELSE "plan")
    /\ open' = CASE todo <= 3 -> open \cup {todo} [] OTHER -> open \ {7 - todo}
    /\ wait' = Pause(todo)
    /\ todo' = IF todo < 6 THEN todo + 1 ELSE 0
    /\ UNCHANGED <<set, plan, lag, history>>

\* Mutant of Plan: the hour is taken to have a minute HOUR.
PlanLate ==
    /\ pc = "plan"
    /\ Step("top")
    /\ next_minutes' = LET n == minute(time) + interval
                       IN  IF n > HOUR THEN n - HOUR ELSE n
    /\ firstTime' = FALSE
    /\ dry' = 0 /\ changes' = 0 /\ age' = 0 /\ steady' = InWindow(time)
    /\ UNCHANGED <<wait, set, prevDisplay, open, todo, lag>>
\* Mutant of Plan: the minute does not wrap at the full hour.
PlanNoWrap ==
    /\ pc = "plan"
    /\ Step("top")
    /\ next_minutes' = minute(time) + interval
    /\ firstTime' = FALSE
    /\ dry' = 0 /\ changes' = 0 /\ age' = 0 /\ steady' = InWindow(time)
    /\ UNCHANGED <<wait, set, prevDisplay, open, todo, lag>>
Plan ==
    /\ pc = "plan"
    /\ Step("top")
    /\ next_minutes' = LET n == minute(time) + interval
                       IN  IF n > HOUR - 1 THEN n - HOUR ELSE n
    /\ firstTime' = FALSE
    /\ dry' = 0 /\ changes' = 0 /\ age' = 0 /\ steady' = InWindow(time)
    /\ UNCHANGED <<wait, set, prevDisplay, open, todo, lag>>

Loop == RunIdle \/ BLYNK_WRITE \/ SameSecond \/ NewSecond \/ SetDisplay
        \/ AfterStart \/ BeforeStop \/ NotNow \/ Activate \/ Valve \/ Plan

Next == Tick \/ (\E j \in Jumps : Resync(j)) \/ Loop

\* loop() is called for ever and the clock runs.
Spec == Init /\ [][Next]_vars /\ WF_vars(Loop) /\ WF_vars(Tick)

-----------------------------------------------------------------------------
\* On one clock and one setting, watering starts again `interval' minutes
\* after the last one ended, never later: no pass of loop() misses the minute.
EveryInterval ==
    steady /\ ~Watering => age <= MINUTE * (interval + 1)

\* A resynchronisation, or a window set anew, can jump over the minute, and the
\* window can open just behind it: then the valves stay closed until the minute
\* comes again, an hour later.  In the window they stay closed for an hour and
\* a minute, and as long again for every such change since they last opened.
AnHourPerChange == ~Watering => dry <= HourAndMinute * (changes + 1)

\* Waterings go on, day after day, when the window is not empty.
WatersAgain == []<>(start <= stop1 => Watering)

\* A valve is open only inside the sequence, and a later one only while the
\* earlier ones are: the first to open is the last to close.
ValvesNested ==
    /\ ~Watering => open = {}
    /\ \A n \in {2, 3} : n \in open => n - 1 \in open
=============================================================================
