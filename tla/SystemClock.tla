---------------------------- MODULE SystemClock -----------------------------
(* The seconds counter of the Time library (libraries/Time-master/Time.cpp) *)
(* that the irrigation and NTP sketches run on: now() turns the wrapping    *)
(* millis() into seconds and asks the sync provider for the time when the   *)
(* last answer is older than syncInterval.  The provider blocks (getNtpTime *)
(* waits up to 1.5 s), so the clock runs on while now() is in the call.     *)
EXTENDS Naturals

CONSTANTS
    MILLIS,         \* values of the 32-bit millis(): it wraps
    SECOND,         \* millis() ticks in a second: the 1000 of now()
    Intervals,      \* sync intervals set: 300 by default, 3600 in timers.ino
    Times,          \* answers of the provider, seconds since 1970
    MaxTicks        \* bound: ticks between two syncs

ASSUME ClockAssumption ==
    /\ SECOND \in Nat \ {0} /\ MILLIS \in Nat /\ MILLIS > 2 * SECOND
    /\ Intervals \subseteq Nat \ {0} /\ Intervals # {}
    /\ Times \subseteq Nat \ {0}
    /\ MaxTicks \in Nat

VARIABLES
    millis, prevMillis,              \* modulo MILLIS
    sysTime, nextSyncTime, syncInterval, Status,
    getTimePtr,                      \* a provider has been set
    pc,                              \* "idle", in now(), or in the provider
    base, ticks     \* history: the time last set, and the ticks since then

vars == <<millis, prevMillis, sysTime, nextSyncTime, syncInterval, Status,
          getTimePtr, pc, base, ticks>>

Init ==
    /\ millis = 0 /\ prevMillis = 0
    /\ sysTime = 0 /\ nextSyncTime = 0 /\ syncInterval \in Intervals
    /\ Status = "timeNotSet" /\ getTimePtr = FALSE
    /\ pc = "idle"
    /\ base = 0 /\ ticks = 0

gap == (millis + MILLIS - prevMillis) % MILLIS     \* unsigned subtraction

\* now() is called at least once per wrap of millis().
Tick ==
    /\ ticks < MaxTicks /\ gap < MILLIS - 1
    /\ millis' = (millis + 1) % MILLIS
    /\ ticks' = ticks + 1
    /\ UNCHANGED <<prevMillis, sysTime, nextSyncTime, syncInterval, Status,
                   getTimePtr, pc, base>>

\* now() is entered from a sketch, from hour(), minute() or timeStatus().
CallNow ==
    /\ pc = "idle" /\ pc' = "now"
    /\ UNCHANGED <<millis, prevMillis, sysTime, nextSyncTime, syncInterval,
                   Status, getTimePtr, base, ticks>>

\* Mutant of CatchUp: the part of a second already gone is dropped.
CatchUpDropsRest ==
    /\ pc = "now"
    /\ sysTime' = sysTime + gap \div SECOND
    /\ prevMillis' = IF gap >= SECOND THEN millis ELSE prevMillis
    /\ pc' = IF nextSyncTime <= sysTime' /\ getTimePtr THEN "asked" ELSE "idle"
    /\ UNCHANGED <<millis, nextSyncTime, syncInterval, Status, getTimePtr,
                   base, ticks>>
CatchUp ==
    /\ pc = "now"
    /\ sysTime' = sysTime + gap \div SECOND
    /\ prevMillis' = (prevMillis + SECOND * (gap \div SECOND)) % MILLIS
    /\ pc' = IF nextSyncTime <= sysTime' /\ getTimePtr THEN "asked" ELSE "idle"
    /\ UNCHANGED <<millis, nextSyncTime, syncInterval, Status, getTimePtr,
                   base, ticks>>

\* Mutant of setTime: the next sync is left where it was.
setTimeOnly(t) ==
    /\ sysTime' = t
    /\ Status' = "timeSet"
    /\ prevMillis' = millis
    /\ base' = t /\ ticks' = 0
    /\ UNCHANGED nextSyncTime
\* Mutant of setTime: the seconds not yet counted are added to the new time.
setTimeStale(t) ==
    /\ sysTime' = t
    /\ nextSyncTime' = t + syncInterval
    /\ Status' = "timeSet"
    /\ base' = t /\ ticks' = 0
    /\ UNCHANGED prevMillis
setTime(t) ==
    /\ sysTime' = t
    /\ nextSyncTime' = t + syncInterval
    /\ Status' = "timeSet"
    /\ prevMillis' = millis
    /\ base' = t /\ ticks' = 0

Answer(t) ==
    /\ pc = "asked" /\ pc' = "idle"
    /\ setTime(t)
    /\ UNCHANGED <<millis, syncInterval, getTimePtr>>

NoAnswer ==
    /\ pc = "asked" /\ pc' = "idle"
    /\ nextSyncTime' = sysTime + syncInterval
    /\ Status' = IF Status = "timeNotSet" THEN "timeNotSet" ELSE "timeNeedsSync"
    /\ UNCHANGED <<millis, prevMillis, sysTime, syncInterval, getTimePtr,
                   base, ticks>>

\* The sketch sets the clock itself.
SetByHand(t) ==
    /\ pc = "idle"
    /\ setTime(t)
    /\ UNCHANGED <<millis, syncInterval, getTimePtr, pc>>

setSyncProvider ==
    /\ pc = "idle" /\ pc' = "now"
    /\ getTimePtr' = TRUE
    /\ nextSyncTime' = sysTime
    /\ UNCHANGED <<millis, prevMillis, sysTime, syncInterval, Status, base, ticks>>

setSyncInterval(n) ==
    /\ pc = "idle"
    /\ syncInterval' = n
    /\ nextSyncTime' = sysTime + n
    /\ UNCHANGED <<millis, prevMillis, sysTime, Status, getTimePtr, pc, base,
                   ticks>>

Next ==
    \/ Tick \/ CallNow \/ CatchUp \/ NoAnswer \/ setSyncProvider
    \/ \E t \in Times : Answer(t) \/ SetByHand(t)
    \/ \E n \in Intervals : setSyncInterval(n)

Spec == Init /\ [][Next]_vars

-----------------------------------------------------------------------------
TypeOK ==
    /\ millis \in 0 .. MILLIS - 1 /\ prevMillis \in 0 .. MILLIS - 1
    /\ {sysTime, nextSyncTime, base} \subseteq Nat
    /\ syncInterval \in Intervals
    /\ Status \in {"timeNotSet", "timeNeedsSync", "timeSet"}
    /\ getTimePtr \in BOOLEAN /\ pc \in {"idle", "now", "asked"}
    /\ ticks \in 0 .. MaxTicks

\* No tick is lost or counted twice: the seconds counted plus the part of a
\* second pending are exactly the ticks since the clock was set, whenever now()
\* was called, across wraps of millis() and failed, blocking sync attempts.
TimeConserved == SECOND * sysTime + gap = SECOND * base + ticks

\* Outside now() a provider is never overdue: every return of now() leaves the
\* next attempt in the future, whether the provider answered or not.
SyncAhead == pc = "idle" /\ getTimePtr => nextSyncTime > sysTime
=============================================================================
