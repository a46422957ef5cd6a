--------------------------- MODULE NtpClock_proof ---------------------------
(* Proofs about the clock of the Time library, for every width of millis(), *)
(* sync interval and provider, and about the network clock of the sketches, *)
(* for every network: getNtpTime() is a provider as the library asks for,   *)
(* and the clock it sets is never ahead of the true time and behind it by a *)
(* bound.                                                                   *)
EXTENDS NtpClock, TLAPS

-----------------------------------------------------------------------------
(* now() and the synchronisation, whatever the provider answers.            *)

\* The remainder of a number below twice the divisor.
LEMMA ModLemma ==
    ASSUME NEW n \in Nat \ {0}, NEW a \in 0 .. 2 * n - 1
    PROVE  /\ a % n \in 0 .. n - 1
           /\ a < n => a % n = a
           /\ a >= n => a % n = a - n
  BY SMT

\* A whole number of seconds is no longer than the ticks it is taken from.
LEMMA SecondsLemma ==
    ASSUME NEW s \in Nat \ {0}, NEW g \in Nat
    PROVE  g \div s \in Nat /\ s * (g \div s) \in Nat /\ s * (g \div s) <= g
  BY SMT

LEMMA DistributeLemma ==
    ASSUME NEW s \in Nat, NEW a \in Nat, NEW b \in Nat
    PROVE  s * a \in Nat /\ s * (a + b) = s * a + s * b
  BY SMT

\* The value of a counter of millis()'s width.
Wrapped(a) == a % MILLIS

LEMMA WrappedLemma ==
    ASSUME NEW a \in 0 .. 2 * MILLIS - 1
    PROVE  /\ Wrapped(a) \in 0 .. MILLIS - 1
           /\ a < MILLIS => Wrapped(a) = a
           /\ a >= MILLIS => Wrapped(a) = a - MILLIS
  <1>1. MILLIS \in Nat \ {0}
    BY ClockAssumption
  <1>2. /\ a % MILLIS \in 0 .. MILLIS - 1
        /\ a < MILLIS => a % MILLIS = a
        /\ a >= MILLIS => a % MILLIS = a - MILLIS
    BY <1>1, ModLemma, Zenon
  <1> QED
    BY <1>2, Zenon DEF Wrapped

\* The difference of two wrapping counters: how far the first is ahead.
Ahead(m, p) == Wrapped(m + MILLIS - p)

LEMMA AheadLemma ==
    ASSUME NEW m \in 0 .. MILLIS - 1, NEW p \in 0 .. MILLIS - 1
    PROVE  /\ Ahead(m, p) \in 0 .. MILLIS - 1
           /\ m >= p => Ahead(m, p) = m - p
           /\ m < p => Ahead(m, p) = m + MILLIS - p
  <1>1. MILLIS \in Nat \ {0}
    BY ClockAssumption
  <1>2. m + MILLIS - p \in 0 .. 2 * MILLIS - 1
    BY <1>1
  <1> QED
    BY <1>1, <1>2, WrappedLemma DEF Ahead

\* Setting prevMillis forward by r ticks, modulo the width, takes just these
\* ticks from the difference, wherever the wrap of either counter falls.
LEMMA ForwardLemma ==
    ASSUME NEW m \in 0 .. MILLIS - 1, NEW p \in 0 .. MILLIS - 1,
           NEW r \in Nat, r <= Ahead(m, p)
    PROVE  /\ Wrapped(p + r) \in 0 .. MILLIS - 1
           /\ Ahead(m, Wrapped(p + r)) = Ahead(m, p) - r
  <1> DEFINE w == Wrapped(p + r)
  <1>1. MILLIS \in Nat \ {0}
    BY ClockAssumption
  <1>2. /\ Ahead(m, p) \in 0 .. MILLIS - 1
        /\ m >= p => Ahead(m, p) = m - p
        /\ m < p => Ahead(m, p) = m + MILLIS - p
    BY AheadLemma
  <1>3. p + r \in 0 .. 2 * MILLIS - 1
    BY <1>1, <1>2
  <1>4. /\ w \in 0 .. MILLIS - 1
        /\ p + r < MILLIS => w = p + r
        /\ p + r >= MILLIS => w = p + r - MILLIS
    <2>1. \A a \in 0 .. 2 * MILLIS - 1 :
             /\ Wrapped(a) \in 0 .. MILLIS - 1
             /\ a < MILLIS => Wrapped(a) = a
             /\ a >= MILLIS => Wrapped(a) = a - MILLIS
      BY WrappedLemma, Zenon
    <2> QED
      BY <1>1, <1>3, <2>1, SMTT(30)
  <1> HIDE DEF w
  <1>5. /\ m >= w => Ahead(m, w) = m - w
        /\ m < w => Ahead(m, w) = m + MILLIS - w
    BY <1>4, AheadLemma
  <1>6. w \in 0 .. MILLIS - 1 /\ Ahead(m, w) = Ahead(m, p) - r
    BY <1>1, <1>2, <1>4, <1>5
  <1> QED
    BY <1>6 DEF w

\* A tick is one more, unless the counters are a whole width apart.
LEMMA TickLemma ==
    ASSUME NEW m \in 0 .. MILLIS - 1, NEW p \in 0 .. MILLIS - 1,
           Ahead(m, p) < MILLIS - 1
    PROVE  /\ Wrapped(m + 1) \in 0 .. MILLIS - 1
           /\ Ahead(Wrapped(m + 1), p) = Ahead(m, p) + 1
  <1> DEFINE w == Wrapped(m + 1)
  <1>1. MILLIS \in Nat \ {0} /\ m + 1 \in 0 .. 2 * MILLIS - 1
    BY ClockAssumption
  <1>2. /\ w \in 0 .. MILLIS - 1
        /\ m + 1 < MILLIS => w = m + 1
        /\ m + 1 >= MILLIS => w = m + 1 - MILLIS
    BY <1>1, WrappedLemma
  <1> HIDE DEF w
  <1>3. /\ m >= p => Ahead(m, p) = m - p
        /\ m < p => Ahead(m, p) = m + MILLIS - p
        /\ w >= p => Ahead(w, p) = w - p
        /\ w < p => Ahead(w, p) = w + MILLIS - p
    BY <1>2, AheadLemma
  <1>4. w \in 0 .. MILLIS - 1 /\ Ahead(w, p) = Ahead(m, p) + 1
    BY <1>1, <1>2, <1>3
  <1> QED
    BY <1>4 DEF w

-----------------------------------------------------------------------------
\* The three invariants: only TimeConserved needs the types of the others.
IInv == TypeOK /\ TimeConserved /\ SyncAhead

LEMMA GapLemma == gap = Ahead(millis, prevMillis)
  BY DEF gap, Ahead, Wrapped

LEMMA InitInv == Init => IInv
  <1> SUFFICES ASSUME Init PROVE IInv
    OBVIOUS
  <1>1. SyncAhead
    BY DEF Init, SyncAhead
  <1>2. 0 \in 0 .. MILLIS - 1
    BY ClockAssumption
  <1>3. gap = 0
    BY <1>2, GapLemma, AheadLemma DEF Init
  <1>4. TimeConserved
    BY <1>3, ClockAssumption DEF Init, TimeConserved
  <1>5. 0 \in 0 .. MaxTicks
    BY ClockAssumption
  <1>6. TypeOK
    <2>1. {sysTime, nextSyncTime, base} \subseteq Nat
      BY DEF Init
    <2> QED
      BY <1>2, <1>5, <2>1 DEF Init, TypeOK
  <1> QED
    BY <1>1, <1>4, <1>6 DEF IInv

LEMMA TickInv == ASSUME IInv, Tick PROVE IInv'
  <1>1. /\ millis' \in 0 .. MILLIS - 1
        /\ Ahead(millis', prevMillis') = Ahead(millis, prevMillis) + 1
    BY TickLemma, GapLemma DEF IInv, TypeOK, Tick, Wrapped
  <1>2. gap' = gap + 1
    BY <1>1, GapLemma DEF gap, Ahead, Wrapped
  <1>3. gap \in Nat
    BY GapLemma, AheadLemma, ClockAssumption DEF IInv, TypeOK
  <1>4. SECOND * sysTime \in Nat /\ SECOND * base \in Nat
    BY DistributeLemma, ClockAssumption DEF IInv, TypeOK
  <1>5. TypeOK'
    <2>1. ticks' \in 0 .. MaxTicks
      BY ClockAssumption DEF IInv, TypeOK, Tick
    <2> QED
      BY <1>1, <2>1 DEF IInv, TypeOK, Tick
  <1>6. TimeConserved'
    <2>1. sysTime' = sysTime /\ base' = base /\ ticks' = ticks + 1
      BY DEF Tick
    <2>2. SECOND * sysTime' = SECOND * sysTime /\ SECOND * base' = SECOND * base
      BY <2>1
    <2>3. ticks \in Nat /\ SECOND * sysTime + gap = SECOND * base + ticks
      BY DEF IInv, TypeOK, TimeConserved
    <2>4. SECOND * sysTime + (gap + 1) = SECOND * base + (ticks + 1)
      BY <1>3, <1>4, <2>3
    <2> QED
      BY <1>2, <2>1, <2>2, <2>4, Zenon DEF TimeConserved
  <1>7. SyncAhead'
    BY DEF IInv, SyncAhead, Tick
  <1> QED
    BY <1>5, <1>6, <1>7 DEF IInv

\* The loop of now(): the seconds taken from the difference are those counted.
LEMMA CatchUpInv == ASSUME IInv, CatchUp PROVE IInv'
  <1> DEFINE q == gap \div SECOND
             r == SECOND * q
  <1>1. gap \in Nat /\ gap = Ahead(millis, prevMillis)
    BY GapLemma, AheadLemma, ClockAssumption DEF IInv, TypeOK
  <1>2. q \in Nat /\ r \in Nat /\ r <= gap
    BY <1>1, SecondsLemma, ClockAssumption
  <1>3. /\ sysTime' = sysTime + q
        /\ prevMillis' = Wrapped(prevMillis + r)
    BY DEF CatchUp, Wrapped
  <1>4. SECOND * sysTime \in Nat /\ SECOND * (sysTime + q) = SECOND * sysTime + r
    BY <1>2, DistributeLemma, ClockAssumption DEF IInv, TypeOK
  <1>5. SECOND * base \in Nat
    BY DistributeLemma, ClockAssumption DEF IInv, TypeOK
  <1> HIDE DEF q, r
  <1>6. /\ prevMillis' \in 0 .. MILLIS - 1
        /\ Ahead(millis, prevMillis') = Ahead(millis, prevMillis) - r
    BY <1>1, <1>2, <1>3, ForwardLemma DEF IInv, TypeOK
  <1>7. gap' = gap - r
    BY <1>1, <1>6 DEF gap, Ahead, Wrapped, CatchUp
  <1>8. TimeConserved'
    <2>1. SECOND * sysTime' = SECOND * sysTime + r
      BY <1>3, <1>4
    <2>2. base' = base /\ ticks' = ticks
      BY DEF CatchUp
    <2> QED
      BY <1>1, <1>2, <1>4, <1>5, <1>7, <2>1, <2>2
         DEF IInv, TypeOK, TimeConserved
  <1>9. TypeOK'
    BY <1>2, <1>3, <1>6 DEF IInv, TypeOK, CatchUp
  <1>10. SyncAhead'
    BY <1>2, <1>3 DEF IInv, TypeOK, SyncAhead, CatchUp
  <1> QED
    BY <1>8, <1>9, <1>10 DEF IInv

\* Setting the clock starts a new account with an empty difference.
LEMMA SetInv ==
    ASSUME IInv, NEW t \in Times, setTime(t), pc' = "idle",
           UNCHANGED <<millis, syncInterval, getTimePtr>>
    PROVE  IInv'
  <1>1. TypeOK'
    BY ClockAssumption DEF IInv, TypeOK, setTime
  <1>2. gap' = 0
    <2>1. Ahead(millis', prevMillis') = 0
      BY <1>1, AheadLemma DEF TypeOK, setTime
    <2> QED
      BY <2>1 DEF gap, Ahead, Wrapped
  <1>3. TimeConserved'
    BY <1>2, DistributeLemma, ClockAssumption DEF TimeConserved, setTime
  <1>4. SyncAhead'
    BY ClockAssumption DEF IInv, TypeOK, SyncAhead, setTime
  <1> QED
    BY <1>1, <1>3, <1>4 DEF IInv

LEMMA OtherInv ==
    ASSUME IInv,
           \/ CallNow \/ NoAnswer \/ setSyncProvider \/ UNCHANGED vars
           \/ \E n \in Intervals : setSyncInterval(n)
    PROVE  IInv'
  <1>1. UNCHANGED <<millis, prevMillis, sysTime, base, ticks>>
    BY DEF CallNow, NoAnswer, setSyncProvider, setSyncInterval, vars
  <1>2. TimeConserved'
    BY <1>1 DEF IInv, TimeConserved, gap
  <1>3. CASE CallNow \/ UNCHANGED vars
    BY <1>2, <1>3 DEF IInv, TypeOK, SyncAhead, CallNow, vars
  <1>4. CASE NoAnswer
    BY <1>2, <1>4, ClockAssumption DEF IInv, TypeOK, SyncAhead, NoAnswer
  <1>5. CASE setSyncProvider
    BY <1>2, <1>5 DEF IInv, TypeOK, SyncAhead, setSyncProvider
  <1>6. CASE \E n \in Intervals : setSyncInterval(n)
    BY <1>2, <1>6, ClockAssumption
       DEF IInv, TypeOK, SyncAhead, setSyncInterval
  <1> QED
    BY <1>3, <1>4, <1>5, <1>6

\* IInv holds in every reachable state.
LEMMA Invariance == Spec => []IInv
  <1>1. ASSUME IInv, [Next]_vars PROVE IInv'
    <2>1. CASE \E t \in Times : Answer(t) \/ SetByHand(t)
      BY <1>1, <2>1, SetInv DEF Answer, SetByHand
    <2> QED
      BY <1>1, <2>1, TickInv, CatchUpInv, OtherInv DEF Next
  <1> QED
    BY InitInv, <1>1, PTL DEF Spec

\* The counters stay inside their width.
THEOREM TypeCorrect == Spec => []TypeOK
  BY Invariance, PTL DEF IInv

\* No tick of millis() is lost or counted twice by now(), across its wrap and
\* while the sync provider blocks.
THEOREM NoTickLost == Spec => []TimeConserved
  BY Invariance, PTL DEF IInv

\* now() returns with the next attempt to synchronise in the future.
THEOREM NextSyncAhead == Spec => []SyncAhead
  BY Invariance, PTL DEF IInv

-----------------------------------------------------------------------------
(* The network clock.                                                       *)

\* Whole seconds leave out less than a second.
LEMMA RoundLemma ==
    ASSUME NEW s \in Nat \ {0}, NEW g \in Nat
    PROVE  /\ g \div s \in Nat /\ s * (g \div s) \in Nat
           /\ s * (g \div s) <= g /\ g - s * (g \div s) <= s - 1
  BY SMT

LEMMA Sizes ==
    /\ SECOND \in Nat \ {0} /\ MILLIS \in Nat \ {0} /\ MaxTruth \in Nat
    /\ LIFE \in Nat /\ DNS \in Nat /\ DNS < MILLIS /\ 2 * SECOND <= MaxTruth
  BY ClockAssumption, NtpAssumption

LEMMA TailLemma ==
    ASSUME NEW q \in Seq(Nat), q # <<>>
    PROVE  /\ Tail(q) \in Seq(Nat) /\ Len(Tail(q)) = Len(q) - 1 /\ Len(q) \in Nat
           /\ \A i \in 1 .. Len(q) - 1 : i + 1 \in 1 .. Len(q) /\ Tail(q)[i] = q[i + 1]
  BY SMT

LEMMA AppendLemma ==
    ASSUME NEW q \in Seq(Nat), NEW s \in Nat
    PROVE  /\ Append(q, s) \in Seq(Nat)
           /\ \A i \in 1 .. Len(Append(q, s)) :
                 \/ Append(q, s)[i] = s
                 \/ i \in 1 .. Len(q) /\ Append(q, s)[i] = q[i]
  BY SMT

\* Packets carry times the server has written by now.
Written(s) == s = Short \/ s \in SECOND .. truth

Stamped ==
    /\ truth \in SECOND .. MaxTruth
    /\ answers \subseteq SECOND .. truth
    /\ queue \in Seq(Nat)
    /\ \A i \in 1 .. Len(queue) : Written(queue[i])

LEMMA StampedInit == NtpInit => Stamped
  BY Sizes DEF NtpInit, Stamped

\* Time passes, packets come and are taken or thrown away.
LEMMA StampedStep == ASSUME Stamped, [NtpNext]_ntpVars PROVE Stamped'
  <1>1. ASSUME truth' \in truth .. MaxTruth, answers' \subseteq SECOND .. truth',
               queue' \in Seq(Nat),
               \A i \in 1 .. Len(queue') :
                  \/ queue'[i] = Short \/ queue'[i] \in SECOND .. truth'
                  \/ \E j \in 1 .. Len(queue) : queue'[i] = queue[j]
        PROVE  Stamped'
    BY <1>1, Sizes DEF Stamped, Written
  <1>2. CASE UNCHANGED <<truth, answers, queue>>
    BY <1>2 DEF Stamped, Written
  <1>3. CASE Flush
    BY <1>3, Sizes DEF Flush, Stamped
  <1>4. CASE Receive
    <2>1. /\ queue' \in Seq(Nat)
          /\ \A i \in 1 .. Len(queue') : \E j \in 1 .. Len(queue) : queue'[i] = queue[j]
      BY <1>4, TailLemma DEF Receive, Stamped
    <2> QED
      BY <1>1, <1>4, <2>1, Sizes DEF Receive, Stamped
  <1>5. CASE Serve
    <2>1. truth' = truth /\ answers' = answers \cup {truth} /\ queue' = queue
      BY <1>5 DEF Serve
    <2> QED
      BY <1>1, <2>1, Sizes DEF Stamped
  <1>6. CASE Deliver \/ DeliverShort
    <2>1. PICK s \in answers \cup {Short} : queue' = Append(queue, s)
      BY <1>6 DEF Deliver, DeliverShort
    <2>2. truth' = truth /\ answers' \subseteq answers
      BY <1>6 DEF Deliver, DeliverShort
    <2>3. s \in Nat /\ (s = Short \/ s \in SECOND .. truth)
      BY Sizes DEF Stamped, Short
    <2>4. /\ queue' \in Seq(Nat)
          /\ \A i \in 1 .. Len(queue') :
                queue'[i] = s \/ (i \in 1 .. Len(queue) /\ queue'[i] = queue[i])
      BY <2>1, <2>3, AppendLemma DEF Stamped
    <2> QED
      BY <1>1, <2>2, <2>3, <2>4, Sizes DEF Stamped
  <1>7. CASE NtpTick
    <2>1. truth' = truth + 1 /\ truth < MaxTruth /\ answers' \subseteq answers /\ queue' = queue
      BY <1>7 DEF NtpTick
    <2> QED
      BY <1>1, <2>1, Sizes DEF Stamped
  <1> QED
    BY <1>2, <1>3, <1>4, <1>5, <1>6, <1>7
       DEF NtpNext, ntpVars, net, Provide, timeStatus, TestStatus, Delay,
           Interval, LoopNow, Count, sendNTPpacket, TimeOut, LoseRequest

-----------------------------------------------------------------------------
\* What every step of the sketch does to the state of the Time library.
LEMMA ProviderStep == ASSUME Stamped, [NtpNext]_ntpVars PROVE [Next]_vars
  <1>1. CASE Receive
    <2>1. CASE Head(queue) = Short
      BY <1>1, <2>1 DEF Receive
    <2>2. CASE Head(queue) # Short
      <3>1. 1 \in 1 .. Len(queue) /\ Head(queue) = queue[1]
        BY <1>1 DEF Receive, Stamped
      <3>2. Head(queue) \in SECOND .. MaxTruth
        BY <2>2, <3>1, Sizes DEF Stamped, Written
      <3>3. Head(queue) \div SECOND \in Times
        BY <3>2, NtpAssumption
      <3> QED
        BY <1>1, <2>2, <3>3 DEF Receive, Next
    <2> QED
      BY <2>1, <2>2
  <1>2. CASE Interval
    BY <1>2 DEF Interval, Next
  <1>3. CASE Count \/ TimeOut \/ NtpTick \/ timeStatus \/ LoopNow
    BY <1>3 DEF Count, TimeOut, NtpTick, timeStatus, LoopNow, Next
  <1>4. CASE Provide \/ Delay
    BY <1>4 DEF Provide, Delay, Next
  <1>5. CASE UNCHANGED vars
    BY <1>5
  <1> QED
    BY <1>1, <1>2, <1>3, <1>4, <1>5
       DEF NtpNext, ntpVars, TestStatus, Flush, sendNTPpacket, Serve,
           LoseRequest, Deliver, DeliverShort

LEMMA AllStamped == NtpSpec => []Stamped
  BY StampedInit, StampedStep, PTL DEF NtpSpec

\* Whatever the network does, getNtpTime() is a provider as SystemClock
\* describes it: every behaviour of the sketch's clock is one of the library's.
THEOREM ProviderKept == NtpSpec => ImplementsClock
  <1>1. NtpInit => Init
    BY DEF NtpInit
  <1> QED
    BY <1>1, AllStamped, ProviderStep, PTL DEF NtpSpec, ImplementsClock, Spec

\* So the clock counts every tick ...
THEOREM NtpNoTickLost == NtpSpec => []TimeConserved
  BY ProviderKept, NoTickLost, PTL DEF ImplementsClock

\* ... and asks again in time.
THEOREM NtpNextSyncAhead == NtpSpec => []SyncAhead
  BY ProviderKept, NextSyncAhead, PTL DEF ImplementsClock

-----------------------------------------------------------------------------
\* The packets in the socket are at most d ticks old.
Recent(d) == \A i \in 1 .. Len(queue) : queue[i] = Short \/ truth - queue[i] <= d

\* A packet is young when it comes and grows old only while hostByName() runs:
\* before, the socket is emptied, and later it is read before time passes.
Young ==
    /\ since \in 0 .. MILLIS - 1
    /\ \A s \in answers : truth - s <= LIFE
    /\ ntp = "lookup" => waited <= DNS /\ Recent(LIFE + waited)
    /\ ntp = "listen" => Recent(LIFE + DNS)

LEMMA WaitedLemma ==
    /\ waited = Ahead(millis, since)
    /\ TypeOK /\ Young => waited \in 0 .. MILLIS - 1
    /\ TypeOK /\ since = millis => waited = 0
  <1>1. waited = Ahead(millis, since)
    BY DEF waited, Ahead, Wrapped
  <1>2. TypeOK /\ Young => waited \in 0 .. MILLIS - 1
    BY <1>1, AheadLemma DEF TypeOK, Young
  <1>3. ASSUME TypeOK, since = millis PROVE waited = 0
    <2>1. Ahead(millis, since) = millis - since
      BY <1>3, AheadLemma DEF TypeOK
    <2> QED
      BY <1>1, <1>3, <2>1 DEF TypeOK
  <1> QED
    BY <1>1, <1>2, <1>3

LEMMA YoungInit == NtpInit => Young
  BY Sizes DEF NtpInit, Young

LEMMA YoungStep ==
    ASSUME TypeOK, TypeOK', Stamped, Stamped', Young, [NtpNext]_ntpVars
    PROVE  Young'
  <1> USE Sizes
  <1>1. waited \in 0 .. MILLIS - 1
    BY WaitedLemma
  <1>2. CASE NtpTick
    <2>1. /\ truth' = truth + 1 /\ ntp' = ntp /\ since' = since /\ queue' = queue
          /\ answers' = {s \in answers : truth' - s <= LIFE}
          /\ millis' = (millis + 1) % MILLIS
      BY <1>2 DEF NtpTick, Tick
    <2>2. CASE ntp = "lookup"
      <3>1. waited < DNS
        BY <1>2, <2>2 DEF NtpTick
      <3>2. waited' = waited + 1
        <4>1. Ahead(millis, since) < MILLIS - 1
          BY <1>1, <3>1, WaitedLemma
        <4>2. Ahead(Wrapped(millis + 1), since) = Ahead(millis, since) + 1
          BY <4>1, TickLemma DEF TypeOK, Young
        <4> QED
          BY <2>1, <4>2 DEF waited, Ahead, Wrapped
      <3>3. \A i \in 1 .. Len(queue) : queue[i] \in Nat
        BY DEF Stamped
      <3> QED
        BY <1>1, <2>1, <2>2, <3>1, <3>2, <3>3 DEF Young, Recent, Stamped
    <2>3. CASE ntp = "listen"
      <3>1. queue = <<>>
        BY <1>2, <2>3 DEF NtpTick
      <3> QED
        BY <2>1, <2>3, <3>1 DEF Young, Recent
    <2> QED
      BY <2>1, <2>2, <2>3 DEF Young
  <1>3. CASE Flush
    <2>1. since' = millis /\ millis' = millis /\ queue' = <<>> /\ ntp' = "lookup"
          /\ truth' = truth /\ answers' = answers
      BY <1>3 DEF Flush, vars
    <2>2. waited' = 0
      BY <2>1, WaitedLemma, AheadLemma DEF waited, Ahead, Wrapped, TypeOK
    <2> QED
      BY <2>1, <2>2 DEF Young, Recent, TypeOK
  <1>4. CASE sendNTPpacket
    <2>1. since' = millis /\ queue' = queue /\ ntp = "lookup" /\ ntp' = "listen"
          /\ truth' = truth /\ answers' = answers
      BY <1>4 DEF sendNTPpacket
    <2>2. \A i \in 1 .. Len(queue) : queue[i] \in Nat
      BY DEF Stamped
    <2>3. waited <= DNS /\ Recent(LIFE + waited)
      BY <2>1 DEF Young
    <2>4. Recent(LIFE + DNS)'
      BY <1>1, <2>1, <2>2, <2>3 DEF Recent, Stamped
    <2> QED
      BY <2>1, <2>4 DEF Young, TypeOK
  <1>5. CASE Receive
    <2>1. ntp = "listen" /\ ntp' \in {"listen", "no"} /\ UNCHANGED <<since, truth, answers>>
          /\ queue # <<>> /\ queue' = Tail(queue)
      BY <1>5 DEF Receive
    <2>2. Recent(LIFE + DNS) => Recent(LIFE + DNS)'
      BY <2>1, TailLemma DEF Recent, Stamped
    <2> QED
      BY <2>1, <2>2 DEF Young
  <1>6. CASE Deliver \/ DeliverShort
    <2>1. PICK s \in answers \cup {Short} : queue' = Append(queue, s)
      BY <1>6 DEF Deliver, DeliverShort
    <2>2. UNCHANGED <<ntp, since, truth, millis>> /\ answers' \subseteq answers
      BY <1>6 DEF Deliver, DeliverShort, vars
    <2>3. s \in Nat /\ (s = Short \/ truth - s <= LIFE)
      BY DEF Stamped, Short, Young
    <2>4. \A i \in 1 .. Len(queue') :
             queue'[i] = s \/ (i \in 1 .. Len(queue) /\ queue'[i] = queue[i])
      BY <2>1, <2>3, AppendLemma DEF Stamped
    <2>5. ASSUME NEW d \in Nat, Recent(LIFE + d), NEW i \in 1 .. Len(queue')
          PROVE  queue'[i] = Short \/ truth' - queue'[i] <= LIFE + d
      <3>1. CASE queue'[i] = s
        BY <2>2, <2>3, <3>1 DEF Stamped
      <3>2. CASE i \in 1 .. Len(queue) /\ queue'[i] = queue[i]
        BY <2>2, <2>5, <3>2 DEF Recent
      <3> QED
        BY <2>4, <3>1, <3>2
    <2>6. waited' = waited /\ waited \in Nat
      BY <1>1, <2>2 DEF waited
    <2>7. /\ Recent(LIFE + waited) => Recent(LIFE + waited)'
          /\ Recent(LIFE + DNS) => Recent(LIFE + DNS)'
      BY <2>5, <2>6 DEF Recent
    <2> QED
      BY <1>1, <2>2, <2>6, <2>7 DEF Young
  <1>7. CASE Serve
    BY <1>7 DEF Serve, Young, Recent, Stamped, waited, vars
  <1>8. CASE UNCHANGED <<ntp, since, truth, answers, queue, millis>>
    BY <1>8 DEF Young, Recent, waited
  <1>9. CASE ntp' \in {"no", "flush"} /\ UNCHANGED <<since, truth, answers, queue>>
    BY <1>9 DEF Young
  <1>10. CASE Count \/ TimeOut
    BY <1>9, <1>10 DEF Count, TimeOut, net
  <1>11. CASE Provide \/ timeStatus \/ TestStatus \/ Delay \/ Interval
              \/ LoopNow \/ LoseRequest \/ UNCHANGED ntpVars
    BY <1>8, <1>11
       DEF Provide, timeStatus, TestStatus, Delay, Interval, LoopNow, LoseRequest,
           ntpVars, net, vars, setSyncProvider, setSyncInterval, CallNow
  <1> QED
    BY <1>2, <1>3, <1>4, <1>5, <1>6, <1>7, <1>10, <1>11 DEF NtpNext

-----------------------------------------------------------------------------
\* The clock within its bounds.  What it shows is what SystemClock accounts
\* for: the seconds last set and the ticks since then.
Bounded == NeverAhead /\ BehindByDelay
Account == SECOND * base + ticks

LEMMA AccountLemma == ASSUME TimeConserved PROVE clock = Account
  BY DEF TimeConserved, clock, Account

LEMMA AccountStays ==
    ASSUME TimeConserved, TimeConserved', Bounded, UNCHANGED <<truth, base, ticks>>,
           Status' # "timeNotSet" => Status # "timeNotSet"
    PROVE  Bounded'
  <1>1. clock = Account /\ clock' = Account'
    BY AccountLemma DEF TimeConserved, clock, Account
  <1>2. Account' = Account
    BY DEF Account
  <1> QED
    BY <1>1, <1>2 DEF Bounded, NeverAhead, BehindByDelay

LEMMA BoundedStep ==
    ASSUME TypeOK, TimeConserved, TimeConserved', Stamped, Young, Bounded,
           [NtpNext]_ntpVars
    PROVE  Bounded'
  <1> USE Sizes
  <1>1. clock = Account /\ clock' = Account'
    BY AccountLemma DEF TimeConserved, clock, Account
  <1>2. SECOND * base \in Nat /\ ticks \in Nat /\ truth \in Nat
    BY DistributeLemma DEF TypeOK, Stamped
  <1>3. CASE NtpTick
    <2>1. truth' = truth + 1 /\ base' = base /\ ticks' = ticks + 1 /\ Status' = Status
      BY <1>3 DEF NtpTick, Tick
    <2>2. Account' = Account + 1 /\ Account \in Nat
      BY <1>2, <2>1 DEF Account
    <2> QED
      BY <1>1, <1>2, <2>1, <2>2 DEF Bounded, NeverAhead, BehindByDelay
  <1>4. CASE Receive
    <2>1. CASE Head(queue) = Short
      BY <1>4, <2>1, AccountStays DEF Receive, vars
    <2>2. CASE Head(queue) # Short
      <3> DEFINE h == Head(queue)
                 q == h \div SECOND
      <3>1. 1 \in 1 .. Len(queue) /\ h = queue[1] /\ h \in Nat
        BY <1>4 DEF Receive, Stamped
      <3>2. h <= truth /\ truth - h <= LIFE + DNS
        BY <1>4, <2>2, <3>1 DEF Receive, Stamped, Written, Young, Recent
      <3>3. truth' = truth /\ base' = q /\ ticks' = 0
        BY <1>4, <2>2 DEF Receive, Answer, setTime
      <3>4. SECOND * q \in Nat /\ SECOND * q <= h /\ h - SECOND * q <= SECOND - 1
        BY <3>1, RoundLemma
      <3> HIDE DEF h, q
      <3>5. Account' = SECOND * q
        BY <3>3, <3>4 DEF Account
      <3> QED
        BY <1>1, <1>2, <3>1, <3>2, <3>3, <3>4, <3>5
           DEF Bounded, NeverAhead, BehindByDelay
    <2> QED
      BY <2>1, <2>2
  <1>5. CASE Count
    BY <1>5, AccountStays DEF Count, CatchUp
  <1>6. CASE TimeOut
    BY <1>6, AccountStays DEF TimeOut, NoAnswer
  <1>7. CASE Provide \/ Delay
    BY <1>7, AccountStays DEF Provide, Delay, setSyncProvider
  <1>8. CASE Interval
    BY <1>8, AccountStays DEF Interval, setSyncInterval
  <1>9. CASE timeStatus \/ LoopNow
    BY <1>9, AccountStays DEF timeStatus, LoopNow, CallNow
  <1>10. CASE TestStatus \/ Flush \/ sendNTPpacket \/ Serve \/ LoseRequest
              \/ Deliver \/ DeliverShort \/ UNCHANGED ntpVars
    BY <1>10, AccountStays
       DEF TestStatus, Flush, sendNTPpacket, Serve, LoseRequest, Deliver,
           DeliverShort, ntpVars, vars
  <1> QED
    BY <1>3, <1>4, <1>5, <1>6, <1>7, <1>8, <1>9, <1>10 DEF NtpNext

LEMMA AllBounded == NtpSpec => []Bounded
  <1>1. NtpInit => Bounded
    BY DEF NtpInit, Init, Bounded, NeverAhead, BehindByDelay
  <1>2. NtpSpec => [](TypeOK /\ TimeConserved)
    BY ProviderKept, NtpNoTickLost, TypeCorrect, PTL DEF ImplementsClock
  <1>3. NtpSpec => []Young
    BY <1>2, YoungInit, YoungStep, AllStamped, PTL DEF NtpSpec
  <1> QED
    BY <1>1, <1>2, <1>3, BoundedStep, AllStamped, PTL DEF NtpSpec

\* The clock of the board is never ahead of the true time, however late,
\* doubled or out of order the answers of the server are.
THEOREM ClockNeverAhead == NtpSpec => []NeverAhead
  BY AllBounded, PTL DEF Bounded

\* It is behind by at most the way of an answer, the time of hostByName() and
\* the part of a second that the answer leaves out.
THEOREM ClockBehindByDelay == NtpSpec => []BehindByDelay
  BY AllBounded, PTL DEF Bounded
=============================================================================
