------------------------------ MODULE NtpClock ------------------------------
(* The clock of timers.ino and NTPClient_update.ino: SystemClock with       *)
(* getNtpTime() for a provider, on a network that loses, delays, reorders   *)
(* and duplicates the packets of the time server.  The provider takes the   *)
(* first packet of full length for the answer to its request.               *)
EXTENDS SystemClock, Sequences

CONSTANTS
    WAIT,           \* ticks getNtpTime() listens: its 1500 ms
    DNS,            \* bound: ticks hostByName() takes
    LIFE,           \* bound: ticks an answer is under way
    MaxTruth,       \* bound: ticks of the true time
    MaxRequests,    \* bound: requests under way at a time
    MaxQueue        \* bound: packets in the socket of the board

ASSUME NtpAssumption ==
    /\ {WAIT, DNS, LIFE, MaxTruth, MaxRequests, MaxQueue} \subseteq Nat
    /\ WAIT < MILLIS /\ DNS < MILLIS
    /\ 2 * SECOND <= MaxTruth
    /\ \A s \in SECOND .. MaxTruth : s \div SECOND \in Times

VARIABLES
    waits,      \* timers.ino repeats until the clock is set, NTPClient_update not
    main,       \* where setup() is: "provider", "status", "test", "delay", "interval"
    ntp,        \* where getNtpTime() is: "no", "flush", "lookup" or "listen"
    since,      \* millis() when hostByName() began, then beginWait
    truth,      \* the true time in ticks
    requests,   \* requests on their way to the server
    answers,    \* answers on their way back: the tick the server wrote them
    queue       \* packets in the socket, not yet parsed

net == <<requests, answers, queue>>
ntpVars == <<waits, main, ntp, since, truth, net, vars>>

Short == 0      \* a packet of less than NTP_PACKET_SIZE bytes, of any origin

NtpInit ==
    /\ Init
    /\ waits \in BOOLEAN /\ main = "provider"
    /\ ntp = "no" /\ since = 0
    /\ truth \in SECOND .. 2 * SECOND - 1
    /\ requests = 0 /\ answers = {} /\ queue = <<>>

waited == (millis + MILLIS - since) % MILLIS     \* unsigned subtraction

-----------------------------------------------------------------------------
(* setup(), and the calls of now() in loop().                               *)

Provide ==
    /\ main = "provider" /\ main' = IF waits THEN "status" ELSE "interval"
    /\ setSyncProvider
    /\ UNCHANGED <<waits, ntp, since, truth, net>>

timeStatus ==
    /\ main = "status" /\ main' = "test"
    /\ CallNow
    /\ UNCHANGED <<waits, ntp, since, truth, net>>

TestStatus ==
    /\ main = "test" /\ pc = "idle"
    /\ main' = IF Status = "timeSet" THEN "interval" ELSE "delay"
    /\ UNCHANGED <<waits, ntp, since, truth, net, vars>>

\* delay(1000) and the next setSyncProvider().
Delay ==
    /\ main = "delay" /\ main' = "status"
    /\ gap >= SECOND
    /\ setSyncProvider
    /\ UNCHANGED <<waits, ntp, since, truth, net>>

Interval ==
    /\ main = "interval" /\ main' = "loop"
    /\ \E n \in Intervals : setSyncInterval(n)
    /\ UNCHANGED <<waits, ntp, since, truth, net>>

LoopNow ==
    /\ main = "loop"
    /\ CallNow
    /\ UNCHANGED <<waits, main, ntp, since, truth, net>>

Count ==
    /\ CatchUp
    /\ ntp' = IF pc' = "asked" THEN "flush" ELSE "no"
    /\ UNCHANGED <<waits, main, since, truth, net>>

-----------------------------------------------------------------------------
(* getNtpTime()                                                             *)

\* Mutant of Flush: only one of the packets received before is discarded.
FlushOne ==
    /\ ntp = "flush" /\ ntp' = "lookup"
    /\ queue' = IF queue = <<>> THEN <<>> ELSE Tail(queue)
    /\ since' = millis
    /\ UNCHANGED <<waits, main, truth, requests, answers, vars>>
Flush ==
    /\ ntp = "flush" /\ ntp' = "lookup"
    /\ queue' = <<>>
    /\ since' = millis
    /\ UNCHANGED <<waits, main, truth, requests, answers, vars>>

\* hostByName() returns and the request leaves, or is lost at once.
sendNTPpacket ==
    /\ ntp = "lookup" /\ ntp' = "listen"
    /\ requests' \in {requests, requests + 1} \cap 0 .. MaxRequests
    /\ since' = millis
    /\ UNCHANGED <<waits, main, truth, answers, queue, vars>>

Receive ==
    /\ ntp = "listen" /\ waited < WAIT /\ queue # <<>>
    /\ queue' = Tail(queue)
    /\ IF Head(queue) = Short
       THEN UNCHANGED <<ntp, vars>>
       ELSE ntp' = "no" /\ Answer(Head(queue) \div SECOND)
    /\ UNCHANGED <<waits, main, since, truth, requests, answers>>

\* Mutant of TimeOut: the 0 that stands for no answer is taken for a time.
TimeOutZero ==
    /\ ntp = "listen" /\ waited >= WAIT
    /\ ntp' = "no"
    /\ Answer(0)
    /\ UNCHANGED <<waits, main, since, truth, net>>
TimeOut ==
    /\ ntp = "listen" /\ waited >= WAIT
    /\ ntp' = "no"
    /\ NoAnswer
    /\ UNCHANGED <<waits, main, since, truth, net>>

-----------------------------------------------------------------------------
(* The network and the time.                                                *)

Serve ==
    /\ requests > 0 /\ requests' = requests - 1
    /\ answers' = answers \cup {truth}
    /\ UNCHANGED <<waits, main, ntp, since, truth, queue, vars>>

LoseRequest ==
    /\ requests > 0 /\ requests' = requests - 1
    /\ UNCHANGED <<waits, main, ntp, since, truth, answers, queue, vars>>

\* An answer arrives, in any order; a copy of it may still be under way.
Deliver ==
    \E s \in answers :
        /\ Len(queue) < MaxQueue
        /\ queue' = Append(queue, s)
        /\ answers' \in {answers, answers \ {s}}
        /\ UNCHANGED <<waits, main, ntp, since, truth, requests, vars>>

DeliverShort ==
    /\ Len(queue) < MaxQueue
    /\ queue' = Append(queue, Short)
    /\ UNCHANGED <<waits, main, ntp, since, truth, requests, answers, vars>>

\* getNtpTime() polls faster than a tick; an answer under way too long is lost.
NtpTick ==
    /\ truth < MaxTruth /\ truth' = truth + 1
    /\ ntp = "lookup" => waited < DNS
    /\ ntp = "listen" => waited < WAIT /\ queue = <<>>
    /\ Tick
    /\ answers' = {s \in answers : truth' - s <= LIFE}
    /\ UNCHANGED <<waits, main, ntp, since, requests, queue>>

NtpNext ==
    \/ Provide \/ timeStatus \/ TestStatus \/ Delay \/ Interval \/ LoopNow
    \/ Count \/ Flush \/ sendNTPpacket \/ Receive \/ TimeOut
    \/ Serve \/ LoseRequest \/ Deliver \/ DeliverShort \/ NtpTick

NtpSpec == NtpInit /\ [][NtpNext]_ntpVars

-----------------------------------------------------------------------------
\* The time the Time library has counted, in ticks.
clock == SECOND * sysTime + gap

\* However late, doubled or out of order the answers are, the clock of the
\* board never runs ahead of the true time: nothing is watered too early.
NeverAhead == Status # "timeNotSet" => clock <= truth

\* ... and it is behind by no more than the longest way of an answer, the
\* time hostByName() takes after the old packets were discarded, and the part
\* of a second the server's stamp leaves out.
BehindByDelay ==
    Status # "timeNotSet" => truth - clock <= LIFE + DNS + SECOND - 1

\* getNtpTime() keeps to what the Time library asks of a provider: whatever the
\* network does, its answers are times since 1970, a time-out is no answer, and
\* it returns only to the call that asked.  So the clock is the one SystemClock
\* describes.
ImplementsClock == Spec
=============================================================================
