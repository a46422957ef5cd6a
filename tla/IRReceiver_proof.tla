-------------------------- MODULE IRReceiver_proof --------------------------
(* Type correctness of the infrared receiver, that a code is left alone     *)
(* while it is decoded, and that a recording begins behind a gap.           *)
EXTENDS IRReceiver, TLAPS

\* Once a code is accepted the interrupt is in STOP.  At the test the length
\* read is that of the buffer, or an interrupt came and it is recording.
Held ==
    /\ decoding => rcvstate = "STOP" /\ length = rawlen
    /\ pc = "test" /\ ~interrupted => length = rawlen
    /\ pc = "test" /\ rcvstate = "STOP" => length = rawlen

\* Until enableIRIn() sets the state the timer counts at most one interrupt,
\* and nothing is recorded.
Started ==
    /\ rcvstate = "none" => pc = "enable" /\ (~interrupted => timer = 0)
    /\ pc = "enable" => rcvstate \in {"none", "STOP"}

\* Outside a mark the timer runs ahead of the true silence by one at most.
Timed ==
    rcvstate # "MARK" \/ rawlen = RAWBUF => quiet = GAP_TICKS \/ timer <= quiet + 1

IInv == TypeOK /\ Held /\ Started /\ Timed

LEMMA TickLemma ==
    ASSUME TypeOK
    PROVE  tick \in 0 .. TIMER - 1 /\ tick <= timer + 1
<1> DEFINE t == timer + 1
<1>1. TIMER \in Nat \ {0} /\ timer \in 0 .. TIMER - 1
  BY IRAssumption DEF TypeOK
<1>2. CASE t < TIMER
  <2>1. t % TIMER = t
    BY <1>1, <1>2
  <2> QED
    BY <1>1, <1>2, <2>1 DEF tick
<1>3. CASE t = TIMER
  <2>1. t % TIMER = 0
    BY <1>1, <1>3
  <2> QED
    BY <1>1, <1>3, <2>1 DEF tick
<1> QED
  BY <1>1, <1>2, <1>3

LEMMA Initially == Init => IInv
<1> SUFFICES ASSUME Init PROVE IInv
  OBVIOUS
<1>1. TypeOK
  <2>1. RAWBUF \in Nat /\ GAP_TICKS \in Nat /\ TIMER \in Nat \ {0}
    BY IRAssumption
  <2>2. /\ rcvstate = "none" /\ pc = "enable"
        /\ timer = 0 /\ rawlen = 0 /\ length = 0 /\ quiet = 0
        /\ rawbuf \in [Entries -> {"none", "gap", "mark", "space"}]
    BY DEF Init
  <2>3. interrupted \in BOOLEAN
    BY Zenon DEF Init
  <2> QED
    BY <2>1, <2>2, <2>3 DEF TypeOK
<1>2. Held /\ Started
  BY DEF Init, Held, Started, decoding
<1>3. Timed
  BY DEF Init, Timed
<1> QED
  BY <1>1, <1>2, <1>3 DEF IInv

\* What every interrupt does, whatever the pin is sampled to be: stop or stay
\* stopped, measure on, or record an entry inside the buffer.
LEMMA Interrupt ==
    ASSUME IInv, NEW irdata \in {"MARK", "SPACE"}, ISR(irdata)
    PROVE  \/ /\ UNCHANGED <<rawlen, rawbuf>>
              /\ timer' \in {0, tick}
              /\ irdata = "MARK" /\ rcvstate # "none" => timer' = 0 \/ (rcvstate' = "MARK" /\ ~full)
              /\ rcvstate' \in {rcvstate, "STOP"}
              /\ rcvstate = "STOP" => rcvstate' = "STOP"
              /\ rcvstate = "MARK" => rcvstate' = "MARK" \/ full
           \/ /\ ~full /\ rcvstate # "STOP" /\ rcvstate # "none"
              /\ timer' = 0 /\ rcvstate' \in {"MARK", "SPACE"}
              /\ \E i \in Entries, kind \in {"gap", "mark", "space"} :
                    /\ rawbuf' = [rawbuf EXCEPT ![i] = kind]
                    /\ rawlen' = i + 1
              /\ rcvstate = "IDLE" => tick >= GAP_TICKS
<1>1. rawlen \in 0 .. RAWBUF /\ RAWBUF \in Nat \ {0}
  BY IRAssumption DEF IInv, TypeOK
<1>2. ~full => rawlen \in Entries
  BY <1>1 DEF full, Entries
<1>3. 0 \in Entries
  BY <1>1 DEF Entries
<1>4. CASE full /\ Stopped(irdata)
  <2>1. /\ UNCHANGED <<rawlen, rawbuf>> /\ rcvstate' = "STOP"
        /\ timer' = IF irdata = "MARK" THEN 0 ELSE tick
    BY <1>4, Zenon DEF Stopped, Measure
  <2>2. timer' \in {0, tick} /\ (irdata = "MARK" => timer' = 0)
    BY <2>1, Zenon
  <2> QED
    BY <1>4, <2>1, <2>2
<1>5. CASE ~full /\ rcvstate = "none" /\ Measure(FALSE)
           /\ UNCHANGED <<rcvstate, rawlen, rawbuf>>
  BY <1>5 DEF Measure
<1>6. CASE ~full /\ rcvstate = "IDLE" /\ InGap(irdata)
  <2>1. CASE irdata = "MARK" /\ tick >= GAP_TICKS
    BY <1>3, <1>6, <2>1 DEF InGap, Record
  <2>2. CASE ~(irdata = "MARK" /\ tick >= GAP_TICKS)
    BY <1>6, <2>2 DEF InGap, Measure
  <2> QED
    BY <2>1, <2>2
<1>7. CASE ~full /\ rcvstate = "MARK" /\ InMark(irdata)
  <2>1. CASE irdata = "SPACE"
    BY <1>2, <1>7, <2>1 DEF InMark, Record
  <2>2. CASE irdata = "MARK"
    BY <1>7, <2>2 DEF InMark, Measure
  <2> QED
    BY <2>1, <2>2
<1>8. CASE ~full /\ rcvstate = "SPACE" /\ InSpace(irdata)
  <2>1. CASE irdata = "MARK"
    BY <1>2, <1>8, <2>1 DEF InSpace, Record
  <2>2. CASE irdata = "SPACE"
    BY <1>8, <2>2 DEF InSpace, Measure
  <2> QED
    BY <2>1, <2>2
<1>9. CASE ~full /\ rcvstate = "STOP" /\ Stopped(irdata)
  <2>1. /\ UNCHANGED <<rawlen, rawbuf>> /\ rcvstate' = "STOP"
        /\ timer' = IF irdata = "MARK" THEN 0 ELSE tick
    BY <1>9, Zenon DEF Stopped, Measure
  <2>2. timer' \in {0, tick} /\ (irdata = "MARK" => timer' = 0)
    BY <2>1, Zenon
  <2> QED
    BY <1>9, <2>1, <2>2
<1> QED
  BY <1>4, <1>5, <1>6, <1>7, <1>8, <1>9 DEF ISR

LEMMA InterruptTypes ==
    ASSUME IInv, NEW irdata \in {"MARK", "SPACE"}, ISR(irdata)
    PROVE  TypeOK'
<1>1. timer' \in 0 .. TIMER - 1
  BY Interrupt, TickLemma, IRAssumption DEF IInv
<1>2. rawlen' \in 0 .. RAWBUF
  <2>1. CASE \E i \in Entries : rawlen' = i + 1
    BY <2>1, IRAssumption DEF Entries
  <2>2. CASE UNCHANGED rawlen
    BY <2>2 DEF IInv, TypeOK
  <2> QED
    BY <2>1, <2>2, Interrupt
<1>3. rawbuf' \in [Entries -> {"none", "gap", "mark", "space"}]
  <2>1. CASE \E i \in Entries, kind \in {"gap", "mark", "space"} :
                rawbuf' = [rawbuf EXCEPT ![i] = kind]
    BY <2>1 DEF IInv, TypeOK
  <2>2. CASE UNCHANGED rawbuf
    BY <2>2 DEF IInv, TypeOK
  <2> QED
    BY <2>1, <2>2, Interrupt
<1>4. rcvstate' \in {"none", "IDLE", "MARK", "SPACE", "STOP"}
  BY Interrupt DEF IInv, TypeOK
<1>5. quiet' \in 0 .. GAP_TICKS
  <2>1. quiet \in 0 .. GAP_TICKS /\ GAP_TICKS \in Nat \ {0}
    BY IRAssumption DEF IInv, TypeOK
  <2>2. quiet' = IF irdata = "MARK" THEN 0
                 ELSE IF quiet < GAP_TICKS THEN quiet + 1 ELSE quiet
    BY DEF ISR
  <2> QED
    BY <2>1, <2>2
<1>6. interrupted' \in BOOLEAN
  BY Zenon DEF ISR
<1>7. UNCHANGED <<pc, length>>
  BY DEF ISR
<1> QED
  BY <1>1, <1>2, <1>3, <1>4, <1>5, <1>6, <1>7 DEF IInv, TypeOK

\* The one interrupt let in between the length and the test either leaves the
\* length alone or is recording, which the test then refuses.
LEMMA InterruptHeld ==
    ASSUME IInv, NEW irdata \in {"MARK", "SPACE"}, ISR(irdata)
    PROVE  Held' /\ (decoding => UNCHANGED <<rawlen, rawbuf>>)
<1>1. interrupted' = TRUE /\ pc' = pc /\ length' = length
  BY Zenon DEF ISR
<1>2. pc = "test" => ~interrupted
  BY Zenon DEF ISR
<1>3. decoding => UNCHANGED <<rawlen, rawbuf>> /\ rcvstate' = "STOP"
  BY Interrupt DEF IInv, Held
<1>4. pc = "test" => length = rawlen
  BY <1>2 DEF IInv, Held
<1>5. pc = "test" /\ rcvstate' = "STOP" => length = rawlen'
  BY <1>4, Interrupt
<1>6. decoding => length' = rawlen'
  BY <1>1, <1>3 DEF IInv, Held
<1>7. decoding' = decoding
  BY <1>1 DEF decoding
<1>8. (decoding => rcvstate = "STOP" /\ length = rawlen)'
  BY <1>3, <1>6, <1>7
<1>9. (pc = "test" /\ ~interrupted => length = rawlen)'
  BY <1>1
<1>10. (pc = "test" /\ rcvstate = "STOP" => length = rawlen)'
  BY <1>1, <1>5
<1> QED
  BY <1>3, <1>8, <1>9, <1>10 DEF Held

LEMMA InterruptTimed ==
    ASSUME IInv, NEW irdata \in {"MARK", "SPACE"}, ISR(irdata)
    PROVE  Started' /\ Timed'
<1>1. /\ quiet' = IF irdata = "MARK" THEN 0
                  ELSE IF quiet < GAP_TICKS THEN quiet + 1 ELSE quiet
      /\ pc' = pc
  BY DEF ISR
<1>2. interrupted' = TRUE
  BY Zenon DEF ISR
<1>3. rcvstate' = "none" => rcvstate = "none"
  BY Interrupt
<1>4. Started'
  <2>1. pc = "enable" => rcvstate' \in {"none", "STOP"}
    BY Interrupt DEF Started, IInv
  <2> QED
    BY <1>1, <1>2, <1>3, <2>1 DEF Started, IInv
<1>5. /\ quiet \in 0 .. GAP_TICKS /\ GAP_TICKS \in Nat \ {0}
      /\ timer \in Nat /\ rawlen \in 0 .. RAWBUF /\ RAWBUF \in Nat
  BY IRAssumption DEF IInv, TypeOK
<1>6. tick \in Nat /\ tick <= timer + 1
  BY TickLemma, IRAssumption DEF IInv
<1>7. full <=> rawlen = RAWBUF
  BY <1>5 DEF full
<1>8. CASE timer' = 0
  BY <1>1, <1>4, <1>5, <1>8 DEF Timed
<1>9. CASE rcvstate = "none" /\ timer' = tick
  <2>1. ~interrupted /\ timer = 0
    BY <1>9, Zenon DEF ISR, IInv, Started
  <2> QED
    BY <1>1, <1>4, <1>5, <1>6, <1>9, <2>1 DEF Timed
<1>10. CASE rcvstate # "none" /\ timer' = tick /\ tick # 0 /\ UNCHANGED rawlen
  <2>1. CASE irdata = "MARK"
    <3>1. rcvstate' = "MARK" /\ ~full
      BY <1>10, <2>1, Interrupt
    <3> QED
      BY <1>4, <1>7, <1>10, <3>1 DEF Timed
  <2>2. CASE irdata = "SPACE"
    <3>1. rcvstate' # "MARK" \/ rawlen = RAWBUF
          => rcvstate # "MARK" \/ rawlen = RAWBUF
      BY <1>7, <1>10, Interrupt
    <3>2. rcvstate' # "MARK" \/ rawlen = RAWBUF
          => quiet = GAP_TICKS \/ timer <= quiet + 1
      BY <3>1 DEF IInv, Timed
    <3> QED
      BY <1>1, <1>4, <1>5, <1>6, <1>10, <2>2, <3>2 DEF Timed
  <2> QED
    BY <2>1, <2>2
<1>11. timer' = 0 \/ (timer' = tick /\ tick # 0 /\ UNCHANGED rawlen)
  BY Interrupt
<1> QED
  BY <1>4, <1>8, <1>9, <1>10, <1>11

LEMMA LoopKeeps == ASSUME IInv, loop PROVE IInv'
<1>1. TypeOK'
  <2>1. interrupted' \in BOOLEAN /\ pc' \in {"enable", "enabled", "decode",
            "test", "match", "print", "resume", "cleared"}
    BY Zenon DEF loop, SetIdle, SetEmpty, ReadLength, NotReady, Ready, Decoded,
           Unknown, Printed, At
  <2>2. /\ rcvstate' \in {rcvstate, "IDLE"} /\ rawlen' \in {rawlen, 0}
        /\ length' \in {length, rawlen}
        /\ UNCHANGED <<timer, rawbuf, quiet>>
    BY DEF loop, SetIdle, SetEmpty, ReadLength, NotReady, Ready, Decoded,
           Unknown, Printed, irparams
  <2>3. 0 \in 0 .. RAWBUF
    BY IRAssumption
  <2> QED
    BY <2>1, <2>2, <2>3 DEF IInv, TypeOK
<1>2. Held'
  <2>1. CASE SetIdle \/ SetEmpty
    BY <2>1 DEF SetIdle, SetEmpty, At, Held, decoding
  <2>2. CASE ReadLength
    BY <2>2 DEF ReadLength, At, Held, decoding, irparams
  <2>3. CASE NotReady
    BY <2>3 DEF NotReady, At, Held, decoding
  <2>4. CASE Ready \/ Decoded \/ Unknown \/ Printed
    BY <2>4 DEF IInv, Ready, Decoded, Unknown, Printed, At, Held, decoding, irparams
  <2> QED
    BY <2>1, <2>2, <2>3, <2>4 DEF loop
<1>3. Started'
  <2>1. CASE SetIdle
    BY <2>1 DEF SetIdle, At, Started
  <2>2. CASE ~SetIdle
    <3>1. UNCHANGED rcvstate /\ pc # "enable" /\ pc' # "enable"
      BY <2>2 DEF loop, SetEmpty, ReadLength, NotReady, Ready, Decoded,
                  Unknown, Printed, At, irparams
    <3> QED
      BY <3>1 DEF IInv, Started
  <2> QED
    BY <2>1, <2>2
<1>4. Timed'
  <2>1. CASE SetIdle
    <3>1. rcvstate # "MARK"
      BY <2>1 DEF SetIdle, At, IInv, Held, Started, decoding, TypeOK
    <3> QED
      BY <2>1, <3>1 DEF SetIdle, IInv, Timed
  <2>2. CASE SetEmpty
    BY <2>2, IRAssumption DEF SetEmpty, IInv, Timed
  <2>3. CASE ReadLength \/ NotReady \/ Ready \/ Decoded \/ Unknown \/ Printed
    BY <2>3 DEF IInv, Timed, ReadLength, NotReady, Ready, Decoded, Unknown,
                Printed, irparams
  <2> QED
    BY <2>1, <2>2, <2>3 DEF loop
<1> QED
  BY <1>1, <1>2, <1>3, <1>4 DEF IInv

LEMMA Keeps == IInv /\ [Next]_vars => IInv'
<1> SUFFICES ASSUME IInv, [Next]_vars PROVE IInv'
  OBVIOUS
<1>1. ASSUME NEW irdata \in {"MARK", "SPACE"}, ISR(irdata) PROVE IInv'
  BY <1>1, InterruptTypes, InterruptHeld, InterruptTimed DEF IInv
<1>2. CASE loop
  BY <1>2, LoopKeeps
<1>3. CASE UNCHANGED vars
  BY <1>3 DEF IInv, TypeOK, Held, Started, Timed, decoding, vars, irparams
<1> QED
  BY <1>1, <1>2, <1>3 DEF Next

LEMMA Inductive == Spec => []IInv
<1>1. Init => IInv
  BY Initially
<1> QED
  BY <1>1, Keeps, PTL DEF Spec

\* The interrupt writes inside rawbuf and leaves every variable well-formed,
\* for every size of the buffer, every gap and every width of the timer.
THEOREM TypeCorrect == Spec => []TypeOK
<1>1. IInv => TypeOK
  BY DEF IInv
<1> QED
  BY <1>1, Inductive, PTL

\* The code is left alone from the test of rcvstate to resume().
THEOREM CodeLeftAlone == Spec => CodeKept
<1> DEFINE kept == decoding => length = rawlen /\ UNCHANGED <<rawlen, rawbuf>>
<1>1. IInv /\ [Next]_vars => [kept]_vars
  <2> SUFFICES ASSUME IInv, Next PROVE kept
    OBVIOUS
  <2>1. decoding => length = rawlen
    BY DEF IInv, Held
  <2>2. CASE \E irdata \in {"MARK", "SPACE"} : ISR(irdata)
    BY <2>1, <2>2, InterruptHeld
  <2>3. CASE loop
    <3>1. decoding => UNCHANGED <<rawlen, rawbuf>>
      BY <2>3 DEF loop, SetIdle, SetEmpty, ReadLength, NotReady, Ready, Decoded,
                  Unknown, Printed, At, decoding, irparams
    <3> QED
      BY <2>1, <3>1
  <2> QED
    BY <2>2, <2>3 DEF Next
<1> QED
  BY <1>1, Inductive, PTL DEF Spec, CodeKept

\* A recording begins behind a gap, whenever resume() is called.
THEOREM StartsBehindAGap == Spec => StartsAfterGap
<1> DEFINE behind == rcvstate \notin {"MARK", "SPACE"} /\ rcvstate' = "MARK"
                     => quiet + 2 >= GAP_TICKS
<1>1. IInv /\ [Next]_vars => [behind]_vars
  <2> SUFFICES ASSUME IInv, Next PROVE behind
    OBVIOUS
  <2>1. ASSUME NEW irdata \in {"MARK", "SPACE"}, ISR(irdata),
               rcvstate \notin {"MARK", "SPACE"}, rcvstate' = "MARK"
        PROVE  quiet + 2 >= GAP_TICKS
    <3>1. rcvstate = "IDLE" /\ tick >= GAP_TICKS
      BY <2>1, Interrupt DEF IInv, TypeOK
    <3>2. quiet = GAP_TICKS \/ timer <= quiet + 1
      BY <3>1 DEF IInv, Timed
    <3>3. /\ quiet \in Nat /\ GAP_TICKS \in Nat /\ timer \in Nat
          /\ tick \in Nat /\ tick <= timer + 1
      BY TickLemma, IRAssumption DEF IInv, TypeOK
    <3> QED
      BY <3>1, <3>2, <3>3
  <2>2. loop => ~(rcvstate \notin {"MARK", "SPACE"} /\ rcvstate' = "MARK")
    BY DEF loop, SetIdle, SetEmpty, ReadLength, NotReady, Ready, Decoded,
           Unknown, Printed, irparams
  <2> QED
    BY <2>1, <2>2 DEF Next
<1> QED
  BY <1>1, Inductive, PTL DEF Spec, StartsAfterGap
=============================================================================
