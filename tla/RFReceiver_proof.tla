-------------------------- MODULE RFReceiver_proof --------------------------
(* Proofs about the ring-buffer receiver for every ring size, frame length  *)
(* and sequence of pulses, and, below the last rule, about the receiver     *)
(* together with the sensor it listens to.                                  *)
EXTENDS RFLink, TLAPS

\* The remainder of a number below twice the divisor.  Every index of the
\* sketch is computed from one.
LEMMA ModLemma ==
    ASSUME NEW n \in Nat \ {0}, NEW a \in 0 .. 2 * n - 1
    PROVE  /\ a % n \in 0 .. n - 1
           /\ a < n => a % n = a
           /\ a >= n => a % n = a - n
  BY SMT

\* What the assumptions on the constants say without remainders.
LEMMA SizeLemma ==
    /\ RING_BUFFER_SIZE \in Nat \ {0} /\ RING_BUFFER_SIZE >= 4
    /\ FRAME \in Nat /\ FRAME >= 2 /\ FRAME < RING_BUFFER_SIZE
    /\ \E h \in Nat : FRAME = 2 * h
  BY RingAssumption, SMT

\* The index arithmetic of the sketch: every argument is below twice the size.
LEMMA WrapLemma ==
    ASSUME NEW a \in 0 .. 2 * RING_BUFFER_SIZE - 1
    PROVE  /\ Wrap(a) \in Slots
           /\ a < RING_BUFFER_SIZE => Wrap(a) = a
           /\ a >= RING_BUFFER_SIZE => Wrap(a) = a - RING_BUFFER_SIZE
  <1>1. RING_BUFFER_SIZE \in Nat \ {0}
    BY SizeLemma
  <1>2. /\ a % RING_BUFFER_SIZE \in 0 .. RING_BUFFER_SIZE - 1
        /\ a < RING_BUFFER_SIZE => a % RING_BUFFER_SIZE = a
        /\ a >= RING_BUFFER_SIZE
              => a % RING_BUFFER_SIZE = a - RING_BUFFER_SIZE
    BY <1>1, ModLemma, Zenon
  <1> QED
    BY <1>2, Zenon DEF Wrap, Slots

\* The slot after a slot is a slot, another one, and going back undoes it.
LEMMA NextSlotLemma ==
    ASSUME NEW s \in Slots
    PROVE  /\ Next1(s) \in Slots
           /\ Next1(s) # s
           /\ Wrap(Next1(s) + RING_BUFFER_SIZE - 1) = s
  <1>1. s + 1 \in 0 .. 2 * RING_BUFFER_SIZE - 1
    BY SizeLemma DEF Slots
  <1>2. /\ Next1(s) \in Slots
        /\ s + 1 < RING_BUFFER_SIZE => Next1(s) = s + 1
        /\ s + 1 >= RING_BUFFER_SIZE => Next1(s) = 0 /\ s = RING_BUFFER_SIZE - 1
    BY <1>1, SizeLemma, WrapLemma DEF Slots, Next1
  <1>3. Next1(s) + RING_BUFFER_SIZE - 1 \in 0 .. 2 * RING_BUFFER_SIZE - 1
    BY <1>2, SizeLemma DEF Slots
  <1>4. Wrap(Next1(s) + RING_BUFFER_SIZE - 1) = s
    BY <1>2, <1>3, SizeLemma, WrapLemma DEF Slots
  <1> QED
    BY <1>2, <1>4, SizeLemma DEF Slots

\* The test on changeCount accepts exactly the second syncs FRAME slots on.
LEMMA ChangeCountLemma ==
    ASSUME NEW s1 \in Slots, NEW s2 \in Slots, changeCount(s1, s2) = FRAME
    PROVE  s2 = Wrap(s1 + FRAME)
  <1>1. s1 + FRAME \in 0 .. 2 * RING_BUFFER_SIZE - 1
    BY SizeLemma DEF Slots
  <1> QED
    BY <1>1, SizeLemma, WrapLemma DEF Slots, changeCount

\* Offsets of at most a frame: the slot two further on is the one reached by
\* adding two to the offset, and only FRAME itself leads to the frame's end.
LEMMA OffsetLemma ==
    ASSUME NEW s \in Slots, NEW a \in 0 .. FRAME
    PROVE  /\ Wrap(s + a) = Wrap(s + FRAME) => a = FRAME
           /\ a + 2 <= FRAME => Wrap(Wrap(s + a) + 2) = Wrap(s + (a + 2))
  <1>1. /\ s + a \in 0 .. 2 * RING_BUFFER_SIZE - 1
        /\ s + FRAME \in 0 .. 2 * RING_BUFFER_SIZE - 1
    BY SizeLemma DEF Slots
  <1>2. Wrap(s + a) = Wrap(s + FRAME) => a = FRAME
    BY <1>1, SizeLemma, WrapLemma DEF Slots
  <1>3. ASSUME a + 2 <= FRAME
        PROVE  Wrap(Wrap(s + a) + 2) = Wrap(s + (a + 2))
    <2>1. /\ s + (a + 2) \in 0 .. 2 * RING_BUFFER_SIZE - 1
          /\ Wrap(s + a) + 2 \in 0 .. 2 * RING_BUFFER_SIZE - 1
      BY <1>1, <1>3, SizeLemma, WrapLemma DEF Slots
    <2> QED
      BY <1>1, <2>1, SizeLemma, WrapLemma DEF Slots
  <1> QED
    BY <1>2, <1>3

-----------------------------------------------------------------------------
(* The inductive invariant.  Type correctness alone is not inductive: that  *)
(* the field read out lies inside the message needs DecodeInStep, which     *)
(* needs FrameIntact, which needs that nobody but the holder of the ring    *)
(* changes it (Handoff).                                                    *)
IInv == TypeOK /\ Handoff /\ FrameIntact /\ DecodeInStep

LEMMA InitInv == Init => IInv
  <1> SUFFICES ASSUME Init PROVE IInv
    OBVIOUS
  <1> USE DEF Init
  <1>1. 0 \in Slots /\ SinceCap \in Nat
    BY SizeLemma DEF Slots, SinceCap
  <1>2. TypeOK
    BY <1>1, FieldAssumption DEF TypeOK, Pulses, Chars, NoField
  <1>3. Handoff /\ FrameIntact /\ DecodeInStep
    BY DEF Handoff, Holding, FrameIntact, DecodeInStep
  <1> QED
    BY <1>2, <1>3 DEF IInv

\* A step of the receiver on a pin where any pulse may come, in Lengths or not.
AnyNext == loop \/ \E d \in Pulses, high \in BOOLEAN : handler(d, high)

LEMMA NextIsAnyNext == ASSUME [Next]_vars PROVE [AnyNext]_vars
  BY LengthsAssumption DEF Next, AnyNext

\* A pulse leaves the invariant intact, whatever its length and the pin level.
LEMMA HandlerInv ==
    ASSUME IInv, NEW d \in Pulses, NEW high \in BOOLEAN, handler(d, high)
    PROVE  IInv'
  <1> USE DEF IInv
  <1>1. duration(d) \in Pulses
    BY DEF duration, Pulses
  <1>2. CASE Ignore
    BY <1>2 DEF Ignore, ring, locals, TypeOK, Handoff, Holding, FrameIntact,
                DecodeInStep
  <1>3. ASSUME Store(d)
        PROVE  /\ ringIndex' \in Slots /\ ringIndex' # ringIndex
               /\ Wrap(ringIndex' + RING_BUFFER_SIZE - 1) = ringIndex
               /\ timings' \in [Slots -> Pulses]
               /\ timings'[ringIndex'] = duration(d)
               /\ timings'[ringIndex] = timings[ringIndex]
               /\ pc' \in {"poll"}
               /\ pc' = pc /\ attached' /\ ~received
               /\ UNCHANGED locals
    <2>1. pc = "poll"
      BY <1>3 DEF Store, Handoff, Holding
    <2>2. ringIndex \in Slots /\ timings \in [Slots -> Pulses]
      BY DEF TypeOK
    <2> QED
      BY <1>1, <1>3, <2>1, <2>2, NextSlotLemma DEF Store, Handoff
  <1>4. CASE Data(d, high)
    <2>1. Store(d) /\ UNCHANGED <<syncIndex1, syncIndex2, syncCount, received>>
      BY <1>4 DEF Data
    <2>2. since' \in 0 .. SinceCap
      BY <1>4, SizeLemma DEF Data, TypeOK, SinceCap
    <2>3. TypeOK'
      BY <1>3, <2>1, <2>2 DEF Store, TypeOK, locals
    <2> QED
      BY <1>3, <2>1, <2>3
      DEF Handoff, Holding, FrameIntact, DecodeInStep
  <1>5. CASE FirstSync(d, high)
    <2>1. Store(d)
      BY <1>5 DEF FirstSync
    <2>2. syncIndex1' \in Slots /\ since' \in 0 .. SinceCap
      BY <1>3, <1>5, <2>1, SizeLemma, NextSlotLemma DEF FirstSync, SinceCap
    <2>3. TypeOK'
      BY <1>3, <1>5, <2>1, <2>2 DEF FirstSync, Store, TypeOK, locals
    <2> QED
      BY <1>3, <1>5, <2>1, <2>3
      DEF FirstSync, Handoff, Holding, FrameIntact, DecodeInStep
  <1>6. CASE SecondSync(d, high)
    <2> DEFINE s2 == Next1(ringIndex')
    <2>1. Store(d) /\ isSync(d, high) /\ syncCount' = 0
      BY <1>6 DEF SecondSync
    <2>2. s2 \in Slots /\ 0 \in Slots /\ syncIndex1 \in Slots
      BY <1>3, <2>1, NextSlotLemma, SizeLemma DEF Slots, TypeOK
    <2>3. \/ /\ changeCount(syncIndex1, s2) = FRAME
             /\ received' = TRUE
             /\ syncIndex2' = s2
             /\ syncIndex1' = syncIndex1
          \/ /\ received' = FALSE
             /\ syncIndex1' = 0
             /\ syncIndex2' = 0
      BY <1>6 DEF SecondSync
    <2>4. TypeOK'
      BY <1>3, <1>6, <2>1, <2>2, <2>3, SizeLemma
      DEF SecondSync, Store, TypeOK, locals, SinceCap
    <2>5. Handoff' /\ DecodeInStep'
      BY <1>3, <2>1, <2>3 DEF Handoff, Holding, DecodeInStep
    <2>6. FrameIntact'
      <3>1. ASSUME received' PROVE syncIndex2' = Wrap(syncIndex1' + FRAME)
        BY <2>2, <2>3, <3>1, ChangeCountLemma
      <3>2. ASSUME received' PROVE Next1(ringIndex') = syncIndex2'
        BY <2>3, <3>2
      <3>3. /\ timings'[ringIndex'] = "sync"
            /\ timings'[ringIndex] = "sep"
        BY <1>3, <2>1 DEF isSync
      <3> QED
        BY <1>3, <2>1, <3>1, <3>2, <3>3 DEF FrameIntact
    <2> QED
      BY <2>4, <2>5, <2>6
  <1> QED
    BY <1>2, <1>4, <1>5, <1>6 DEF handler

\* When the decoding loop has met the end of the frame it has one character
\* for every pair, so the field read out lies inside the message.
LEMMA MessageComplete ==
    ASSUME IInv, pc = "decode"
    PROVE  /\ 2 * Len(Str) \in 0 .. FRAME
           /\ i = syncIndex2 => 2 * Len(Str) = FRAME
           /\ i # syncIndex2 => 2 * Len(Str) + 2 <= FRAME
  <1>1. /\ Str \in Seq(Chars) /\ syncIndex1 \in Slots
        /\ i = Wrap(syncIndex1 + 2 * Len(Str)) /\ 2 * Len(Str) <= FRAME
        /\ syncIndex2 = Wrap(syncIndex1 + FRAME)
    BY DEF IInv, TypeOK, Handoff, Holding, FrameIntact, DecodeInStep
  <1>2. Len(Str) \in Nat
    BY <1>1
  <1>3. 2 * Len(Str) \in 0 .. FRAME
    BY <1>1, <1>2, SizeLemma
  <1>4. i = syncIndex2 => 2 * Len(Str) = FRAME
    BY <1>1, <1>3, OffsetLemma
  <1>5. i # syncIndex2 => 2 * Len(Str) # FRAME
    BY <1>1
  <1>6. PICK h \in Nat : FRAME = 2 * h
    BY SizeLemma
  <1>7. 2 * Len(Str) # FRAME => 2 * Len(Str) + 2 <= FRAME
    BY <1>2, <1>3, <1>6
  <1> QED
    BY <1>3, <1>4, <1>5, <1>7

\* Every statement of loop() keeps the invariant.
LEMMA LoopInv == ASSUME IInv, loop PROVE IInv'
  <1> USE DEF IInv
  <1>0. 0 \in Slots
    BY SizeLemma DEF Slots
  <1>1. CASE Poll
    BY <1>1 DEF Poll, ring, locals, TypeOK, Handoff, Holding, FrameIntact,
                DecodeInStep
  <1>2. CASE Detach
    <2>1. /\ syncIndex1 \in Slots /\ syncIndex1' = syncIndex1
          /\ i' = syncIndex1 /\ Str' = <<>>
      BY <1>2 DEF Detach, ring, TypeOK
    <2>2. Wrap(syncIndex1 + 0) = syncIndex1
      BY <2>1, SizeLemma, WrapLemma DEF Slots
    <2>3. Len(Str') = 0
      BY <2>1
    <2>4. DecodeInStep'
      BY <2>1, <2>2, <2>3, SizeLemma DEF DecodeInStep, Slots
    <2>5. Str' \in Seq(Chars)
      BY <2>1
    <2>6. TypeOK'
      BY <1>2, <2>1, <2>5 DEF Detach, ring, TypeOK
    <2>7. Handoff' /\ FrameIntact'
      BY <1>2 DEF Detach, ring, Handoff, Holding, FrameIntact
    <2> QED
      BY <2>4, <2>6, <2>7
  <1>3. CASE DecodeBit
    <2>1. /\ pc = "decode" /\ i # syncIndex2
          /\ Str' = Append(Str, bitreceived') /\ i' = Wrap(i + 2)
          /\ bitreceived' = Classify(i, bitreceived)
          /\ UNCHANGED <<received, late, attached, pc, temp_out, ring>>
      BY <1>3 DEF DecodeBit
    <2>2. bitreceived' \in Chars
      BY <2>1 DEF Classify, Chars, TypeOK
    <2>3. /\ Str \in Seq(Chars) /\ Str' \in Seq(Chars)
          /\ Len(Str) \in Nat /\ Len(Str') = Len(Str) + 1
      BY <2>1, <2>2 DEF TypeOK
    <2>4. /\ 2 * Len(Str) \in 0 .. FRAME /\ 2 * Len(Str) + 2 <= FRAME
          /\ i = Wrap(syncIndex1 + 2 * Len(Str)) /\ syncIndex1 \in Slots
      BY <2>1, MessageComplete DEF DecodeInStep, TypeOK
    <2>5. i' = Wrap(syncIndex1 + (2 * Len(Str) + 2))
      BY <2>1, <2>4, OffsetLemma
    <2>6. 2 * Len(Str') = 2 * Len(Str) + 2
      BY <2>3
    <2>7. DecodeInStep'
      BY <2>1, <2>4, <2>5, <2>6 DEF DecodeInStep, ring
    <2>8. i' \in Slots
      BY <2>1, SizeLemma, WrapLemma DEF TypeOK, Slots
    <2> QED
      BY <2>1, <2>2, <2>3, <2>7, <2>8
      DEF ring, TypeOK, Handoff, Holding, FrameIntact
  <1>4. CASE ReadField
    <2>1. 2 * Len(Str) = FRAME /\ Str \in Seq(Chars) /\ Len(Str) \in Nat
      BY <1>4, MessageComplete DEF ReadField, TypeOK
    <2>2. ASSUME NEW j \in 0 .. WIDTH - 1
          PROVE  charAt(Str, FIRST + j) \in Chars
      <3>1. FIRST + j + 1 \in 1 .. Len(Str)
        BY <2>1, FieldAssumption, SizeLemma
      <3> QED
        BY <2>1, <3>1 DEF charAt, Chars
    <2>3. temp_out' \in [0 .. WIDTH - 1 -> Chars]
      BY <1>4, <2>2 DEF ReadField
    <2> QED
      BY <1>4, <2>3 DEF ReadField, ring, TypeOK, Handoff, Holding, FrameIntact,
                        DecodeInStep
  <1>5. CASE Delay
    BY <1>5 DEF Delay, ring, locals, TypeOK, Handoff, Holding, FrameIntact,
                DecodeInStep
  <1>6. CASE ReleaseFrame
    BY <1>6 DEF ReleaseFrame, ring, locals, TypeOK, Handoff, Holding,
                FrameIntact, DecodeInStep
  <1>7. CASE ResetIndexes
    BY <1>0, <1>7 DEF ResetIndexes, locals, TypeOK, Handoff, Holding,
                FrameIntact, DecodeInStep
  <1>8. CASE Attach
    BY <1>0, <1>8 DEF Attach, ring, TypeOK, Handoff, Holding, FrameIntact,
                DecodeInStep, NoField, Chars
  <1> QED
    BY <1>1, <1>2, <1>3, <1>4, <1>5, <1>6, <1>7, <1>8 DEF loop

LEMMA StutterInv == ASSUME IInv, UNCHANGED vars PROVE IInv'
  BY DEF IInv, vars, TypeOK, Handoff, Holding, FrameIntact, DecodeInStep

LEMMA StepInv == ASSUME IInv, [AnyNext]_vars PROVE IInv'
  BY HandlerInv, LoopInv, StutterInv DEF AnyNext

\* IInv holds in every reachable state.
LEMMA Invariance == Spec => []IInv
  <1>1. ASSUME IInv, [Next]_vars PROVE IInv'
    BY <1>1, NextIsAnyNext, StepInv
  <1> QED
    BY InitInv, <1>1, PTL DEF Spec

\* The indexes stay inside the ring and the field inside the message, for
\* every ring size, frame length and stream of pulses.
THEOREM TypeCorrect == Spec => []TypeOK
  BY Invariance, PTL DEF IInv

\* loop() works on the ring only while `received' shields it from handler().
THEOREM HandoffHolds == Spec => []Handoff
  BY Invariance, PTL DEF IInv

\* A captured frame spans FRAME slots and ends in the sync pair until released.
THEOREM FrameStaysIntact == Spec => []FrameIntact
  BY Invariance, PTL DEF IInv

\* The decoding loop meets the end of the frame after one step per pair.
THEOREM DecodeMeetsTheEnd == Spec => []DecodeInStep
  BY Invariance, PTL DEF IInv

\* No step overwrites the ring or moves its marks under a held frame.
THEOREM RingFrozenWhileHeld == Spec => FrozenWhileHeld
  <1> DEFINE Same == received /\ received' =>
                        UNCHANGED <<timings, syncIndex1, syncIndex2>>
  <1>1. ASSUME IInv, [Next]_vars PROVE [Same]_vars
    <2>1. ASSUME NEW d \in Lengths, NEW high \in BOOLEAN, handler(d, high)
          PROVE  Same
      BY <2>1 DEF handler, Ignore, Data, FirstSync, SecondSync, Store, ring
    <2>2. CASE loop
      BY <1>1, <2>2 DEF IInv, Handoff, Holding, loop, Poll, Detach, DecodeBit,
         ReadField, Delay, ReleaseFrame, ResetIndexes, Attach, ring
    <2>3. CASE UNCHANGED vars
      BY <2>3 DEF vars
    <2> QED
      BY <1>1, <2>1, <2>2, <2>3 DEF Next
  <1> QED
    BY Invariance, <1>1, PTL DEF Spec, FrozenWhileHeld

-----------------------------------------------------------------------------
(* The mark of the first sync.                                              *)

\* One slot on and one pulse more: the same slot is meant.
LEMMA MarkLemma ==
    ASSUME NEW r \in Slots, NEW n \in Nat, n + 1 < RING_BUFFER_SIZE
    PROVE  Wrap(Next1(Next1(r)) + RING_BUFFER_SIZE - (n + 1))
              = Wrap(Next1(r) + RING_BUFFER_SIZE - n)
  <1> DEFINE s == Next1(r)
  <1>1. s \in Slots /\ Next1(s) \in Slots
    BY NextSlotLemma
  <1>2. s + 1 \in 0 .. 2 * RING_BUFFER_SIZE - 1
    BY <1>1, SizeLemma DEF Slots
  <1>3. Next1(s) = IF s + 1 < RING_BUFFER_SIZE THEN s + 1 ELSE 0
    BY <1>1, <1>2, SizeLemma, WrapLemma DEF Slots, Next1
  <1> HIDE DEF s
  <1>4. /\ s + RING_BUFFER_SIZE - n \in 0 .. 2 * RING_BUFFER_SIZE - 1
        /\ Next1(s) + RING_BUFFER_SIZE - (n + 1) \in 0 .. 2 * RING_BUFFER_SIZE - 1
    BY <1>1, SizeLemma DEF Slots
  <1>5. CASE s + 1 < RING_BUFFER_SIZE
    <2>1. Next1(s) + RING_BUFFER_SIZE - (n + 1) = s + RING_BUFFER_SIZE - n
      BY <1>1, <1>3, <1>5, SizeLemma DEF Slots
    <2> QED
      BY <2>1 DEF s
  <1>6. CASE s + 1 >= RING_BUFFER_SIZE
    <2>1. s = RING_BUFFER_SIZE - 1 /\ Next1(s) = 0
      BY <1>1, <1>3, <1>6, SizeLemma DEF Slots
    <2>2. /\ s + RING_BUFFER_SIZE - n >= RING_BUFFER_SIZE
          /\ Next1(s) + RING_BUFFER_SIZE - (n + 1) < RING_BUFFER_SIZE
          /\ Next1(s) + RING_BUFFER_SIZE - (n + 1)
                = (s + RING_BUFFER_SIZE - n) - RING_BUFFER_SIZE
      BY <2>1, SizeLemma
    <2> QED
      BY <1>4, <2>2, WrapLemma DEF s
  <1> QED
    BY <1>1, <1>5, <1>6, SizeLemma DEF Slots

LEMMA NoOffset ==
    ASSUME NEW s \in Slots
    PROVE  Wrap(s + RING_BUFFER_SIZE - 0) = s
  <1>1. /\ s + RING_BUFFER_SIZE - 0 \in 0 .. 2 * RING_BUFFER_SIZE - 1
        /\ s + RING_BUFFER_SIZE - 0 >= RING_BUFFER_SIZE
        /\ (s + RING_BUFFER_SIZE - 0) - RING_BUFFER_SIZE = s
    BY SizeLemma DEF Slots
  <1> QED
    BY <1>1, WrapLemma

\* No sync is pending while loop() clears the marks: a held frame has none, and
\* the interrupt is off until the marks are cleared.
NoneToClear == pc \in {"reset", "attach"} => syncCount = 0

LEMMA MarkStep ==
    ASSUME IInv, MarkKept, NoneToClear, [Next]_vars
    PROVE  MarkKept' /\ NoneToClear'
  <1> USE DEF MarkKept, NoneToClear
  <1>0. /\ ringIndex \in Slots /\ since \in Nat /\ since <= SinceCap
        /\ SinceCap >= RING_BUFFER_SIZE /\ SinceCap \in Nat
    BY SizeLemma DEF IInv, TypeOK, SinceCap
  <1>1. ASSUME NEW d \in Lengths, NEW high \in BOOLEAN, handler(d, high)
        PROVE  MarkKept' /\ NoneToClear'
    <2>1. attached /\ pc' = pc /\ pc' \notin {"reset", "attach"}
      BY <1>1 DEF handler, Ignore, Data, FirstSync, SecondSync, Store, IInv, Handoff
    <2>2. CASE Ignore
      BY <2>1, <2>2 DEF Ignore, ring
    <2>3. CASE Data(d, high)
      <3>1. /\ UNCHANGED <<syncCount, syncIndex1>> /\ ringIndex' = Next1(ringIndex)
            /\ since' = IF since < SinceCap THEN since + 1 ELSE since
        BY <2>3 DEF Data, Store
      <3> SUFFICES ASSUME syncCount = 1, since' < RING_BUFFER_SIZE
                   PROVE  syncIndex1 = Wrap(Next1(ringIndex') + RING_BUFFER_SIZE - since')
        BY <2>1, <3>1
      <3>2. since' = since + 1 /\ since + 1 < RING_BUFFER_SIZE
        BY <1>0, <3>1, SizeLemma
      <3>3. syncIndex1 = Wrap(Next1(ringIndex) + RING_BUFFER_SIZE - since)
        BY <1>0, <3>2, SizeLemma
      <3> QED
        BY <1>0, <3>1, <3>2, <3>3, MarkLemma
    <2>4. CASE FirstSync(d, high)
      <3>1. /\ ringIndex' = Next1(ringIndex) /\ since' = 0
            /\ syncIndex1' = Next1(ringIndex')
        BY <2>4 DEF FirstSync, Store
      <3>2. Next1(ringIndex') \in Slots
        BY <1>0, <3>1, NextSlotLemma
      <3> QED
        BY <2>1, <3>1, <3>2, NoOffset
    <2>5. CASE SecondSync(d, high)
      BY <2>1, <2>5 DEF SecondSync
    <2> QED
      BY <1>1, <2>2, <2>3, <2>4, <2>5 DEF handler
  <1>2. CASE loop
    <2>1. CASE ReleaseFrame
      <3>1. syncCount = 0
        BY <2>1 DEF ReleaseFrame, IInv, Handoff, Holding
      <3> QED
        BY <2>1, <3>1 DEF ReleaseFrame, ring
    <2>2. CASE ResetIndexes
      BY <2>2 DEF ResetIndexes
    <2> QED
      BY <1>2, <2>1, <2>2 DEF loop, Poll, Detach, DecodeBit, ReadField, Delay, Attach,
                              ring
  <1>3. CASE UNCHANGED vars
    BY <1>3 DEF vars
  <1> QED
    BY <1>1, <1>2, <1>3 DEF Next

\* However many pulses came and whatever loop() did since, the mark points at
\* the pulse after the first sync until the ring has gone round.
THEOREM MarkStays == Spec => []MarkKept
  <1>1. Init => MarkKept /\ NoneToClear
    BY DEF Init, MarkKept, NoneToClear
  <1> QED
    BY <1>1, MarkStep, Invariance, PTL DEF Spec

-----------------------------------------------------------------------------
(* The receiver is a one-frame box.                                         *)

\* The pulses between the two marks.
Frame == [j \in 0 .. FRAME - 1 |-> timings[Wrap(syncIndex1 + j)]]

\* While loop() decodes, Str is the beginning of the message of the frame, and
\* bitreceived the character the next pair keeps if it tells nothing.
Decoded ==
    pc = "decode" =>
        \E g \in Chars :
            /\ \A j \in 0 .. Len(Str) - 1 : Str[j + 1] = Box!Message(Frame, g)[j]
            /\ bitreceived = IF Str = <<>> THEN g ELSE Str[Len(Str)]

LEMMA MaxLemma ==
    ASSUME NEW S, NEW n \in S, n \in Nat, \A y \in S : y \in Nat /\ n >= y
    PROVE  Box!Max(S) = n
  <1>1. \A x \in S : (\A y \in S : x >= y) => x = n
    <2> SUFFICES ASSUME NEW x \in S, \A y \in S : x >= y PROVE x = n
      OBVIOUS
    <2>1. x \in Nat /\ x >= n /\ n >= x
      OBVIOUS
    <2> QED
      BY <2>1
  <1>2. \E x \in S : \A y \in S : x >= y
    OBVIOUS
  <1>3. /\ Box!Max(S) \in S /\ \A y \in S : Box!Max(S) >= y
    BY <1>2, Zenon DEF Box!Max
  <1> QED
    BY <1>1, <1>3, Zenon

\* A message grows by a character at a time: the pair's own, when it tells
\* something, or else the one before.
LEMMA MessageLemma ==
    ASSUME NEW f, NEW g, NEW n \in 0 .. (FRAME \div 2) - 1
    PROVE  Box!Message(f, g)[n] =
              IF Box!Tells(f, n) THEN Box!CharOf(f, n)
              ELSE IF n = 0 THEN g ELSE Box!Message(f, g)[n - 1]
  <1> DEFINE said(k) == {m \in 0 .. k : Box!Tells(f, m)}
  <1>1. n \in Nat /\ FRAME \div 2 \in Nat
    BY SizeLemma
  <1>2. \A k \in 0 .. (FRAME \div 2) - 1 :
           Box!Message(f, g)[k] =
              IF said(k) = {} THEN g ELSE Box!CharOf(f, Box!Max(said(k)))
    BY DEF Box!Message
  <1>3. CASE Box!Tells(f, n)
    <2>1. n \in said(n) /\ \A y \in said(n) : y \in Nat /\ n >= y
      BY <1>1, <1>3
    <2>2. Box!Max(said(n)) = n
      BY <1>1, <2>1, MaxLemma
    <2>3. said(n) # {}
      BY <2>1
    <2> QED
      BY <1>2, <1>3, <2>2, <2>3
  <1>4. CASE ~Box!Tells(f, n)
    <2>1. CASE n = 0
      <3>1. said(n) = {}
        BY <1>4, <2>1
      <3> QED
        BY <1>2, <1>4, <2>1, <3>1
    <2>2. CASE n # 0
      <3>1. n - 1 \in 0 .. (FRAME \div 2) - 1
        BY <1>1, <2>2
      <3>2. said(n) = said(n - 1)
        BY <1>1, <1>4, <2>2
      <3> HIDE DEF said
      <3> QED
        BY <1>2, <1>4, <2>2, <3>1, <3>2
    <2> QED
      BY <2>1, <2>2
  <1> QED
    BY <1>3, <1>4

\* Decoding a pair adds the next character of the message.
LEMMA ClassifyLemma ==
    ASSUME IInv, pc = "decode", i # syncIndex2, NEW g \in Chars,
           bitreceived = IF Len(Str) = 0 THEN g ELSE Box!Message(Frame, g)[Len(Str) - 1]
    PROVE  Classify(i, bitreceived) = Box!Message(Frame, g)[Len(Str)]
  <1> DEFINE n == Len(Str)
  <1>1. /\ n \in Nat /\ 2 * n \in 0 .. FRAME /\ 2 * n + 2 <= FRAME
        /\ syncIndex1 \in Slots /\ i = Wrap(syncIndex1 + 2 * n)
    BY MessageComplete DEF IInv, TypeOK, DecodeInStep
  <1> HIDE DEF n
  <1>2. Next1(i) = Wrap(syncIndex1 + (2 * n + 1))
    <2>1. /\ syncIndex1 + 2 * n \in 0 .. 2 * RING_BUFFER_SIZE - 1
          /\ syncIndex1 + (2 * n + 1) \in 0 .. 2 * RING_BUFFER_SIZE - 1
      BY <1>1, SizeLemma DEF Slots
    <2>2. i \in Slots /\ i + 1 \in 0 .. 2 * RING_BUFFER_SIZE - 1
      BY <1>1, <2>1, WrapLemma, SizeLemma DEF Slots
    <2> QED
      BY <1>1, <2>1, <2>2, WrapLemma, SizeLemma DEF Slots, Next1
  <1>3. 2 * n \in 0 .. FRAME - 1 /\ 2 * n + 1 \in 0 .. FRAME - 1
    BY <1>1, SizeLemma
  <1>4. Frame[2 * n] = timings[i] /\ Frame[2 * n + 1] = timings[Next1(i)]
    BY <1>1, <1>2, <1>3 DEF Frame
  <1>5. Classify(i, bitreceived) =
           IF Box!Tells(Frame, n) THEN Box!CharOf(Frame, n) ELSE bitreceived
    BY <1>4 DEF Classify, Box!Tells, Box!CharOf
  <1>6. n \in 0 .. (FRAME \div 2) - 1
    <2>1. PICK h \in Nat : FRAME = 2 * h
      BY SizeLemma
    <2>2. FRAME \div 2 = h
      BY <2>1, SMT
    <2> QED
      BY <1>1, <2>1, <2>2
  <1>7. Box!Message(Frame, g)[n] =
           IF Box!Tells(Frame, n) THEN Box!CharOf(Frame, n)
           ELSE IF n = 0 THEN g ELSE Box!Message(Frame, g)[n - 1]
    BY <1>6, MessageLemma
  <1> QED
    BY <1>5, <1>7 DEF n

LEMMA DecodedStep ==
    ASSUME IInv, Decoded, [AnyNext]_vars PROVE Decoded'
  <1> SUFFICES ASSUME pc' = "decode" PROVE Decoded'
    BY DEF Decoded
  <1>1. CASE Detach
    <2>1. Str' = <<>> /\ bitreceived' \in Chars
      BY <1>1 DEF Detach
    <2>2. Len(Str') = 0
      BY <2>1
    <2>3. /\ \A j \in 0 .. Len(Str') - 1 : Str'[j + 1] = Box!Message(Frame', bitreceived')[j]
          /\ bitreceived' = IF Str' = <<>> THEN bitreceived' ELSE Str'[Len(Str')]
      BY <2>1, <2>2
    <2>4. \E g \in Chars :
             /\ \A j \in 0 .. Len(Str') - 1 : Str'[j + 1] = Box!Message(Frame', g)[j]
             /\ bitreceived' = IF Str' = <<>> THEN g ELSE Str'[Len(Str')]
      BY <2>1, <2>3, Zenon
    <2> QED
      BY <2>4, Zenon DEF Decoded, Box!Message, Box!Tells, Box!CharOf
  <1>2. CASE DecodeBit
    <2>1. /\ pc = "decode" /\ i # syncIndex2
          /\ bitreceived' = Classify(i, bitreceived)
          /\ Str' = Append(Str, bitreceived')
          /\ UNCHANGED <<timings, syncIndex1>>
      BY <1>2 DEF DecodeBit, ring
    <2>2. PICK g \in Chars :
             /\ \A j \in 0 .. Len(Str) - 1 : Str[j + 1] = Box!Message(Frame, g)[j]
             /\ bitreceived = IF Str = <<>> THEN g ELSE Str[Len(Str)]
      BY <2>1 DEF Decoded
    <2> DEFINE n == Len(Str)
               m == Box!Message(Frame, g)
    <2>3. /\ Str \in Seq(Chars) /\ n \in Nat /\ bitreceived \in Chars
          /\ (n = 0 <=> Str = <<>>)
      BY DEF IInv, TypeOK
    <2>4. bitreceived = IF n = 0 THEN g ELSE m[n - 1]
      <3> HIDE DEF m
      <3>1. n # 0 => n - 1 \in 0 .. n - 1 /\ (n - 1) + 1 = n
        BY <2>3
      <3>2. n # 0 => Str[n] = m[n - 1]
        BY <2>2, <2>3, <3>1 DEF m
      <3> QED
        BY <2>2, <2>3, <3>2
    <2>5. bitreceived' = m[n]
      BY <2>1, <2>4, ClassifyLemma
    <2>6. bitreceived' \in Chars
      BY <2>1, <2>3 DEF Classify, Chars
    <2>7. /\ Len(Str') = n + 1 /\ Str'[n + 1] = bitreceived' /\ Str' # <<>>
          /\ \A j \in 1 .. n : Str'[j] = Str[j]
      BY <2>1, <2>3, <2>6
    <2>8. Frame' = Frame
      BY <2>1 DEF Frame
    <2>9. ASSUME NEW j \in 0 .. Len(Str') - 1 PROVE Str'[j + 1] = m[j]
      <3> HIDE DEF m
      <3>1. CASE j = n
        BY <2>5, <2>7, <3>1
      <3>2. CASE j # n
        <4>1. j \in 0 .. n - 1 /\ j + 1 \in 1 .. n
          BY <2>3, <2>7, <3>2
        <4> QED
          BY <2>2, <2>7, <4>1 DEF m
      <3> QED
        BY <3>1, <3>2
    <2>10. bitreceived' = IF Str' = <<>> THEN g ELSE Str'[Len(Str')]
      BY <2>7
    <2>11. \A j \in 0 .. Len(Str') - 1 : Str'[j + 1] = Box!Message(Frame', g)[j]
      BY <2>8, <2>9
    <2> QED
      BY <2>10, <2>11, Zenon DEF Decoded, Box!Message, Box!Tells, Box!CharOf
  <1>3. CASE UNCHANGED vars
    <2>1. /\ Str' = Str /\ bitreceived' = bitreceived /\ Frame' = Frame /\ pc = "decode"
      BY <1>3 DEF vars, Frame
    <2>2. \E g \in Chars :
             /\ \A j \in 0 .. Len(Str') - 1 : Str'[j + 1] = Box!Message(Frame', g)[j]
             /\ bitreceived' = IF Str' = <<>> THEN g ELSE Str'[Len(Str')]
      BY <2>1 DEF Decoded
    <2> QED
      BY <2>2, Zenon DEF Decoded, Box!Message, Box!Tells, Box!CharOf
  <1>4. ASSUME NEW d \in Pulses, NEW high \in BOOLEAN, handler(d, high)
        PROVE  FALSE
    <2>1. attached /\ pc' = pc
      BY <1>4 DEF handler, Ignore, Data, FirstSync, SecondSync, Store
    <2> QED
      BY <2>1 DEF IInv, Handoff
  <1>5. CASE loop
    BY <1>1, <1>2, <1>5 DEF loop, Poll, ReadField, Delay, ReleaseFrame, ResetIndexes,
                            Attach
  <1> QED
    BY <1>3, <1>4, <1>5 DEF AnyNext

\* What ReadField takes out of Str is the field of the frame's message.
LEMMA FieldLemma ==
    ASSUME IInv, Decoded, ReadField
    PROVE  \E g \in Chars : temp_out' = Box!FieldOf(Frame, g)
  <1>1. /\ pc = "decode" /\ 2 * Len(Str) = FRAME /\ Len(Str) \in Nat
        /\ temp_out' = [j \in 0 .. WIDTH - 1 |-> charAt(Str, FIRST + j)]
    BY MessageComplete DEF ReadField, IInv, TypeOK
  <1>2. PICK g \in Chars :
           \A j \in 0 .. Len(Str) - 1 : Str[j + 1] = Box!Message(Frame, g)[j]
    BY <1>1 DEF Decoded
  <1> DEFINE m == Box!Message(Frame, g)
  <1>3. ASSUME NEW j \in 0 .. WIDTH - 1
        PROVE  charAt(Str, FIRST + j) = Box!Shown(m, FIRST + j)
    <2> DEFINE n == FIRST + j
    <2>1. n \in Nat /\ n < Len(Str)
      BY <1>1, FieldAssumption
    <2>2. \A e \in 0 .. n : Str[e + 1] = m[e]
      BY <1>1, <1>2, <2>1
    <2> HIDE DEF m, n
    <2>3. (\E e \in 1 .. n + 1 : Str[e] = "NUL") <=> (\E e \in 0 .. n : m[e] = "NUL")
      <3>1. ASSUME NEW e \in 1 .. n + 1, Str[e] = "NUL"
            PROVE  \E k \in 0 .. n : m[k] = "NUL"
        <4>1. e - 1 \in 0 .. n /\ (e - 1) + 1 = e
          BY <2>1
        <4>2. m[e - 1] = "NUL"
          BY <2>2, <3>1, <4>1
        <4> QED
          BY <4>1, <4>2
      <3>2. ASSUME NEW e \in 0 .. n, m[e] = "NUL"
            PROVE  \E k \in 1 .. n + 1 : Str[k] = "NUL"
        <4>1. e + 1 \in 1 .. n + 1
          BY <2>1
        <4>2. Str[e + 1] = "NUL"
          BY <2>2, <3>2
        <4> QED
          BY <4>1, <4>2
      <3> QED
        BY <3>1, <3>2, Zenon
    <2>4. Str[n + 1] = m[n]
      BY <2>1, <2>2
    <2>5. charAt(Str, n) = Box!Shown(m, n)
      BY <2>3, <2>4, Zenon DEF charAt, Box!Shown
    <2> QED
      BY <2>5 DEF n
  <1>4. temp_out' = [j \in 0 .. WIDTH - 1 |-> Box!Shown(m, FIRST + j)]
    BY <1>1, <1>3
  <1> QED
    BY <1>4 DEF Box!FieldOf

\* The box as the mapping fills it.
BoxOf  == IF received THEN Frame ELSE <<>>
ToldOf == pc \in {"delay", "release"}
OutOf  == IF pc \in {"delay", "release"} THEN temp_out ELSE NoField

LEMMA FrameNotEmpty == Frame # <<>>
  <1>1. 0 \in DOMAIN Frame
    BY SizeLemma DEF Frame
  <1>2. DOMAIN <<>> = {}
    OBVIOUS
  <1> QED
    BY <1>1, <1>2, Zenon

\* The slots t from s on, up to the sync in r, are a frame that may be put in
\* the box. (Of constants, so that it serves the state after a step as well.)
LEMMA FrameClosed ==
    ASSUME NEW t \in [Slots -> Pulses], NEW s \in Slots, NEW r \in Slots,
           Next1(r) = Wrap(s + FRAME),
           t[r] = "sync",
           t[Wrap(r + RING_BUFFER_SIZE - 1)] = "sep"
    PROVE  [j \in 0 .. FRAME - 1 |-> t[Wrap(s + j)]]
              \in {f \in [0 .. FRAME - 1 -> Pulses] :
                     f[FRAME - 2] = "sep" /\ f[FRAME - 1] = "sync"}
  <1> DEFINE frame == [j \in 0 .. FRAME - 1 |-> t[Wrap(s + j)]]
  <1>1. ASSUME NEW j \in 0 .. FRAME - 1
        PROVE  s + j \in 0 .. 2 * RING_BUFFER_SIZE - 1
    BY SizeLemma DEF Slots
  <1>2. frame \in [0 .. FRAME - 1 -> Pulses]
    <2>1. ASSUME NEW j \in 0 .. FRAME - 1
          PROVE  t[Wrap(s + j)] \in Pulses
      BY <1>1, WrapLemma
    <2> QED
      BY <2>1
  <1>3. FRAME - 1 \in 0 .. FRAME - 1 /\ FRAME - 2 \in 0 .. FRAME - 1
    BY SizeLemma
  <1>4. Wrap(s + (FRAME - 1)) = r
    <2>1. r + 1 \in 0 .. 2 * RING_BUFFER_SIZE - 1
          /\ s + FRAME \in 0 .. 2 * RING_BUFFER_SIZE - 1
      BY SizeLemma DEF Slots
    <2>2. s + (FRAME - 1) \in 0 .. 2 * RING_BUFFER_SIZE - 1
      BY <1>1, <1>3
    <2> QED
      BY <2>1, <2>2, SizeLemma, WrapLemma DEF Slots, Next1
  <1>5. Wrap(s + (FRAME - 2)) = Wrap(r + RING_BUFFER_SIZE - 1)
    <2>1. /\ s + (FRAME - 1) \in 0 .. 2 * RING_BUFFER_SIZE - 1
          /\ s + (FRAME - 2) \in 0 .. 2 * RING_BUFFER_SIZE - 1
      BY <1>1, <1>3
    <2>2. r + RING_BUFFER_SIZE - 1 \in 0 .. 2 * RING_BUFFER_SIZE - 1
      BY SizeLemma DEF Slots
    <2> QED
      BY <1>4, <2>1, <2>2, SizeLemma, WrapLemma DEF Slots
  <1>6. frame[FRAME - 1] = "sync" /\ frame[FRAME - 2] = "sep"
    BY <1>3, <1>4, <1>5
  <1> QED
    BY <1>2, <1>6

\* A step of the receiver is a step of the box, or leaves the box alone.
Alone == UNCHANGED <<BoxOf, ToldOf, OutOf>>
Delivers ==
    /\ BoxOf = <<>>
    /\ BoxOf' \in {f \in Box!Frames : f[FRAME - 2] = "sep" /\ f[FRAME - 1] = "sync"}
    /\ UNCHANGED <<ToldOf, OutOf>>
Reports ==
    /\ BoxOf # <<>> /\ ~ToldOf
    /\ \E g \in Chars : OutOf' = Box!FieldOf(BoxOf, g)
    /\ ToldOf' = TRUE
    /\ UNCHANGED BoxOf
Releases ==
    /\ BoxOf # <<>> /\ ToldOf
    /\ BoxOf' = <<>> /\ ToldOf' = FALSE /\ OutOf' = NoField

LEMMA BoxStep ==
    ASSUME IInv, IInv', Decoded, [Next]_vars
    PROVE  Delivers \/ Reports \/ Releases \/ Alone
  <1> USE DEF BoxOf, ToldOf, OutOf
  <1>1. ASSUME NEW d \in Lengths, NEW high \in BOOLEAN, handler(d, high)
        PROVE  Delivers \/ Alone
    <2>1. pc \notin {"delay", "release"} /\ pc' = pc
      BY <1>1 DEF handler, Ignore, Data, FirstSync, SecondSync, Store, IInv, Handoff,
                  TypeOK
    <2>2. CASE Ignore
      <3>1. received' = received /\ Frame' = Frame
        BY <2>2 DEF Ignore, ring, Frame
      <3> QED
        BY <2>1, <3>1 DEF Alone
    <2>3. CASE Data(d, high) \/ FirstSync(d, high)
      <3>1. received' = received /\ ~received
        BY <2>3 DEF Data, FirstSync, Store
      <3> QED
        BY <2>1, <3>1 DEF Alone
    <2>4. CASE SecondSync(d, high)
      <3>1. ~received
        BY <2>4 DEF SecondSync, Store
      <3>2. CASE received'
        <4>1. Frame' \in {f \in Box!Frames : f[FRAME - 2] = "sep"
                                             /\ f[FRAME - 1] = "sync"}
          <5>1. /\ timings' \in [Slots -> Pulses]
                /\ syncIndex1' \in Slots /\ ringIndex' \in Slots
                /\ Next1(ringIndex') = Wrap(syncIndex1' + FRAME)
                /\ timings'[ringIndex'] = "sync"
                /\ timings'[Wrap(ringIndex' + RING_BUFFER_SIZE - 1)] = "sep"
            BY <3>2 DEF IInv, TypeOK, FrameIntact, Wrap, Next1
          <5>2. Frame' = [j \in 0 .. FRAME - 1 |-> timings'[Wrap(syncIndex1' + j)]]
            BY DEF Frame, Wrap
          <5> QED
            BY <5>1, <5>2, FrameClosed DEF Box!Frames, Box!Pulses, Pulses
        <4> QED
          BY <2>1, <3>1, <3>2, <4>1 DEF Delivers
      <3>3. CASE ~received'
        BY <2>1, <3>1, <3>3 DEF Alone
      <3> QED
        BY <3>2, <3>3
    <2> QED
      BY <1>1, <2>2, <2>3, <2>4 DEF handler
  <1>2. CASE Poll
    BY <1>2 DEF Poll, ring, locals, Alone, Frame
  <1>3. CASE Detach
    BY <1>3 DEF Detach, ring, Alone, Frame
  <1>4. CASE DecodeBit
    BY <1>4 DEF DecodeBit, ring, Alone, Frame
  <1>5. CASE ReadField
    <2>1. /\ pc = "decode" /\ pc' = "delay" /\ received' = received /\ Frame' = Frame
      BY <1>5 DEF ReadField, ring, Frame
    <2>2. received
      BY <2>1 DEF IInv, Handoff, Holding
    <2>3. \E g \in Chars : temp_out' = Box!FieldOf(Frame, g)
      BY <1>5, FieldLemma
    <2> QED
      BY <2>1, <2>2, <2>3, FrameNotEmpty DEF Reports
  <1>6. CASE Delay
    BY <1>6 DEF Delay, ring, locals, Alone, Frame
  <1>7. CASE ReleaseFrame
    <2>1. /\ pc = "release" /\ pc' = "reset" /\ received' = FALSE
      BY <1>7 DEF ReleaseFrame
    <2>2. received
      BY <2>1 DEF IInv, Handoff, Holding
    <2> QED
      BY <2>1, <2>2, FrameNotEmpty DEF Releases
  <1>8. CASE ResetIndexes
    BY <1>8 DEF ResetIndexes, Alone, IInv, Handoff
  <1>9. CASE Attach
    BY <1>9 DEF Attach, ring, Alone, IInv, Handoff
  <1>10. CASE UNCHANGED vars
    BY <1>10 DEF vars, Alone, Frame
  <1> QED
    BY <1>1, <1>2, <1>3, <1>4, <1>5, <1>6, <1>7, <1>8, <1>9, <1>10 DEF Next, loop

\* The receiver implements the one-frame box: every behaviour of handler() and
\* loop() starts as an empty box, and each of its steps delivers a frame into
\* the empty box, tells its field once, empties it after that, or does nothing.
THEOREM ReceiverIsABox == Spec => Box!BoxInit /\ [][Box!BoxNext]_(Box!bvars)
  <1>1. Init => Box!BoxInit
    BY DEF Init, Box!BoxInit, Box!Empty, Box!NoField, NoField
  <1>2. Init => Decoded
    BY DEF Init, Decoded
  <1>3. ASSUME IInv, IInv', Decoded, [Next]_vars
        PROVE  [Box!BoxNext]_(Box!bvars)
    <2>1. Delivers => Box!Deliver
      BY DEF Delivers, Box!Deliver, Box!Empty, BoxOf, ToldOf, OutOf, Frame
    <2>2. Reports => Box!Report
      BY DEF Reports, Box!Report, Box!Empty, Box!Chars, Chars, BoxOf, ToldOf, OutOf, Frame
    <2>3. Releases => Box!Release
      BY DEF Releases, Box!Release, Box!Empty, Box!NoField, NoField, BoxOf, ToldOf,
             OutOf, Frame
    <2>4. Alone => UNCHANGED Box!bvars
      BY DEF Alone, Box!bvars, BoxOf, ToldOf, OutOf, Frame
    <2> QED
      BY <1>3, <2>1, <2>2, <2>3, <2>4, BoxStep DEF Box!BoxNext
  <1>4. ASSUME IInv, Decoded, [Next]_vars PROVE Decoded'
    BY <1>4, NextIsAnyNext, DecodedStep
  <1> QED
    BY <1>1, <1>2, <1>3, <1>4, Invariance, PTL DEF Spec
-----------------------------------------------------------------------------
(* The receiver on the sensor's line, for every frame and for every         *)
(* disturbance: after noise two frames suffice, and a frame heard between   *)
(* its two syncs is read out as it was sent.                                *)

Bits == {"one", "zero"}

\* A frame is its bits and the sync, a pair of pulses each.
LEMMA FrameLemma ==
    /\ BITS \in Nat /\ FRAME = 2 * BITS + 2 /\ FRAME \div 2 = BITS + 1
  <1>1. PICK h \in Nat : FRAME = 2 * h
    BY SizeLemma
  <1>2. FRAME \div 2 = h
    BY <1>1, SMT
  <1> QED
    BY <1>1, <1>2, SizeLemma DEF BITS

LEMMA MinLemma ==
    ASSUME NEW n \in 0 .. 3
    PROVE  Min({n + 1, 3}) = IF n = 3 THEN 3 ELSE n + 1
  <1> DEFINE S == {n + 1, 3}
             low == IF n = 3 THEN 3 ELSE n + 1
  <1>1. /\ low \in S
        /\ \A y \in S : low <= y
        /\ \A x \in S : (\A y \in S : x <= y) => x = low
    OBVIOUS
  <1> HIDE DEF S, low
  <1>2. Min(S) = CHOOSE x \in S : \A y \in S : x <= y
    BY DEF Min
  <1>3. Min(S) = low
    BY <1>1, <1>2, Zenon
  <1> QED
    BY <1>3 DEF S, low

\* The slots of a frame are different slots.
LEMMA ApartLemma ==
    ASSUME NEW s \in Slots, NEW a \in 0 .. FRAME, NEW b \in 0 .. FRAME, a # b
    PROVE  Wrap(s + a) # Wrap(s + b)
  <1>1. /\ s + a \in 0 .. 2 * RING_BUFFER_SIZE - 1
        /\ s + b \in 0 .. 2 * RING_BUFFER_SIZE - 1
    BY SizeLemma DEF Slots
  <1> QED
    BY <1>1, SizeLemma, WrapLemma DEF Slots

\* The next pulse of a frame is in the next slot.
LEMMA AdvanceLemma ==
    ASSUME NEW s \in Slots, NEW a \in 0 .. FRAME - 1
    PROVE  Next1(Wrap(s + a)) = Wrap(s + (a + 1))
  <1>1. /\ s + a \in 0 .. 2 * RING_BUFFER_SIZE - 1
        /\ s + (a + 1) \in 0 .. 2 * RING_BUFFER_SIZE - 1
    BY SizeLemma DEF Slots
  <1>2. Wrap(s + a) + 1 \in 0 .. 2 * RING_BUFFER_SIZE - 1
    BY <1>1, WrapLemma, SizeLemma DEF Slots
  <1> QED
    BY <1>1, <1>2, SizeLemma, WrapLemma DEF Slots, Next1

\* A mark one frame on is accepted.
LEMMA AcceptLemma ==
    ASSUME NEW s \in Slots
    PROVE  changeCount(s, Wrap(s + FRAME)) = FRAME
  <1>1. s + FRAME \in 0 .. 2 * RING_BUFFER_SIZE - 1
    BY SizeLemma DEF Slots
  <1> QED
    BY <1>1, SizeLemma, WrapLemma DEF Slots, changeCount

-----------------------------------------------------------------------------
(* The inductive invariant of the line: what an undisturbed sensor has sent *)
(* since its last sync is what the ring holds behind the mark.              *)

LineTypes ==
    /\ phase \in {"sep", "data"}
    /\ sent \in Seq(Bits) /\ Len(sent) <= BITS
    /\ noise \in Nat
    /\ seen \in 0 .. 3
    /\ heard \in Seq(Bits)
    /\ heard # <<>> => Len(heard) = BITS

\* The pulses of the frame sent so far.
Pos == 2 * Len(sent) + (IF phase = "data" THEN 1 ELSE 0)

\* The pairs of the slots t behind the mark s are the bits of b.
Matches(t, s, b) ==
    \A m \in 1 .. Len(b) :
        /\ t[Wrap(s + (2 * m - 2))] = "sep"
        /\ t[Wrap(s + (2 * m - 1))] = b[m]

\* Edges are missed only while a frame is held: the ring ends with its sync.
MissedAfterFrame == late => timings[ringIndex] = "sync"

\* After an undisturbed sync sensor and receiver go in step: the receiver has
\* missed nothing, a wrong first sync has been dropped by the second frame,
\* and the pulses behind a mark are those of the frame being sent.
InStep ==
    attached /\ ~received /\ seen >= 1 =>
        /\ ~late
        /\ seen <= 2
        /\ seen = 2 => syncCount = 1
        /\ phase = "data" => timings[ringIndex] = "sep"
        /\ syncCount = 1 =>
              /\ Next1(ringIndex) = Wrap(syncIndex1 + Pos)
              /\ Matches(timings, syncIndex1, sent)

\* What has been heard is in the ring for as long as the frame is held.
HeldAsHeard ==
    /\ received => Matches(timings, syncIndex1, heard)
    /\ attached /\ ~received => heard = <<>>

LineInv == LineTypes /\ MissedAfterFrame /\ InStep /\ HeldAsHeard

LinkInv == IInv /\ Decoded /\ LineInv /\ ReadsWhatWasSent

\* Every step of the composition is a step of the receiver.
LEMMA LinkIsAnyNext == ASSUME [LinkNext]_lvars PROVE [AnyNext]_vars
  <1>1. CASE Work
    BY <1>1 DEF Work, Rejoin, loop, AnyNext
  <1>2. CASE Send
    <2>1. "sep" \in Pulses /\ "sync" \in Pulses /\ {"one", "zero"} \subseteq Pulses
      BY DEF Pulses
    <2> QED
      BY <1>2, <2>1 DEF Send, SendSep, SendSync, SendBit, AnyNext
  <1>3. CASE Ignore
    BY <1>3 DEF AnyNext, handler, Pulses
  <1>4. ASSUME NEW d \in Lengths, NEW high \in BOOLEAN, Disturb(d, high)
        PROVE  AnyNext
    BY <1>4, LengthsAssumption DEF Disturb, AnyNext
  <1>5. CASE UNCHANGED lvars
    BY <1>5 DEF lvars
  <1> QED
    BY <1>1, <1>2, <1>3, <1>4, <1>5 DEF LinkNext

LEMMA LinkInitInv == LinkInit => LinkInv
  <1> SUFFICES ASSUME LinkInit PROVE LinkInv
    OBVIOUS
  <1>1. IInv /\ Decoded /\ pc = "poll" /\ late = FALSE /\ received = FALSE
    BY InitInv DEF LinkInit, Init, Decoded
  <1>2. sent = <<>> /\ heard = <<>> /\ seen = 0 /\ noise = 0 /\ phase \in {"sep", "data"}
    BY DEF LinkInit
  <1>3. LineTypes
    BY <1>2, FrameLemma DEF LineTypes
  <1> QED
    BY <1>1, <1>2, <1>3 DEF LinkInv, LineInv, MissedAfterFrame, InStep, HeldAsHeard,
                            ReadsWhatWasSent

\* A pulse that is stored takes the slot after ringIndex and no other, and the
\* receiver has then missed nothing.
LEMMA StoreLemma ==
    ASSUME IInv, NEW d \in Pulses, NEW high \in BOOLEAN, ~received, handler(d, high)
    PROVE  /\ attached /\ attached' /\ pc = "poll" /\ pc' = "poll" /\ ~late'
           /\ ringIndex \in Slots /\ ringIndex' = Next1(ringIndex)
           /\ timings'[ringIndex'] = duration(d)
           /\ \A x \in Slots : x # ringIndex' => timings'[x] = timings[x]
           /\ UNCHANGED temp_out
  <1>1. Store(d)
    BY DEF handler, Ignore, Data, FirstSync, SecondSync
  <1>2. ringIndex \in Slots /\ timings \in [Slots -> Pulses] /\ Next1(ringIndex) \in Slots
    BY NextSlotLemma DEF IInv, TypeOK
  <1>3. pc = "poll"
    BY <1>1 DEF Store, IInv, Handoff, Holding
  <1> QED
    BY <1>1, <1>2, <1>3 DEF Store, locals

\* What a pulse other than a sync leaves alone.
LEMMA NoSyncLemma ==
    ASSUME NEW d \in Pulses \ {"sync"}, NEW high \in BOOLEAN, ~received, handler(d, high)
    PROVE  UNCHANGED <<syncCount, syncIndex1, received>>
  BY DEF handler, Ignore, Data, FirstSync, SecondSync, isSync, duration

\* The pulses behind the mark are not touched by the one in the next slot.
LEMMA MatchesLemma ==
    ASSUME NEW s \in Slots, NEW b \in Seq(Bits), Len(b) <= BITS,
           NEW p \in 2 * Len(b) .. FRAME, NEW r, r = Wrap(s + p),
           NEW t, NEW u, \A x \in Slots : x # r => u[x] = t[x],
           Matches(t, s, b)
    PROVE  Matches(u, s, b)
  <1> SUFFICES ASSUME NEW m \in 1 .. Len(b)
               PROVE  /\ u[Wrap(s + (2 * m - 2))] = "sep"
                      /\ u[Wrap(s + (2 * m - 1))] = b[m]
    BY DEF Matches
  <1>1. /\ Len(b) \in Nat
        /\ 2 * m - 2 \in 0 .. FRAME /\ 2 * m - 1 \in 0 .. FRAME /\ p \in 0 .. FRAME
        /\ 2 * m - 2 # p /\ 2 * m - 1 # p
    BY FrameLemma
  <1>2. /\ s + (2 * m - 2) \in 0 .. 2 * RING_BUFFER_SIZE - 1
        /\ s + (2 * m - 1) \in 0 .. 2 * RING_BUFFER_SIZE - 1
    BY <1>1, SizeLemma DEF Slots
  <1>3. /\ Wrap(s + (2 * m - 2)) \in Slots /\ Wrap(s + (2 * m - 1)) \in Slots
    BY <1>2, WrapLemma
  <1>4. /\ Wrap(s + (2 * m - 2)) # r /\ Wrap(s + (2 * m - 1)) # r
    BY <1>1, ApartLemma
  <1> QED
    BY <1>3, <1>4 DEF Matches

\* The slot before the next one.
LEMMA BackLemma ==
    ASSUME NEW s \in Slots, NEW r \in Slots, NEW p \in 0 .. FRAME - 1,
           Next1(r) = Wrap(s + (p + 1))
    PROVE  r = Wrap(s + p)
  <1>1. Wrap(s + p) \in Slots
    <2>1. s + p \in 0 .. 2 * RING_BUFFER_SIZE - 1
      BY SizeLemma DEF Slots
    <2> QED
      BY <2>1, WrapLemma
  <1>2. Next1(Wrap(s + p)) = Next1(r)
    BY AdvanceLemma
  <1>3. /\ Wrap(Next1(r) + RING_BUFFER_SIZE - 1) = r
        /\ Wrap(Next1(Wrap(s + p)) + RING_BUFFER_SIZE - 1) = Wrap(s + p)
    BY <1>1, NextSlotLemma
  <1> QED
    BY <1>2, <1>3

\* Nothing is held and nothing heard when a pulse is stored that is no sync.
LEMMA StillListening ==
    ASSUME LinkInv, attached, ~received, ~received', heard' = heard
    PROVE  HeldAsHeard'
  BY DEF LinkInv, LineInv, HeldAsHeard

LEMMA SepStep == ASSUME LinkInv, SendSep PROVE LineInv'
  <1>0. "sep" \in Pulses \ {"sync"} /\ FALSE \in BOOLEAN
    BY DEF Pulses
  <1>1. /\ ~received /\ phase = "sep" /\ phase' = "data" /\ handler("sep", FALSE)
        /\ UNCHANGED <<sent, noise, seen, heard>>
    BY DEF SendSep
  <1>2. /\ attached /\ attached' /\ pc = "poll" /\ ~late'
        /\ ringIndex \in Slots /\ ringIndex' = Next1(ringIndex)
        /\ timings'[ringIndex'] = duration("sep")
        /\ \A x \in Slots : x # ringIndex' => timings'[x] = timings[x]
    BY <1>0, <1>1, StoreLemma DEF LinkInv
  <1>3. UNCHANGED <<syncCount, syncIndex1, received>>
    BY <1>0, <1>1, NoSyncLemma
  <1>4. LineTypes'
    BY <1>1 DEF LinkInv, LineInv, LineTypes
  <1>5. MissedAfterFrame' /\ HeldAsHeard'
    BY <1>1, <1>2, <1>3, StillListening DEF MissedAfterFrame
  <1>6. ASSUME seen >= 1 PROVE InStep'
    <2>1. /\ ~late /\ seen <= 2 /\ (seen = 2 => syncCount = 1)
          /\ syncCount = 1 => /\ Next1(ringIndex) = Wrap(syncIndex1 + Pos)
                              /\ Matches(timings, syncIndex1, sent)
      BY <1>1, <1>2, <1>6 DEF LinkInv, LineInv, InStep
    <2>2. timings'[ringIndex'] = "sep"
      BY <1>2, <2>1 DEF duration
    <2>3. /\ Pos = 2 * Len(sent) /\ Pos' = Pos + 1 /\ Len(sent) \in Nat
          /\ Pos \in 2 * Len(sent) .. FRAME /\ Pos \in 0 .. FRAME - 1
          /\ sent \in Seq(Bits) /\ Len(sent) <= BITS
      BY <1>1, FrameLemma DEF Pos, LinkInv, LineInv, LineTypes
    <2>4. ASSUME syncCount = 1
          PROVE  /\ Next1(ringIndex') = Wrap(syncIndex1 + Pos')
                 /\ Matches(timings', syncIndex1, sent)
      <3>1. syncIndex1 \in Slots
        BY DEF LinkInv, IInv, TypeOK
      <3>2. Next1(ringIndex') = Wrap(syncIndex1 + Pos')
        BY <1>2, <2>1, <2>3, <2>4, <3>1, AdvanceLemma
      <3>3. Matches(timings', syncIndex1, sent)
        <4>1. ringIndex' = Wrap(syncIndex1 + Pos) /\ Matches(timings, syncIndex1, sent)
          BY <1>2, <2>1, <2>4
        <4> HIDE DEF Pos
        <4> QED
          BY <1>2, <2>3, <3>1, <4>1, MatchesLemma
      <3> QED
        BY <3>2, <3>3
    <2> QED
      BY <1>1, <1>2, <1>3, <2>1, <2>2, <2>4 DEF InStep, Matches, Wrap, Next1
  <1>7. ASSUME ~(seen >= 1) PROVE InStep'
    BY <1>1, <1>7 DEF InStep
  <1> QED
    BY <1>4, <1>5, <1>6, <1>7 DEF LineInv

LEMMA BitStep ==
    ASSUME LinkInv, NEW b \in Bits, SendBit(b) PROVE LineInv'
  <1>0. b \in Pulses \ {"sync"} /\ TRUE \in BOOLEAN
    BY DEF Pulses, Bits
  <1>1. /\ ~received /\ phase = "data" /\ phase' = "sep" /\ handler(b, TRUE)
        /\ Len(sent) < BITS /\ sent' = Append(sent, b)
        /\ UNCHANGED <<noise, seen, heard>>
    BY DEF SendBit, Hear
  <1>2. /\ attached /\ attached' /\ pc = "poll" /\ ~late'
        /\ ringIndex \in Slots /\ ringIndex' = Next1(ringIndex)
        /\ timings'[ringIndex'] = duration(b)
        /\ \A x \in Slots : x # ringIndex' => timings'[x] = timings[x]
    BY <1>0, <1>1, StoreLemma DEF LinkInv
  <1>3. UNCHANGED <<syncCount, syncIndex1, received>>
    BY <1>0, <1>1, NoSyncLemma
  <1> DEFINE n == Len(sent)
  <1>4. /\ sent \in Seq(Bits) /\ sent' \in Seq(Bits) /\ n \in Nat /\ Len(sent') = n + 1
        /\ sent'[n + 1] = b /\ \A m \in 1 .. n : sent'[m] = sent[m]
    BY <1>1 DEF LinkInv, LineInv, LineTypes
  <1>5. LineTypes'
    BY <1>1, <1>4, FrameLemma DEF LinkInv, LineInv, LineTypes
  <1>6. MissedAfterFrame' /\ HeldAsHeard'
    BY <1>1, <1>2, <1>3, StillListening DEF MissedAfterFrame
  <1>7. ASSUME seen >= 1 PROVE InStep'
    <2>1. /\ ~late /\ seen <= 2 /\ (seen = 2 => syncCount = 1)
          /\ timings[ringIndex] = "sep"
          /\ syncCount = 1 => /\ Next1(ringIndex) = Wrap(syncIndex1 + Pos)
                              /\ Matches(timings, syncIndex1, sent)
      BY <1>1, <1>2, <1>7 DEF LinkInv, LineInv, InStep
    <2>2. timings'[ringIndex'] = b
      BY <1>2, <2>1 DEF duration
    <2>3. /\ Pos = 2 * n + 1 /\ Pos' = Pos + 1
          /\ Pos \in 2 * n .. FRAME /\ Pos \in 0 .. FRAME - 1
          /\ 2 * n \in 0 .. FRAME - 1 /\ n <= BITS
      BY <1>1, <1>4, FrameLemma DEF Pos
    <2>4. ASSUME syncCount = 1
          PROVE  /\ Next1(ringIndex') = Wrap(syncIndex1 + Pos')
                 /\ Matches(timings', syncIndex1, sent')
      <3>1. syncIndex1 \in Slots
        BY DEF LinkInv, IInv, TypeOK
      <3>2. Next1(ringIndex') = Wrap(syncIndex1 + Pos')
        BY <1>2, <2>1, <2>3, <2>4, <3>1, AdvanceLemma
      <3>3. ringIndex' = Wrap(syncIndex1 + Pos) /\ Matches(timings, syncIndex1, sent)
        BY <1>2, <2>1, <2>4
      <3>4. Matches(timings', syncIndex1, sent)
        <4> HIDE DEF Pos
        <4> QED
          BY <1>2, <1>4, <2>3, <3>1, <3>3, MatchesLemma
      <3>5. /\ timings'[Wrap(syncIndex1 + 2 * n)] = "sep"
            /\ timings'[Wrap(syncIndex1 + (2 * n + 1))] = b
        <4>1. ringIndex = Wrap(syncIndex1 + 2 * n)
          <5>1. Next1(ringIndex) = Wrap(syncIndex1 + (2 * n + 1))
            BY <1>2, <2>3, <3>3
          <5> HIDE DEF n
          <5> QED
            BY <1>2, <2>3, <3>1, <5>1, BackLemma
        <4>2. timings'[ringIndex] = "sep"
          BY <1>2, <2>1, NextSlotLemma
        <4> QED
          BY <2>2, <2>3, <3>3, <4>1, <4>2
      <3>6. ASSUME NEW m \in 1 .. Len(sent')
            PROVE  /\ timings'[Wrap(syncIndex1 + (2 * m - 2))] = "sep"
                   /\ timings'[Wrap(syncIndex1 + (2 * m - 1))] = sent'[m]
        <4>1. CASE m = n + 1
          <5>1. 2 * m - 2 = 2 * n /\ 2 * m - 1 = 2 * n + 1
            BY <1>4, <4>1
          <5> QED
            BY <1>4, <3>5, <4>1, <5>1
        <4>2. CASE m # n + 1
          <5>1. m \in 1 .. n
            BY <1>4, <4>2
          <5> QED
            BY <1>4, <3>4, <5>1 DEF Matches
        <4> QED
          BY <4>1, <4>2
      <3> QED
        BY <3>2, <3>6 DEF Matches
    <2> QED
      BY <1>1, <1>2, <1>3, <2>1, <2>4 DEF InStep, Matches, Wrap, Next1
  <1>8. ASSUME ~(seen >= 1) PROVE InStep'
    BY <1>1, <1>8 DEF InStep
  <1> QED
    BY <1>5, <1>6, <1>7, <1>8 DEF LineInv

LEMMA NothingMatches == \A t, s : Matches(t, s, <<>>)
  BY DEF Matches

LEMMA SyncStep == ASSUME LinkInv, SendSync PROVE LineInv'
  <1>0. "sync" \in Pulses /\ TRUE \in BOOLEAN
    BY DEF Pulses
  <1>1. /\ ~received /\ phase = "data" /\ phase' = "sep" /\ handler("sync", TRUE)
        /\ Len(sent) = BITS /\ sent' = <<>> /\ noise' = noise
        /\ seen' = IF timings[ringIndex] = "sep" THEN Min({seen + 1, 3}) ELSE 0
        /\ heard' = IF received' /\ ~received /\ seen >= 1 /\ seen' > seen
                    THEN sent ELSE heard
    BY DEF SendSync, Hear
  <1>2. /\ attached /\ attached' /\ pc = "poll" /\ ~late'
        /\ ringIndex \in Slots /\ ringIndex' = Next1(ringIndex)
        /\ \A x \in Slots : x # ringIndex' => timings'[x] = timings[x]
    BY <1>0, <1>1, StoreLemma DEF LinkInv
  <1>3. /\ sent \in Seq(Bits) /\ heard \in Seq(Bits) /\ heard = <<>>
        /\ seen \in 0 .. 3 /\ noise \in Nat
    BY <1>1, <1>2 DEF LinkInv, LineInv, LineTypes, HeldAsHeard
  <1>4. seen >= 1 =>
           /\ seen <= 2 /\ (seen = 2 => syncCount = 1)
           /\ syncCount = 1 => /\ Next1(ringIndex) = Wrap(syncIndex1 + Pos)
                               /\ Matches(timings, syncIndex1, sent)
    BY <1>1, <1>2 DEF LinkInv, LineInv, InStep
  <1>5. /\ Min({seen + 1, 3}) = IF seen = 3 THEN 3 ELSE seen + 1
        /\ seen' \in 0 .. 3
    <2>1. Min({seen + 1, 3}) = IF seen = 3 THEN 3 ELSE seen + 1
      BY <1>3, MinLemma, Zenon
    <2> QED
      BY <1>1, <1>3, <2>1
  <1>6. LineTypes'
    <2>1. sent' \in Seq(Bits) /\ Len(sent') = 0
      BY <1>1
    <2> QED
      BY <1>1, <1>3, <1>5, <2>1, FrameLemma DEF LineTypes
  <1>7. MissedAfterFrame'
    BY <1>2 DEF MissedAfterFrame
  <1>8. CASE timings[ringIndex] # "sep"
    <2>1. seen' = 0 /\ heard' = <<>>
      BY <1>1, <1>3, <1>8
    <2> QED
      BY <1>6, <1>7, <2>1 DEF LineInv, InStep, HeldAsHeard, Matches
  <1>9. CASE timings[ringIndex] = "sep"
    <2>1. seen \in 0 .. 2 /\ seen' = seen + 1
      BY <1>1, <1>3, <1>4, <1>5, <1>9
    <2>2. isSync("sync", TRUE)
      BY <1>9 DEF isSync, duration, LinkInv, LineInv, MissedAfterFrame
    <2>3. CASE FirstSync("sync", TRUE)
      <3>1. /\ syncCount = 0 /\ syncCount' = 1 /\ ~received'
            /\ syncIndex1' = Next1(ringIndex')
        BY <1>1, <2>3 DEF FirstSync
      <3>2. seen' <= 2
        BY <1>4, <2>1, <3>1
      <3>3. Next1(ringIndex') = Wrap(syncIndex1' + Pos')
        <4>1. Next1(ringIndex') \in Slots
          BY <1>2, NextSlotLemma
        <4>2. Pos' = 0
          BY <1>1 DEF Pos
        <4> QED
          BY <3>1, <4>1, <4>2, WrapLemma, SizeLemma DEF Slots
      <3>4. Matches(timings', syncIndex1', sent')
        BY <1>1, NothingMatches
      <3>5. InStep'
        BY <1>1, <1>2, <3>1, <3>2, <3>3, <3>4 DEF InStep, Matches, Wrap, Next1
      <3>6. HeldAsHeard'
        BY <1>1, <1>3, <3>1 DEF HeldAsHeard
      <3> QED
        BY <1>6, <1>7, <3>5, <3>6 DEF LineInv
    <2>4. CASE SecondSync("sync", TRUE)
      <3>1. /\ syncCount = 1 /\ syncCount' = 0
            /\ changeCount(syncIndex1, Next1(ringIndex')) = FRAME
                  => received' /\ syncIndex1' = syncIndex1
        BY <2>4 DEF SecondSync
      <3>2. CASE seen = 0
        BY <1>1, <1>2, <1>3, <1>6, <1>7, <2>1, <3>1, <3>2
           DEF LineInv, InStep, HeldAsHeard, Matches
      <3>3. CASE seen # 0
        <4>1. /\ Pos = FRAME - 1 /\ Pos \in 0 .. FRAME - 1
              /\ Pos \in 2 * Len(sent) .. FRAME /\ Pos + 1 = FRAME
          BY <1>1, FrameLemma DEF Pos
        <4>2. /\ syncIndex1 \in Slots
              /\ ringIndex' = Wrap(syncIndex1 + Pos) /\ Matches(timings, syncIndex1, sent)
          BY <1>2, <1>4, <2>1, <3>1, <3>3 DEF LinkInv, IInv, TypeOK
        <4>3. Next1(ringIndex') = Wrap(syncIndex1 + FRAME)
          BY <4>1, <4>2, AdvanceLemma
        <4>4. received' /\ syncIndex1' = syncIndex1
          BY <3>1, <4>2, <4>3, AcceptLemma
        <4>5. heard' = sent
          BY <1>1, <2>1, <3>3, <4>4
        <4>6. Matches(timings', syncIndex1, sent)
          <5> HIDE DEF Pos
          <5> QED
            BY <1>1, <1>2, <1>3, <4>1, <4>2, MatchesLemma, FrameLemma
        <4>7. Matches(timings', syncIndex1', heard')
          BY <4>4, <4>5, <4>6
        <4> QED
          BY <1>6, <1>7, <4>4, <4>7 DEF LineInv, InStep, HeldAsHeard, Matches
      <3> QED
        BY <3>2, <3>3
    <2> QED
      BY <1>1, <2>2, <2>3, <2>4 DEF handler, Ignore, Data
  <1> QED
    BY <1>8, <1>9

\* Noise makes the receiver start again: nothing is counted or heard any more.
LEMMA DisturbStep ==
    ASSUME LinkInv, NEW d \in Lengths, NEW high \in BOOLEAN, Disturb(d, high)
    PROVE  LineInv'
  <1>1. /\ ~received /\ handler(d, high) /\ noise' = noise + 1 /\ seen' = 0
        /\ phase' \in {"sep", "data"} /\ sent' \in {sent, <<>>} /\ heard' = heard
    BY DEF Disturb
  <1>2. attached /\ ~late'
    BY <1>1, StoreLemma, LengthsAssumption DEF LinkInv
  <1>3. heard = <<>>
    BY <1>1, <1>2 DEF LinkInv, LineInv, HeldAsHeard
  <1>4. LineTypes'
    <2>1. <<>> \in Seq(Bits) /\ Len(<<>>) <= BITS
      BY FrameLemma
    <2>2. sent \in Seq(Bits) /\ Len(sent) <= BITS /\ noise \in Nat
      BY DEF LinkInv, LineInv, LineTypes
    <2>3. sent' \in Seq(Bits) /\ Len(sent') <= BITS
      BY <1>1, <2>1, <2>2, Zenon
    <2> QED
      BY <1>1, <1>3, <2>1, <2>2, <2>3 DEF LineTypes
  <1> QED
    BY <1>1, <1>2, <1>3, <1>4 DEF LineInv, MissedAfterFrame, InStep, HeldAsHeard, Matches

\* The frame that is held ends with its sync, whatever edges are missed.
LEMMA HeldEndsInSync == ASSUME LinkInv, received PROVE timings[ringIndex] = "sync"
  BY DEF LinkInv, IInv, FrameIntact

LEMMA WorkStep == ASSUME LinkInv, Work PROVE LineInv'
  <1> USE DEF LinkInv, LineInv
  <1>1. CASE Rejoin
    <2>1. /\ Attach /\ phase' \in {"sep", "data"} /\ seen' = 0 /\ heard' = <<>>
          /\ noise' = noise
      BY <1>1 DEF Rejoin
    <2>2. PICK n \in 0 .. BITS : sent' = [j \in 1 .. n |-> "zero"]
      BY <1>1 DEF Rejoin
    <2>3. sent' \in Seq(Bits) /\ Len(sent') = n /\ n <= BITS
      BY <2>2, FrameLemma DEF Bits
    <2>4. LineTypes'
      BY <2>1, <2>3 DEF LineTypes
    <2>5. UNCHANGED <<late, timings, ringIndex>>
      BY <2>1 DEF Attach, ring
    <2> QED
      BY <2>1, <2>4, <2>5 DEF MissedAfterFrame, InStep, HeldAsHeard, Matches
  <1>2. CASE ~Rejoin
    <2>1. /\ loop /\ ~Attach /\ UNCHANGED line
      BY <1>2 DEF Work, loop, Poll, Detach, DecodeBit, ReadField, Delay, ReleaseFrame,
                  ResetIndexes, Attach
    <2>2. LineTypes'
      BY <2>1 DEF LineTypes, line
    <2>3. MissedAfterFrame'
      BY <2>1, HeldEndsInSync
         DEF MissedAfterFrame, IInv, Handoff, Holding, loop, Poll, Detach, DecodeBit,
             ReadField, Delay, ReleaseFrame, ResetIndexes, ring
    <2>4. attached' => received'
      <3>1. CASE Poll
        BY <3>1 DEF Poll
      <3>2. CASE Detach
        BY <3>2 DEF Detach
      <3>3. CASE ~Poll /\ ~Detach
        <4>1. attached' = attached /\ pc \in {"decode", "delay", "release", "reset"}
          BY <2>1, <3>3 DEF loop, DecodeBit, ReadField, Delay, ReleaseFrame, ResetIndexes
        <4> QED
          BY <4>1 DEF IInv, Handoff
      <3> QED
        BY <3>1, <3>2, <3>3
    <2>5. received' => received /\ UNCHANGED <<timings, syncIndex1, heard>>
      BY <2>1 DEF IInv, Handoff, Holding, loop, Poll, Detach, DecodeBit,
                  ReadField, Delay, ReleaseFrame, ResetIndexes, ring, line
    <2> QED
      BY <2>2, <2>3, <2>4, <2>5 DEF InStep, HeldAsHeard, Matches
  <1> QED
    BY <1>1, <1>2

LEMMA IgnoreStep == ASSUME LinkInv, Ignore, UNCHANGED line PROVE LineInv'
  BY HeldEndsInSync DEF LinkInv, LineInv, Ignore, ring, line, LineTypes, MissedAfterFrame,
                        InStep, HeldAsHeard, Matches

LEMMA LineStep == ASSUME LinkInv, [LinkNext]_lvars PROVE LineInv'
  <1>1. CASE UNCHANGED lvars
    BY <1>1 DEF lvars, line, vars, LinkInv, LineInv, LineTypes, MissedAfterFrame, InStep,
                HeldAsHeard, Matches, Pos
  <1>2. CASE Send
    BY <1>2, SepStep, BitStep, SyncStep DEF Send, Bits
  <1> QED
    BY <1>1, <1>2, DisturbStep, WorkStep, IgnoreStep DEF LinkNext

-----------------------------------------------------------------------------
(* What is read out.                                                        *)

\* Pairs that all tell a bit, as a sensor's frame has, are read out bit by bit:
\* neither what was in memory nor an unknown pair shows.
LEMMA FieldOfBits ==
    ASSUME NEW f, NEW g, NEW b \in Seq(Bits), Len(b) = BITS,
           \A m \in 1 .. BITS : f[2 * m - 2] = "sep" /\ f[2 * m - 1] = b[m],
           NEW j \in 0 .. WIDTH - 1
    PROVE  Box!FieldOf(f, g)[j] = IF b[FIRST + j + 1] = "one" THEN "1" ELSE "0"
  <1> DEFINE n == FIRST + j
             msg == Box!Message(f, g)
  <1>1. n \in Nat /\ n + 1 \in 1 .. BITS
    BY FieldAssumption, SensorAssumption, FrameLemma
  <1>2. ASSUME NEW k \in 0 .. n
        PROVE  msg[k] = IF b[k + 1] = "one" THEN "1" ELSE "0"
    <2>1. /\ k \in 0 .. (FRAME \div 2) - 1 /\ k + 1 \in 1 .. BITS
          /\ 2 * (k + 1) - 2 = 2 * k /\ 2 * (k + 1) - 1 = 2 * k + 1
      BY <1>1, FrameLemma
    <2>2. f[2 * k] = "sep" /\ f[2 * k + 1] = b[k + 1] /\ b[k + 1] \in Bits
      BY <2>1
    <2>3. Box!Tells(f, k) /\ Box!CharOf(f, k) = IF b[k + 1] = "one" THEN "1" ELSE "0"
      BY <2>2 DEF Box!Tells, Box!CharOf, Bits
    <2> QED
      BY <2>1, <2>3, MessageLemma
  <1>3. Box!FieldOf(f, g)[j] = Box!Shown(msg, n)
    BY DEF Box!FieldOf
  <1> HIDE DEF msg
  <1>4. ~\E e \in 0 .. n : msg[e] = "NUL"
    BY <1>2
  <1>5. Box!Shown(msg, n) = msg[n]
    BY <1>4, Zenon DEF Box!Shown
  <1>6. n \in 0 .. n
    BY <1>1
  <1> QED
    BY <1>2, <1>3, <1>5, <1>6

LEMMA ReadStep == ASSUME LinkInv, [LinkNext]_lvars PROVE ReadsWhatWasSent'
  <1>1. [AnyNext]_vars
    BY LinkIsAnyNext
  <1>2. CASE ReadField
    <2>1. /\ pc = "decode" /\ received
      BY <1>2 DEF ReadField, LinkInv, IInv, Handoff, Holding
    <2>2. heard' = heard
      BY <1>2, <2>1 DEF LinkNext, Work, Rejoin, Attach, Ignore, Send, SendSep, SendBit,
                        SendSync, Disturb, line, lvars, LinkInv, IInv, Handoff
    <2>3. PICK g \in Chars : temp_out' = Box!FieldOf(Frame, g)
      BY <1>2, FieldLemma DEF LinkInv
    <2>4. ASSUME heard # <<>>, NEW j \in 0 .. WIDTH - 1
          PROVE  temp_out'[j] = IF heard[FIRST + j + 1] = "one" THEN "1" ELSE "0"
      <3>1. heard \in Seq(Bits) /\ Len(heard) = BITS
        BY <2>4 DEF LinkInv, LineInv, LineTypes
      <3>2. Matches(timings, syncIndex1, heard)
        BY <2>1 DEF LinkInv, LineInv, HeldAsHeard
      <3>3. ASSUME NEW m \in 1 .. BITS
            PROVE  Frame[2 * m - 2] = "sep" /\ Frame[2 * m - 1] = heard[m]
        <4>1. 2 * m - 2 \in 0 .. FRAME - 1 /\ 2 * m - 1 \in 0 .. FRAME - 1
          BY FrameLemma
        <4> QED
          BY <3>1, <3>2, <4>1 DEF Frame, Matches
      <3>4. Box!FieldOf(Frame, g)[j] = IF heard[FIRST + j + 1] = "one" THEN "1" ELSE "0"
        BY <3>1, <3>3, FieldOfBits
      <3> QED
        BY <2>3, <3>4
    <2> QED
      BY <2>2, <2>4 DEF ReadsWhatWasSent
  <1>3. CASE pc' \in {"delay", "release"} /\ ~ReadField
    <2>1. pc \in {"delay", "release"} /\ UNCHANGED <<temp_out, heard>>
      BY <1>3 DEF LinkInv, IInv, Handoff, LinkNext, Work, Rejoin, Poll, Detach, DecodeBit,
                  Delay, ReleaseFrame, ResetIndexes, Attach, Ignore, Send, SendSep, SendBit,
                  SendSync, Disturb, handler, Data, FirstSync, SecondSync, Store, locals,
                  line, lvars, vars
    <2> QED
      BY <2>1 DEF LinkInv, ReadsWhatWasSent
  <1> QED
    BY <1>2, <1>3 DEF ReadsWhatWasSent

LEMMA LinkInvariance == LinkSpec => []LinkInv
  <1>1. ASSUME LinkInv, [LinkNext]_lvars PROVE LinkInv'
    <2>1. IInv' /\ Decoded'
      BY <1>1, LinkIsAnyNext, StepInv, DecodedStep DEF LinkInv
    <2> QED
      BY <1>1, <2>1, LineStep, ReadStep DEF LinkInv
  <1> QED
    BY LinkInitInv, <1>1, PTL DEF LinkSpec

\* The third undisturbed sync in a row finds a frame captured, whatever the
\* noise left in the ring and its marks: at most one good frame is lost to a
\* wrong first sync.
THEOREM NoiseCostsOneFrame == LinkSpec => []TwoFramesSuffice
  <1>1. LinkInv => TwoFramesSuffice
    BY DEF LinkInv, LineInv, InStep, TwoFramesSuffice, IInv, TypeOK
  <1> QED
    BY <1>1, LinkInvariance, PTL

\* The field of a frame heard undisturbed between its two syncs is read out as
\* the sensor sent it.
THEOREM SentIsRead == LinkSpec => []ReadsWhatWasSent
  BY LinkInvariance, PTL DEF LinkInv
=============================================================================
