----------------------------- MODULE RFReceiver -----------------------------
(* The interrupt-driven 433 MHz receiver of the temperature sketches        *)
(* (RF_RECEIVER_V2_WITH_INTERRUPTS.ino, and the same code with other ring   *)
(* sizes in RF_RECEIVER, RF_RECEIVER2 and XIVELY_RF_DS1820).  handler() is  *)
(* the pin-change interrupt: it stores the length of every pulse in a ring  *)
(* and looks for two sync signals one frame apart.  loop() polls `received',*)
(* detaches the interrupt, decodes the ring and attaches it again.  handler *)
(* runs to completion (interrupts are masked inside it) but may come        *)
(* between any two statements of loop().                                    *)
(*                                                                          *)
(* A pulse length is reduced to the class the code tells apart; "other" is  *)
(* every length outside the four windows.                                   *)
EXTENDS Naturals, Sequences

CONSTANTS
    RING_BUFFER_SIZE,   \* slots of timings[]: 256, 300 or 100 in the sketches
    FRAME,              \* the 66 of "changeCount != 66"
    STR_SIZE,           \* the 32 of "char Str[32]"
    FIRST, WIDTH,       \* the field read out: substring(16, 24)
    Lengths             \* the pulse lengths that occur on the pin

ASSUME RingAssumption ==
    /\ RING_BUFFER_SIZE \in Nat /\ FRAME \in Nat
    /\ FRAME >= 2 /\ FRAME < RING_BUFFER_SIZE
    /\ RING_BUFFER_SIZE % 2 = 0 /\ FRAME % 2 = 0

ASSUME FieldAssumption ==
    /\ STR_SIZE \in Nat /\ FIRST \in Nat /\ WIDTH \in Nat
    /\ FIRST + WIDTH <= STR_SIZE /\ 2 * (FIRST + WIDTH) <= FRAME

Pulses == {"sep", "sync", "one", "zero", "other"}

ASSUME LengthsAssumption == Lengths \subseteq Pulses

Chars  == {"0", "1", "?", "NUL"}    \* NUL: the 0 byte, "?": any other character
Slots  == 0 .. RING_BUFFER_SIZE - 1

VARIABLES
    timings, syncIndex1, syncIndex2, received,    \* shared with the interrupt
    ringIndex, syncCount,                         \* statics of handler()
    late,         \* lastTime is older than the last edge of the pin
    attached,     \* the interrupt is enabled
    pc,           \* the statement of loop() to run next
    i, bitreceived, Str, temp_out,                \* locals of loop()
    since         \* history: pulses stored since the first sync, saturating

ring   == <<timings, syncIndex1, syncIndex2, ringIndex, syncCount, since>>
locals == <<i, bitreceived, Str, temp_out>>
vars   == <<timings, syncIndex1, syncIndex2, received, ringIndex, syncCount,
            late, attached, pc, i, bitreceived, Str, temp_out, since>>

SinceCap == RING_BUFFER_SIZE + FRAME      \* where the history counter stops
NoField  == [j \in 0 .. WIDTH - 1 |-> "NUL"]
Wrap(n)    == n % RING_BUFFER_SIZE
\* Mutant of Next1: the modulo is forgotten.
Next1NoWrap(idx) == idx + 1
Next1(idx) == Wrap(idx + 1)

Init ==
    /\ timings = [s \in Slots |-> "other"]
    /\ syncIndex1 = 0 /\ syncIndex2 = 0 /\ received = FALSE
    /\ ringIndex = 0 /\ syncCount = 0 /\ late = FALSE
    /\ attached = TRUE                    \* the last statement of setup()
    /\ pc = "poll"
    /\ i = 0 /\ bitreceived = "?" /\ Str = <<>> /\ temp_out = NoField
    /\ since = 0

-----------------------------------------------------------------------------
(* handler(), called for an edge that ends a pulse of class d while the pin *)
(* reads HIGH or not by the time isSync() samples it.                       *)

\* An interrupt that finds `received' set returns before it takes the time.
Ignore ==
    /\ attached /\ received
    /\ late' = TRUE
    /\ UNCHANGED <<received, attached, pc, ring, locals>>

\* After a missed edge the difference spans a whole pass of loop() with its
\* delay: longer than any pulse of the protocol.
duration(d) == IF late THEN "other" ELSE d

\* Mutant of isSync: the pin is expected LOW.
isSyncLow(d, high) == timings[ringIndex] = "sep" /\ duration(d) = "sync" /\ ~high
isSync(d, high) == timings[ringIndex] = "sep" /\ duration(d) = "sync" /\ high

\* Mutant of changeCount: the wrapped case forgets the ring size.
changeCountNoWrap(s1, s2) == IF s2 < s1 THEN s1 - s2 ELSE s2 - s1
changeCount(s1, s2) ==
    IF s2 < s1 THEN s2 + RING_BUFFER_SIZE - s1 ELSE s2 - s1

\* Mutant of Store: a held frame does not stop it.
StoreUnguarded(d) ==
    /\ attached
    /\ ringIndex' = Next1(ringIndex)
    /\ timings' = [timings EXCEPT ![Next1(ringIndex)] = duration(d)]
    /\ late' = FALSE
    /\ UNCHANGED <<attached, pc, locals>>
Store(d) ==
    /\ attached /\ ~received
    /\ ringIndex' = Next1(ringIndex)
    /\ timings' = [timings EXCEPT ![Next1(ringIndex)] = duration(d)]
    /\ late' = FALSE
    /\ UNCHANGED <<attached, pc, locals>>

Data(d, high) ==
    /\ Store(d)
    /\ ~isSync(d, high)
    /\ since' = IF since < SinceCap THEN since + 1 ELSE since
    /\ UNCHANGED <<syncIndex1, syncIndex2, syncCount, received>>

\* Mutant of FirstSync: the mark is the sync pulse, not the slot after it.
FirstSyncEarly(d, high) ==
    /\ Store(d) /\ isSync(d, high) /\ syncCount = 0
    /\ syncCount' = 1
    /\ syncIndex1' = ringIndex'
    /\ since' = 0
    /\ UNCHANGED <<syncIndex2, received>>
FirstSync(d, high) ==
    /\ Store(d)
    /\ isSync(d, high)
    /\ syncCount = 0
    /\ syncCount' = 1
    /\ syncIndex1' = Next1(ringIndex')
    /\ since' = 0
    /\ UNCHANGED <<syncIndex2, received>>

\* Mutant of SecondSync: syncCount is not reset, a third sync is compared too.
SecondSyncSticky(d, high) ==
    /\ Store(d) /\ isSync(d, high) /\ syncCount = 1
    /\ since' = IF since < SinceCap THEN since + 1 ELSE since
    /\ syncIndex2' = Next1(ringIndex')
    /\ received' = (changeCount(syncIndex1, syncIndex2') = FRAME)
    /\ UNCHANGED <<syncCount, syncIndex1>>
SecondSync(d, high) ==
    /\ Store(d)
    /\ isSync(d, high)
    /\ syncCount = 1
    /\ syncCount' = 0
    /\ since' = IF since < SinceCap THEN since + 1 ELSE since
    /\ LET s2 == Next1(ringIndex')
       IN  IF changeCount(syncIndex1, s2) = FRAME
           THEN /\ received' = TRUE
                /\ syncIndex2' = s2
                /\ UNCHANGED syncIndex1
           ELSE /\ received' = FALSE
                /\ syncIndex1' = 0
                /\ syncIndex2' = 0

handler(d, high) ==
    Ignore \/ Data(d, high) \/ FirstSync(d, high) \/ SecondSync(d, high)

-----------------------------------------------------------------------------
(* loop(), one action per statement that shares state with the interrupt.   *)

Poll ==
    /\ pc = "poll"
    /\ received
    /\ pc' = "detach"
    /\ UNCHANGED <<received, late, attached, ring, locals>>

\* bitreceived is not initialised: it holds whatever the stack held.
Detach ==
    /\ pc = "detach"
    /\ attached' = FALSE
    /\ i' = syncIndex1
    /\ bitreceived' \in Chars
    /\ Str' = <<>>
    /\ pc' = "decode"
    /\ UNCHANGED <<received, late, temp_out, ring>>

\* Mutant of Classify: the separator is not looked at.
ClassifyAny(s, old) == LET t1 == timings[Next1(s)]
                       IN  IF t1 = "one" THEN "1"
                           ELSE IF t1 = "zero" THEN "0" ELSE old
\* The character for the pair at slot s; the "SYNC" branch assigns nothing.
Classify(s, old) ==
    LET t0 == timings[s]
        t1 == timings[Next1(s)]
    IN  IF t0 # "sep" THEN "?"
        ELSE IF t1 = "one" THEN "1"
        ELSE IF t1 = "zero" THEN "0"
        ELSE old

\* Mutant of DecodeBit: i advances by one pulse, not by a pair.
DecodePulse ==
    /\ pc = "decode" /\ i # syncIndex2
    /\ bitreceived' = Classify(i, bitreceived)
    /\ Str' = Append(Str, bitreceived')
    /\ i' = Next1(i)
    /\ UNCHANGED <<received, late, attached, pc, temp_out, ring>>
DecodeBit ==
    /\ pc = "decode"
    /\ i # syncIndex2
    /\ bitreceived' = Classify(i, bitreceived)
    /\ Str' = Append(Str, bitreceived')
    /\ i' = Wrap(i + 2)
    /\ UNCHANGED <<received, late, attached, pc, temp_out, ring>>

\* Mutant of charAt: positions counted from one.
charAtNext(s, n) == s[n + 2]
\* String(Str) ends at the first NUL, charAt() behind the end returns 0.
charAt(s, n) == IF \E e \in 1 .. n + 1 : s[e] = "NUL" THEN "NUL" ELSE s[n + 1]

ReadField ==
    /\ pc = "decode"
    /\ i = syncIndex2
    /\ temp_out' = [j \in 0 .. WIDTH - 1 |-> charAt(Str, FIRST + j)]
    /\ pc' = "delay"
    /\ UNCHANGED <<received, late, attached, i, bitreceived, Str, ring>>

Delay ==
    /\ pc = "delay"
    /\ late' = TRUE
    /\ pc' = "release"
    /\ UNCHANGED <<received, attached, ring, locals>>

ReleaseFrame ==
    /\ pc = "release"
    /\ received' = FALSE
    /\ pc' = "reset"
    /\ UNCHANGED <<late, attached, ring, locals>>

\* Mutant of ResetIndexes: syncIndex1 keeps the old mark.
ResetSecondOnly ==
    /\ pc = "reset"
    /\ syncIndex2' = 0
    /\ pc' = "attach"
    /\ UNCHANGED <<syncIndex1, timings, received, ringIndex, syncCount, since,
                   late, attached, locals>>
ResetIndexes ==
    /\ pc = "reset"
    /\ syncIndex1' = 0 /\ syncIndex2' = 0
    /\ pc' = "attach"
    /\ UNCHANGED <<timings, received, ringIndex, syncCount, since,
                   late, attached, locals>>

\* Mutant of Attach: the interrupt stays detached.
AttachForgotten ==
    /\ pc = "attach"
    /\ i' = 0 /\ bitreceived' = "?" /\ Str' = <<>> /\ temp_out' = NoField
    /\ pc' = "poll"
    /\ UNCHANGED <<received, late, attached, ring>>
\* attachInterrupt(), and loop() returns: its locals are gone.
Attach ==
    /\ pc = "attach"
    /\ attached' = TRUE
    /\ i' = 0 /\ bitreceived' = "?" /\ Str' = <<>> /\ temp_out' = NoField
    /\ pc' = "poll"
    /\ UNCHANGED <<received, late, ring>>

loop == Poll \/ Detach \/ DecodeBit \/ ReadField \/ Delay
        \/ ReleaseFrame \/ ResetIndexes \/ Attach

Next == loop \/ \E d \in Lengths, high \in BOOLEAN : handler(d, high)

\* The core calls loop() for ever, and a statement of it is only delayed,
\* never disabled, by the interrupt.
Spec == Init /\ [][Next]_vars /\ WF_vars(loop)

-----------------------------------------------------------------------------
TypeOK ==
    /\ timings \in [Slots -> Pulses]
    /\ {syncIndex1, syncIndex2, ringIndex, i} \subseteq Slots
    /\ received \in BOOLEAN /\ late \in BOOLEAN /\ attached \in BOOLEAN
    /\ syncCount \in {0, 1}
    /\ pc \in {"poll", "detach", "decode", "delay", "release", "reset", "attach"}
    /\ bitreceived \in Chars /\ Str \in Seq(Chars)
    /\ temp_out \in [0 .. WIDTH - 1 -> Chars]
    /\ since \in 0 .. SinceCap

\* loop() is past its test of `received' and has not given the ring back.
Holding == pc \in {"detach", "decode", "delay", "release"}

\* Whenever loop() works on a frame, `received' is still set, so an edge that
\* slips in before detachInterrupt() is ignored; the interrupt is off from
\* then on until the ring is given back with a clean sync state.
Handoff ==
    /\ Holding => received
    /\ pc \in {"reset", "attach"} => ~received
    /\ attached <=> pc \in {"poll", "detach"}
    /\ received => syncCount = 0
    /\ ~received /\ syncCount = 0 => syncIndex1 = 0 \/ pc = "reset"

\* A captured frame spans FRAME slots and is closed by a sync pair, up to the
\* moment it is given back: the ring is not overwritten before.
FrameIntact ==
    received =>
        /\ syncIndex2 = Wrap(syncIndex1 + FRAME)
        /\ Next1(ringIndex) = syncIndex2
        /\ timings[ringIndex] = "sync"
        /\ timings[Wrap(ringIndex + RING_BUFFER_SIZE - 1)] = "sep"

\* "to avoid new data corrupting the buffer": no step changes the ring or its
\* two indexes while a captured frame waits for, or is under, decoding.
FrozenWhileHeld ==
    [][received /\ received' => UNCHANGED <<timings, syncIndex1, syncIndex2>>]_vars

\* After one sync the mark stays where the pulses stored since then began,
\* whatever loop() did in between: no statement of loop() clears it late.
MarkKept ==
    syncCount = 1 /\ since < RING_BUFFER_SIZE =>
        syncIndex1 = Wrap(Next1(ringIndex) + RING_BUFFER_SIZE - since)

\* The decoding loop steps by two slots and stops on an inequality: it must
\* meet syncIndex2 exactly, after one character per pair.
DecodeInStep ==
    pc = "decode" =>
        /\ 2 * Len(Str) <= FRAME
        /\ i = Wrap(syncIndex1 + 2 * Len(Str))

\* The receiver always comes back to listening with the interrupt attached.
ListensAgain == []<>(pc = "poll" /\ attached /\ ~received)

\* The receiver implements the one-frame box: the box is full while `received'
\* is set and its field has been told once ReadField is done.
Box == INSTANCE FrameBox WITH
    box  <- IF received
            THEN [j \in 0 .. FRAME - 1 |->
                    timings[Wrap(syncIndex1 + j)]]
            ELSE <<>>,
    told <- pc \in {"delay", "release"},
    out  <- IF pc \in {"delay", "release"} THEN temp_out ELSE NoField
ImplementsBox == Box!BoxSpec

=============================================================================
