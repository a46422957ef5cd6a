------------------------------ MODULE IRCodes -------------------------------
(* The codes of IRremote.cpp: what the send functions of IRsend put on the  *)
(* line, how the receiver measures it, and what decode() makes of the       *)
(* recording, its ten decoders tried in order.  A value is the sequence of  *)
(* its bits; of decodeHash() only the fact is kept that it found something. *)
EXTENDS LineCode, Integers, SequencesExt

CONSTANTS
    RAWBUF,         \* entries of rawbuf
    Blocks,         \* bits repeated to make a value of any length
    Excesses,       \* us a detector makes marks longer and spaces shorter, and
    Phases,         \* us an entry is rounded by, repeated along the entries
    Silences,       \* ticks without a mark before a code
    Stales          \* old entries behind the ones recorded

\* Every code fits into rawbuf, and a detector is a tick off MARK_EXCESS at most.
ASSUME CodesAssumption ==
    /\ RAWBUF \in Nat /\ RAWBUF >= 100
    /\ Blocks \subseteq Seq({0, 1}) \ {<<>>}
    /\ Excesses \subseteq Seq(50 .. 150) \ {<<>>}
    /\ Phases \subseteq Seq(0 .. 49) \ {<<>>}
    /\ Silences \subseteq Nat /\ Stales \subseteq Nat

\* Element i of a pattern that is repeated.
Repeated(pattern, i) == pattern[((i - 1) % Len(pattern)) + 1]

\* Codes whose bits are told apart by the space behind a mark, times in us.
Distance ==
    [NEC       |-> [hdr |-> <<9000, 4500>>, bit |-> 560, one |-> 1600, zero |-> 560, bits |-> 32],
     PANASONIC |-> [hdr |-> <<3502, 1750>>, bit |-> 502, one |-> 1244, zero |-> 400, bits |-> 48],
     LG        |-> [hdr |-> <<8000, 4000>>, bit |-> 600, one |-> 1600, zero |-> 550, bits |-> 28],
     JVC       |-> [hdr |-> <<8000, 4000>>, bit |-> 600, one |-> 1600, zero |-> 550, bits |-> 16],
     SAMSUNG   |-> [hdr |-> <<5000, 5000>>, bit |-> 560, one |-> 1600, zero |-> 560, bits |-> 32]]

RC5_T1 == 889
RC6_T1 == 444

-----------------------------------------------------------------------------
(* Sending: sequences of marks and spaces.                                  *)

Mark(us) == [level |-> "MARK", us |-> us]
Space(us) == [level |-> "SPACE", us |-> us]

\* Two signals to a bit.
ForBits(data, Signal(_)) ==
    [n \in 1 .. 2 * Len(data) |-> Signal((n + 1) \div 2)[2 - (n % 2)]]

sendDistance(c, data, header) ==
    (IF header THEN <<Mark(c.hdr[1]), Space(c.hdr[2])>> ELSE <<>>)
    \o ForBits(data, LAMBDA i :
           <<Mark(c.bit), Space(IF data[i] = 1 THEN c.one ELSE c.zero)>>)
    \o <<Mark(c.bit)>>

sendSony(data) ==
    <<Mark(2400), Space(600)>>
    \o ForBits(data, LAMBDA i :
           <<Mark(IF data[i] = 1 THEN 1200 ELSE 600), Space(600)>>)

sendRC5(data) ==
    <<Mark(RC5_T1), Space(RC5_T1), Mark(RC5_T1)>>
    \o ForBits(data, LAMBDA i :
           IF data[i] = 1 THEN <<Space(RC5_T1), Mark(RC5_T1)>>
                          ELSE <<Mark(RC5_T1), Space(RC5_T1)>>)

sendRC6(data) ==
    LET t(i) == IF i = 4 THEN 2 * RC6_T1 ELSE RC6_T1    \* the trailer bit
    IN  <<Mark(2666), Space(889), Mark(RC6_T1), Space(RC6_T1)>>
        \o ForBits(data, LAMBDA i :
               IF data[i] = 1 THEN <<Mark(t(i)), Space(t(i))>>
                              ELSE <<Space(t(i)), Mark(t(i))>>)

send(type, data, repeat) ==
    CASE type = "SONY" -> sendSony(data)
      [] type = "RC5"  -> sendRC5(data)
      [] type = "RC6"  -> sendRC6(data)
      [] OTHER -> sendDistance(Distance[type], data, ~repeat)

\* On the line neighbours of one level are one period, and the space behind
\* the last mark is part of the gap.
Join(line, p) ==
    IF line # <<>> /\ Last(line).level = p.level
    THEN [line EXCEPT ![Len(line)].us = @ + p.us] ELSE Append(line, p)

Periods(signal) ==
    LET joined[n \in 0 .. Len(signal)] ==
            IF n = 0 THEN <<>> ELSE Join(joined[n - 1], signal[n])
        line == joined[Len(signal)]
    IN  IF Last(line).level = "SPACE" THEN Front(line) ELSE line

\* The recording: ticks of 50 us, the gap first, old entries behind it.  Each
\* edge meets the samples of the pin at a phase of its own.
Measured(line, excess, phase, gap, stale) ==
    [rawlen |-> Len(line) + 1,
     rawbuf |-> [i \in 0 .. RAWBUF - 1 |->
         IF i = 0 THEN gap
         ELSE IF i > Len(line) THEN stale
         ELSE LET longer == Repeated(excess, i)
              IN  (line[i].us + Repeated(phase, i)
                   + (IF i % 2 = 1 THEN longer ELSE -longer)) \div 50]]

\* irparams.timer has 16 bits and goes on counting through a silence: what is
\* left of it when a mark ends the silence is the gap, if it is long enough.
GAP_TICKS == 100
TIMER_RANGE == 65536
Gap(silence) == silence % TIMER_RANGE

-----------------------------------------------------------------------------
(* Decoding: each decoder returns Nothing or a result.                      *)

MARK_EXCESS == 100
\* TICKS_LOW and TICKS_HIGH: 25 percent either way, and one tick.
MATCH(ticks, us) == (3 * us) \div 200 <= ticks /\ ticks <= us \div 40 + 1
MATCH_MARK(ticks, us) == MATCH(ticks, us + MARK_EXCESS)
MATCH_SPACE(ticks, us) == MATCH(ticks, us - MARK_EXCESS)

Decoded(type, count, data) == [type |-> type, bits |-> count, data |-> data]
Repeat(type) == Decoded(type, 0, <<>>)

\* NEC, Panasonic, LG, JVC and SAMSUNG; two of them look at the stop bit.
decodeDistance(h, type, shortest, stops) ==
    LET c == Distance[type]
        one(i) == MATCH_SPACE(h.rawbuf[2 * i + 2], c.one)
    IN  IF /\ MATCH_MARK(h.rawbuf[1], c.hdr[1])
           /\ h.rawlen >= shortest
           /\ IF type = "PANASONIC" THEN MATCH_MARK(h.rawbuf[2], c.hdr[2])
                                    ELSE MATCH_SPACE(h.rawbuf[2], c.hdr[2])
           /\ \A i \in 1 .. c.bits :
                 /\ MATCH_MARK(h.rawbuf[2 * i + 1], c.bit)
                 /\ one(i) \/ MATCH_SPACE(h.rawbuf[2 * i + 2], c.zero)
           /\ stops = 1 => MATCH_MARK(h.rawbuf[2 * c.bits + 3], c.bit)
        THEN Decoded(type, c.bits, [i \in 1 .. c.bits |-> IF one(i) THEN 1 ELSE 0])
        ELSE Nothing

\* NEC and SAMSUNG have a repeat of four entries, JVC one without a header.
decodeRepeat(h, type) ==
    LET c == Distance[type]
    IN  IF IF type = "JVC"
           THEN h.rawlen = 34 /\ \A i \in {1, 33} : MATCH_MARK(h.rawbuf[i], c.bit)
           ELSE /\ h.rawlen = 4
                /\ MATCH_MARK(h.rawbuf[1], c.hdr[1])
                /\ MATCH_SPACE(h.rawbuf[2], 2250) /\ MATCH_MARK(h.rawbuf[3], c.bit)
        THEN Repeat(type) ELSE Nothing

OrElse(first, second) == IF first # Nothing THEN first ELSE second

\* How many pairs of entries from `from' on pass the test, up to the first
\* that fails or is not whole.
Leading(h, from, Pair(_)) ==
    CHOOSE n \in 0 .. RAWBUF :
        /\ \A k \in 0 .. n - 1 : from + 2 * k + 1 < h.rawlen /\ Pair(from + 2 * k)
        /\ ~(from + 2 * n + 1 < h.rawlen /\ Pair(from + 2 * n))

\* Sony and Sanyo: the length of the mark behind a space tells the bit.
decodeWidth(h, type, double, headerOK, from, space, one, zero) ==
    LET n == Leading(h, from, LAMBDA i : MATCH_SPACE(h.rawbuf[i], space))
        mark(k) == h.rawbuf[from + 2 * k - 1]
        bits == (from + 2 * n - 1) \div 2
    IN  IF h.rawlen < 26 THEN Nothing
        ELSE IF h.rawbuf[0] < double THEN Repeat("SANYO")
        ELSE IF /\ headerOK /\ bits >= 12
                /\ \A k \in 1 .. n : MATCH_MARK(mark(k), one) \/ MATCH_MARK(mark(k), zero)
        THEN Decoded(type, bits,
                     [k \in 1 .. n |-> IF MATCH_MARK(mark(k), one) THEN 1 ELSE 0])
        ELSE Nothing

decodeSony(h) ==
    decodeWidth(h, "SONY", 500, MATCH_MARK(h.rawbuf[1], 2400), 2, 600, 1200, 600)
decodeSanyo(h) ==
    decodeWidth(h, "SANYO", 800, \A i \in 1 .. 2 : MATCH_MARK(h.rawbuf[i], 3500),
                3, 950, 2400, 700)

decodeMitsubishi(h) ==
    LET whole == Leading(h, 2, LAMBDA i : MATCH_SPACE(h.rawbuf[i + 1], 350))
        bits == IF 2 * whole + 3 < h.rawlen THEN whole + 1 ELSE whole
        one(k) == MATCH_MARK(h.rawbuf[2 * k], 1950)
    IN  IF /\ h.rawlen >= 34 /\ MATCH_MARK(h.rawbuf[1], 350) /\ bits >= 16
           /\ \A k \in 1 .. bits : one(k) \/ MATCH_MARK(h.rawbuf[2 * k], 750)
        THEN Decoded("MITSUBISHI", bits, [k \in 1 .. bits |-> IF one(k) THEN 1 ELSE 0])
        ELSE Nothing

\* getRClevel() called to the end: each entry is one to three levels of t1.
entryLevels(h, i, t1) ==
    LET mark == i % 2 = 1
        excess == IF mark THEN MARK_EXCESS ELSE -MARK_EXCESS
        width == SelectInSeq(<<1, 2, 3>>, LAMBDA n : MATCH(h.rawbuf[i], n * t1 + excess))
    IN  IF width = 0 THEN <<"error">>
        ELSE [n \in 1 .. width |-> IF mark THEN "MARK" ELSE "SPACE"]

levels(h, from, t1) ==
    FlattenSeq([k \in 1 .. h.rawlen - from |-> entryLevels(h, from + k - 1, t1)])

\* Mutant of Pairs: a last space that was not recorded is lost with its bit.
PairsRecorded(l) == [k \in 1 .. Len(l) \div 2 |-> <<l[2 * k - 1], l[2 * k]>>]
\* Two levels to a bit; behind the end of the recording there is space.
Pairs(l) == [k \in 1 .. (Len(l) + 1) \div 2 |->
                <<l[2 * k - 1], IF 2 * k <= Len(l) THEN l[2 * k] ELSE "SPACE">>]
RCBits(l, type, one, zero) ==
    IF \A k \in DOMAIN Pairs(l) : Pairs(l)[k] \in {one, zero}
    THEN Decoded(type, Len(Pairs(l)),
                 [k \in DOMAIN Pairs(l) |-> IF Pairs(l)[k] = one THEN 1 ELSE 0])
    ELSE Nothing

decodeRC5(h) ==
    LET l == levels(h, 1, RC5_T1)
    IN  IF h.rawlen >= 13 /\ Len(l) >= 3 /\ SubSeq(l, 1, 3) = <<"MARK", "SPACE", "MARK">>
        THEN RCBits(SubSeq(l, 4, Len(l)), "RC5", <<"SPACE", "MARK">>, <<"MARK", "SPACE">>)
        ELSE Nothing

decodeRC6(h) ==
    LET l == levels(h, 3, RC6_T1)
        bits == SubSeq(l, 3, Len(l)) \o <<"SPACE", "SPACE", "SPACE">>
        trailer == SubSeq(bits, 7, 10)      \* the fourth bit, two levels each half
        wide == Len(l) > 8
        rest == IF wide THEN SubSeq(bits, 1, 6) \o <<trailer[1], trailer[3]>>
                             \o SubSeq(bits, 11, Len(l) - 2)
                ELSE SubSeq(l, 3, Len(l))
    IN  IF /\ MATCH_MARK(h.rawbuf[1], 2666) /\ MATCH_SPACE(h.rawbuf[2], 889)
           /\ Len(l) >= 1 /\ SubSeq(l \o <<"SPACE">>, 1, 2) = <<"MARK", "SPACE">>
           /\ wide => trailer[1] = trailer[2] /\ trailer[3] = trailer[4]
        THEN RCBits(rest, "RC6", <<"MARK", "SPACE">>, <<"SPACE", "MARK">>)
        ELSE Nothing

decodeHash(h) == IF h.rawlen < 6 THEN Nothing ELSE Decoded("UNKNOWN", 32, <<>>)

decode(h) ==
    OrElse(decodeRepeat(h, "NEC"),      OrElse(decodeDistance(h, "NEC", 68, 0),
    OrElse(decodeSony(h),               OrElse(decodeSanyo(h),
    OrElse(decodeMitsubishi(h),
    OrElse(decodeRC5(h),                OrElse(decodeRC6(h),
    OrElse(decodeDistance(h, "PANASONIC", 0, 0),
    OrElse(decodeDistance(h, "LG", 57, 1),
    OrElse(decodeRepeat(h, "JVC"),      OrElse(decodeDistance(h, "JVC", 33, 1),
    OrElse(decodeRepeat(h, "SAMSUNG"),  OrElse(decodeDistance(h, "SAMSUNG", 68, 0),
           decodeHash(h))))))))))))))

-----------------------------------------------------------------------------
\* A code of each kind, after any silence.
Lengths == [t \in DOMAIN Distance \cup {"SONY", "RC5", "RC6"} |->
               CASE t \in {"SONY", "RC5"} -> 12
                 [] t = "RC6" -> 20
                 [] OTHER -> Distance[t].bits]

IRInit ==
    /\ \E type \in DOMAIN Lengths, block \in Blocks :
       \E repeat \in IF type = "JVC" THEN BOOLEAN ELSE {FALSE} :
          sent = [type |-> type, repeat |-> repeat,
                  data |-> [i \in 1 .. Lengths[type] |-> Repeated(block, i)]]
    /\ heard = Nothing /\ result = Nothing

IRReceive ==
    /\ heard = Nothing /\ sent.type \in DOMAIN Lengths
    /\ \E e \in Excesses, p \in Phases, t \in Silences, s \in Stales :
          /\ Gap(t) >= GAP_TICKS
          /\ heard' = Measured(Periods(send(sent.type, sent.data, sent.repeat)), e, p, Gap(t), s)
    /\ UNCHANGED <<sent, result>>

IRDecode ==
    /\ heard # Nothing /\ result = Nothing /\ sent.type \in DOMAIN Lengths
    /\ result' = decode(heard)
    /\ UNCHANGED <<sent, heard>>

IRNext == IRReceive \/ IRDecode
IRSpec == IRInit /\ [][IRNext]_lineVars

\* A gap that decodeSony() and decodeSanyo(), which every code but NEC comes
\* to, take for the one of a double click, behind a code that is long enough.
Doubled(type, h) ==
    /\ h.rawlen >= 26 /\ type # "NEC"
    /\ h.rawbuf[0] < (IF type = "SONY" THEN 500 ELSE 800)

\* Every code sent is decoded as the kind and the value it is: no decoder that
\* is tried before its own claims it, within the margins of measurement, and
\* whatever the buffer holds behind it.  The exception is a code behind a
\* short gap, which is a repeat of SANYO: a silence of 40 ms to 3.27 s is never
\* one, a longer one, which the 16-bit timer wraps in, may be.
SentIsDecoded ==
    sent.type \in DOMAIN Lengths /\ result # Nothing
    => result = IF Doubled(sent.type, heard) THEN Repeat("SANYO")
                ELSE IF sent.repeat THEN Repeat("JVC")
                ELSE Decoded(sent.type, Lengths[sent.type], sent.data)
=============================================================================
