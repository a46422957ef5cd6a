---------------------------- MODULE PollReceiver ----------------------------
(* The receiver of sketch_feb03a.ino, which records first and looks for a   *)
(* frame afterwards: a buffer of pulses, cut anywhere from the sensor's     *)
(* repeated frame, is searched for a sync followed by a frame with the      *)
(* sensor's identity and the right parity.  A pulse is a member of          *)
(* {"0", "1", "SYNC"} for its window of lengths, "?" for a recorded length  *)
(* outside of them, "out" for one that is not recorded.                     *)
EXTENDS LineCode, Naturals, FiniteSets, SequencesExt

CONSTANTS
    buffer_size,    \* pulses recorded
    sensor_id,      \* the bits a frame begins with
    Payloads        \* the bits behind them, without the parity bit

\* Of four frames' pulses a disturbed one leaves a whole frame with both syncs.
ASSUME PollAssumption ==
    /\ sensor_id \in Seq({"0", "1"}) /\ sensor_id # <<>>
    /\ Payloads \subseteq Seq({"0", "1"})
    /\ buffer_size \in Nat
    /\ \A payload \in Payloads :
          buffer_size >= 4 * (Len(sensor_id) + Len(payload) + 2)

Odd(bits) == Cardinality({i \in DOMAIN bits : bits[i] = "1"}) % 2 = 1

\* The sensor: sync, identity, payload and parity, again and again.
Frame(payload) ==
    LET bits == sensor_id \o payload
    IN  <<"SYNC">> \o bits \o <<IF Odd(bits) THEN "1" ELSE "0">>

-----------------------------------------------------------------------------
\* captured_data[]: the characters behind a sync at i.  A sync among them keeps
\* the character before it, at first the one left from an earlier search.
captured(timings, i, n, bitreceived) ==
    [k \in 1 .. n |->
        IF timings[i + k] # "SYNC" THEN timings[i + k]
        ELSE LET last == SelectLastInSubSeq(timings, i + 1, i + k, LAMBDA p : p # "SYNC")
             IN  IF last = 0 THEN bitreceived ELSE timings[last]]

\* Mutant of crc: only half of the bits are looked at.
crcHalf(data, n) == Odd(SubSeq(data, 1, n \div 2)) <=> data[n] = "1"
\* The last bit makes the number of ones even.
crc(data, n) == Odd(SubSeq(data, 1, n - 1)) <=> data[n] = "1"

accepted(data, n) ==
    /\ ~Contains(data, "?")
    /\ SubSeq(data, 1, Len(sensor_id)) = sensor_id
    /\ crc(data, n)

\* What is read behind the first sync that has room for a frame and the next
\* sync, and that is followed by an accepted frame.
search(timings, n, bitreceived) ==
    LET syncs == {i \in 1 .. buffer_size - n - 1 : timings[i] = "SYNC"}
        left[i \in 0 .. buffer_size] ==        \* bitreceived behind position i
            IF i = 0 THEN bitreceived
            ELSE IF i \in syncs THEN captured(timings, i, n + 1, left[i - 1])[n + 1]
            ELSE left[i - 1]
        data(i) == captured(timings, i, n + 1, left[i - 1])
        found == {i \in syncs : accepted(data(i), n)}
    IN  IF found = {} THEN <<>> ELSE SubSeq(data(Min(found)), 1, n)

-----------------------------------------------------------------------------
\* At most one pulse of the recording is disturbed.
PollInit ==
    /\ \E payload \in Payloads : \E start \in 1 .. Len(Frame(payload)) :
       \E at \in 0 .. buffer_size, pulse \in {"0", "1", "SYNC", "?", "out"} :
          sent = [type |-> "radio", payload |-> payload, start |-> start,
                  at |-> at, pulse |-> pulse]
    /\ heard = Nothing /\ result = Nothing

Capture ==
    /\ heard = Nothing /\ sent.type = "radio"
    /\ LET frame == Frame(sent.payload)
           line == [i \in 1 .. buffer_size + 1 |->
                       IF i = sent.at THEN sent.pulse
                       ELSE frame[((sent.start + i - 2) % Len(frame)) + 1]]
           lost == sent.pulse = "out" /\ sent.at # 0
       IN  heard' = SubSeq(IF lost THEN RemoveAt(line, sent.at) ELSE line, 1, buffer_size)
    /\ UNCHANGED <<sent, result>>

\* bitreceived is what the last search left, nothing at first.
Search ==
    /\ heard # Nothing /\ result = Nothing /\ sent.type = "radio"
    /\ LET n == Len(sensor_id) + Len(sent.payload) + 1
       IN  \E bitreceived \in {"none", "0", "1", "?"} :
              result' = [type |-> "radio", data |-> search(heard, n, bitreceived)]
    /\ UNCHANGED <<sent, heard>>

PollNext == Capture \/ Search
PollSpec == PollInit /\ [][PollNext]_lineVars

-----------------------------------------------------------------------------
\* Behind no other pulse of the repeated frame, were it taken for a sync, the
\* identity can be read.
IdentityOnce(payload) ==
    \A j \in 2 .. Len(Frame(payload)), b \in {"0", "1"} :
       captured(Frame(payload) \o Frame(payload), j, Len(sensor_id), b) # sensor_id

\* Wherever the recording starts and whichever pulse is disturbed, the frame
\* that was sent is found.  A pulse that is lost (length "out") is excepted: the
\* bits behind it move up, the closing sync repeats the last one, and the
\* parity is right again whenever the lost bit is equal to it.  So is a payload
\* that holds the identity again: a pulse disturbed into a sync before that is
\* taken for the start of a frame, whose parity may be right.
FrameIsFound ==
    sent.type = "radio" /\ result # Nothing /\ sent.pulse # "out"
    => \/ result.data = Tail(Frame(sent.payload))
       \/ ~IdentityOnce(sent.payload)
=============================================================================
