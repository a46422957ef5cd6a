------------------------------- MODULE RFLink -------------------------------
(* The receiver of RFReceiver listening to the temperature sensor.  The     *)
(* sensor repeats one kind of frame for ever: BITS bits and a sync signal,  *)
(* each bit and the sync a separator pulse followed by a data pulse.  The   *)
(* pin reads HIGH after a data pulse, LOW after a separator.  Noise may     *)
(* replace, insert or merge pulses, at most MaxNoise times.  The sensor is  *)
(* not part of the repository: it is what handler() expects (lines 37-39,   *)
(* 80) and what sketch_feb03a describes.                                    *)
EXTENDS RFReceiver, FiniteSetsExt

CONSTANT MaxNoise        \* bound: disturbed pulses in a behaviour

ASSUME NoiseAssumption == MaxNoise \in Nat

BITS == FRAME \div 2 - 1

\* The field read out is one of bits: substring(16, 24) of 32.
ASSUME SensorAssumption == FIRST + WIDTH <= BITS

VARIABLES
    phase,      \* the kind of pulse the sensor is sending: "sep" or "data"
    sent,       \* the bits of the frame sent so far
    noise,      \* disturbances so far
    seen,       \* history: undisturbed syncs seen in a row, at most 3
    heard       \* history: the bits of the undisturbed frame in the ring

line  == <<phase, sent, noise, seen, heard>>
lvars == <<vars, line>>

LinkInit ==
    /\ Init
    /\ phase \in {"sep", "data"} /\ sent = <<>>
    /\ noise = 0 /\ seen = 0 /\ heard = <<>>

\* What a data pulse does to the history variables: nothing, unless it is the
\* sync that closes a frame the receiver heard from its start.
Hear(sync) ==
    IF sync
    THEN /\ seen' = IF timings[ringIndex] = "sep" THEN Min({seen + 1, 3}) ELSE 0
         /\ heard' = IF received' /\ ~received /\ seen >= 1 /\ seen' > seen
                     THEN sent ELSE heard
    ELSE UNCHANGED <<seen, heard>>

SendSep ==
    /\ ~received /\ phase = "sep"
    /\ handler("sep", FALSE)
    /\ phase' = "data"
    /\ UNCHANGED <<sent, noise, seen, heard>>

SendBit(b) ==
    /\ ~received /\ phase = "data"
    /\ Len(sent) < BITS
    /\ handler(b, TRUE)
    /\ sent' = Append(sent, b)
    /\ phase' = "sep"
    /\ Hear(FALSE)
    /\ UNCHANGED noise

SendSync ==
    /\ ~received /\ phase = "data"
    /\ Len(sent) = BITS
    /\ handler("sync", TRUE)
    /\ sent' = <<>>
    /\ phase' = "sep"
    /\ Hear(TRUE)
    /\ UNCHANGED noise

\* A disturbed pulse of any length, after which the sensor is anywhere in the
\* pair it was sending; if that was the sync a new frame may have begun.
Disturb(d, high) ==
    /\ ~received /\ noise < MaxNoise
    /\ handler(d, high)
    /\ noise' = noise + 1
    /\ phase' \in {"sep", "data"}
    /\ sent' \in {sent} \cup (IF Len(sent) = BITS THEN {<<>>} ELSE {})
    /\ seen' = 0
    /\ UNCHANGED heard

Send == SendSep \/ SendSync \/ \E b \in {"one", "zero"} : SendBit(b)

\* The pin is not followed while a frame is held; when loop() attaches again
\* the sensor is anywhere in a frame whose first bits nobody will look at.
Rejoin ==
    /\ Attach
    /\ phase' \in {"sep", "data"}
    /\ \E n \in 0 .. BITS : sent' = [j \in 1 .. n |-> "zero"]
    /\ seen' = 0 /\ heard' = <<>>
    /\ UNCHANGED noise

Work ==
    \/ Rejoin
    \/ /\ Poll \/ Detach \/ DecodeBit \/ ReadField \/ Delay
          \/ ReleaseFrame \/ ResetIndexes
       /\ UNCHANGED line

LinkNext ==
    \/ Work
    \/ Send
    \/ Ignore /\ UNCHANGED line
    \/ \E d \in Lengths, high \in BOOLEAN : Disturb(d, high)

\* The sensor repeats its frame without end, and loop() is called without end.
LinkSpec == LinkInit /\ [][LinkNext]_lvars /\ WF_lvars(Work) /\ WF_lvars(Send)

-----------------------------------------------------------------------------
\* Whatever sync was believed before, the third undisturbed sync in a row
\* finds a frame captured: a wrong first sync costs at most one good frame,
\* because a frame of the wrong length resets syncCount.
TwoFramesSuffice == seen = 3 /\ attached => received

\* A frame heard undisturbed between its two syncs is read out as it was sent.
ReadsWhatWasSent ==
    pc \in {"delay", "release"} /\ heard # <<>> =>
        \A j \in 0 .. WIDTH - 1 :
            temp_out[j] = IF heard[FIRST + j + 1] = "one" THEN "1" ELSE "0"

\* Whatever the noise did to the ring and its marks before, and however often
\* frames were held and released, undisturbed frames go on being captured.
GoodFramesAreHeard == []<>(heard # <<>>)
=============================================================================
