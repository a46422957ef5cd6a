----------------------------- MODULE IRReceiver -----------------------------
(* The infrared receiver of IRremote.cpp as ir_receiver.ino uses it: a      *)
(* timer interrupt every 50 us samples the pin and records the lengths of   *)
(* marks and spaces; loop() decodes a finished code and calls resume().     *)
(* Lengths are left out: an entry is the kind of the period it measured.    *)
EXTENDS Naturals

CONSTANTS
    RAWBUF,         \* entries of rawbuf
    GAP_TICKS,      \* ticks of a space that separates two codes
    TIMER,          \* values of the timer, which wraps
    HASHED          \* entries decodeHash() asks for: it decodes anything as long

ASSUME IRAssumption ==
    /\ {RAWBUF, GAP_TICKS, TIMER, HASHED} \subseteq Nat \ {0}
    /\ TIMER > GAP_TICKS + 1

VARIABLES
    rcvstate, timer, rawlen, rawbuf,    \* irparams
    pc,             \* the statement loop() is at
    length,         \* results->rawlen
    interrupted,    \* the timer interrupt ran before this statement
    quiet           \* history: ticks since the last mark sampled, to GAP_TICKS

irparams == <<rcvstate, timer, rawlen, rawbuf>>
vars == <<irparams, pc, length, interrupted, quiet>>

Entries == 0 .. RAWBUF - 1

Init ==
    /\ rcvstate = "none" /\ timer = 0 /\ rawlen = 0
    /\ rawbuf = [i \in Entries |-> "none"]
    /\ pc = "enable" /\ length = 0
    /\ interrupted = FALSE /\ quiet = 0

-----------------------------------------------------------------------------
(* ISR(TIMER_INTR_NAME): the states for a sample of the pin.                *)

tick == (timer + 1) % TIMER

Record(i, kind, state) ==
    /\ rawbuf' = [rawbuf EXCEPT ![i] = kind]
    /\ rawlen' = i + 1
    /\ timer' = 0
    /\ rcvstate' = state

\* timer' for a state that records nothing.
Measure(reset) == timer' = IF reset THEN 0 ELSE tick

InGap(irdata) ==
    IF irdata = "MARK" /\ tick >= GAP_TICKS
    THEN Record(0, "gap", "MARK")
    ELSE Measure(irdata = "MARK") /\ UNCHANGED <<rcvstate, rawlen, rawbuf>>

InMark(irdata) ==
    IF irdata = "SPACE"
    THEN Record(rawlen, "mark", "SPACE")
    ELSE Measure(FALSE) /\ UNCHANGED <<rcvstate, rawlen, rawbuf>>

InSpace(irdata) ==
    IF irdata = "MARK"
    THEN Record(rawlen, "space", "MARK")
    ELSE /\ Measure(FALSE)
         /\ rcvstate' = IF tick > GAP_TICKS THEN "STOP" ELSE "SPACE"
         /\ UNCHANGED <<rawlen, rawbuf>>

\* Mutant of Stopped: a mark behind a gap starts the next recording.
StoppedGoesOn(irdata) ==
    IF irdata = "MARK" /\ tick >= GAP_TICKS
    THEN Record(0, "gap", "MARK")
    ELSE /\ Measure(irdata = "MARK") /\ rcvstate' = "STOP"
         /\ UNCHANGED <<rawlen, rawbuf>>
\* Mutant of Stopped: the marks of the next code do not restart the gap.
StoppedTimesOn(irdata) ==
    Measure(FALSE) /\ rcvstate' = "STOP" /\ UNCHANGED <<rawlen, rawbuf>>
Stopped(irdata) ==
    Measure(irdata = "MARK") /\ rcvstate' = "STOP" /\ UNCHANGED <<rawlen, rawbuf>>

\* Mutant of full: the test comes one entry late.
fullLate == rawlen > RAWBUF
full == rawlen >= RAWBUF

\* Two statements of loop() that follow each other see one interrupt between
\* them at most: they take less than the 50 us of a tick.
ISR(irdata) ==
    /\ pc \in {"enable", "enabled", "test", "cleared"} => ~interrupted
    /\ \/ full /\ Stopped(irdata)
       \/ ~full /\ rcvstate = "none" /\ Measure(FALSE)
          /\ UNCHANGED <<rcvstate, rawlen, rawbuf>>
       \/ ~full /\ rcvstate = "IDLE" /\ InGap(irdata)
       \/ ~full /\ rcvstate = "MARK" /\ InMark(irdata)
       \/ ~full /\ rcvstate = "SPACE" /\ InSpace(irdata)
       \/ ~full /\ rcvstate = "STOP" /\ Stopped(irdata)
    /\ interrupted' = TRUE
    /\ quiet' = IF irdata = "MARK" THEN 0
                ELSE IF quiet < GAP_TICKS THEN quiet + 1 ELSE quiet
    /\ UNCHANGED <<pc, length>>

-----------------------------------------------------------------------------
(* enableIRIn(), decode() and resume(), a statement at a time.              *)

At(from, to) == pc = from /\ pc' = to /\ interrupted' = FALSE

\* rcvstate = STATE_IDLE, in enableIRIn() and in resume().
SetIdle ==
    /\ At("enable", "enabled") \/ At("resume", "cleared")
    /\ rcvstate' = "IDLE"
    /\ UNCHANGED <<timer, rawlen, rawbuf, length, quiet>>

\* rawlen = 0, the statement behind it.
SetEmpty ==
    /\ At("enabled", "decode") \/ At("cleared", "decode")
    /\ rawlen' = 0
    /\ UNCHANGED <<rcvstate, timer, rawbuf, length, quiet>>

ReadLength ==
    /\ At("decode", "test")
    /\ length' = rawlen
    /\ UNCHANGED <<irparams, quiet>>

NotReady ==
    /\ At("test", "decode") /\ rcvstate # "STOP"
    /\ UNCHANGED <<irparams, length, quiet>>

Ready ==
    /\ At("test", "match") /\ rcvstate = "STOP"
    /\ UNCHANGED <<irparams, length, quiet>>

\* One of the decoders knows the code; loop() prints it.  decodePanasonic()
\* looks at the buffer whatever rawlen is.
Decoded ==
    /\ At("match", "print")
    /\ UNCHANGED <<irparams, length, quiet>>

\* Mutant of Unknown: decode() returns without "throw away and start over".
UnknownKept ==
    /\ At("match", "decode") /\ length < HASHED
    /\ UNCHANGED <<irparams, length, quiet>>
Unknown ==
    /\ At("match", "resume") /\ length < HASHED
    /\ UNCHANGED <<irparams, length, quiet>>

Printed ==
    /\ At("print", "resume")
    /\ UNCHANGED <<irparams, length, quiet>>

loop == SetIdle \/ SetEmpty \/ ReadLength \/ NotReady \/ Ready \/ Decoded
        \/ Unknown \/ Printed

Next == loop \/ \E irdata \in {"MARK", "SPACE"} : ISR(irdata)

Spec == Init /\ [][Next]_vars /\ WF_vars(loop)

-----------------------------------------------------------------------------
\* The interrupt writes inside rawbuf, although rawlen is also set to zero by
\* resume() while the interrupt goes on.
TypeOK ==
    /\ rcvstate \in {"none", "IDLE", "MARK", "SPACE", "STOP"}
    /\ timer \in 0 .. TIMER - 1
    /\ rawlen \in 0 .. RAWBUF /\ length \in 0 .. RAWBUF
    /\ rawbuf \in [Entries -> {"none", "gap", "mark", "space"}]
    /\ pc \in {"enable", "enabled", "decode", "test", "match", "print",
               "resume", "cleared"}
    /\ interrupted \in BOOLEAN /\ quiet \in 0 .. GAP_TICKS

decoding == pc \in {"match", "print", "resume"}

\* From the test of rcvstate to resume() the code being decoded is left alone
\* by every interrupt, whatever the pin does, and the length decode() read
\* before that test is the one that belongs to it.
CodeKept ==
    [][decoding => /\ length = rawlen
                   /\ UNCHANGED <<rawlen, rawbuf>>]_vars

\* A recording begins only behind a gap: no sampled mark lies less than
\* GAP_TICKS back, so it never begins in the middle of a code, even when
\* resume() is called during one and however the timer wraps.  The two ticks
\* are the one of the mark itself, and one that enableIRIn() may let the timer
\* count before the state is set.
StartsAfterGap ==
    [][rcvstate \notin {"MARK", "SPACE"} /\ rcvstate' = "MARK"
       => quiet + 2 >= GAP_TICKS]_vars

\* The receiver always comes out of STOP and has room again: also when resume()
\* races with the interrupt that finds the buffer still full.
ReadyAgain == rcvstate = "STOP" ~> rcvstate # "STOP" /\ ~full

\* What the comment above ISR() says: the first entry is the gap.
FirstIsGap == decoding /\ rawlen > 0 => rawbuf[0] = "gap"
=============================================================================
