----------------------------- MODULE PinRecorder ----------------------------
(* sketch_jan26b: loop() waits for a character, records the lengths of the  *)
(* pulses on a pin through the interrupt receiver(), stops when the array   *)
(* is full, a character arrives or MAX_TIME is over, and prints them with   *)
(* the level of each.  receiver() may run between any two statements of     *)
(* loop(), and on the 8-bit target also between the two byte stores of      *)
(* "count = 0".                                                             *)
(*                                                                          *)
(* A recorded length is reduced to what it measured: one pulse of level Low *)
(* or High, or "mixed" when the pin changed unseen in between.  An edge is  *)
(* handled before the next one comes.                                       *)
EXTENDS Naturals, FiniteSets

CONSTANTS
    MAX_SAMPLE,      \* 256 in the sketch
    BYTE,            \* values of a byte: 256, half of a 16-bit count
    MAX_TIME         \* recording time, in ticks

\* The count of an overrun fits the two bytes, and is not just the number at
\* which the low byte wraps: 258 and 256 in the sketch.
ASSUME RecorderAssumption ==
    /\ MAX_SAMPLE \in Nat \ {0} /\ MAX_TIME \in Nat \ {0}
    /\ BYTE \in Nat \ {0} /\ MAX_SAMPLE + 2 < BYTE * BYTE
    /\ BYTE # MAX_SAMPLE + 2

\* The array and the two entries behind it that receiver() can reach.
Entries  == 0 .. MAX_SAMPLE + 1
Levels   == {"Low", "High"}
Measures == Levels \cup {"mixed"}
Other(l) == IF l = "Low" THEN "High" ELSE "Low"

VARIABLES
    pin, flag,        \* the pin, and an edge seen while the interrupt was off
    attached, running, count, samples,
    measure,          \* what the pin did since `last' was set
    pc, zeroed,       \* next statement of loop(), bytes of count cleared
    startState, x, elapsed,
    fresh,            \* history: entries written since this recording began
    quiet             \* history: no edge between reading the pin and running

isr  == <<running, count, samples, measure, fresh>>
vars == <<pin, flag, attached, running, count, samples, measure, pc, zeroed,
          startState, x, elapsed, fresh, quiet>>

Init ==
    /\ pin \in Levels /\ flag = FALSE /\ attached = FALSE
    /\ running = FALSE /\ count = 0 /\ measure = "mixed"
    /\ samples = [n \in Entries |-> "mixed"]
    /\ pc = "prompt" /\ zeroed = {}
    /\ startState = "Low" /\ x = 0 /\ elapsed = 0
    /\ fresh = {} /\ quiet = FALSE

-----------------------------------------------------------------------------
\* Mutant of receiver: it never notices that the array is full.
receiverEndless(level) ==
    IF running
    THEN /\ samples' = [samples EXCEPT ![count] = measure]
         /\ measure' = level
         /\ count' = count + 1
         /\ fresh' = fresh \cup {count}
         /\ UNCHANGED running
    ELSE measure' = "mixed" /\ UNCHANGED <<running, count, samples, fresh>>
\* Mutant of receiver: `last' is not set again.
receiverKeepsLast(level) ==
    IF running
    THEN /\ samples' = [samples EXCEPT ![count] = measure]
         /\ measure' = "mixed"
         /\ count' = count + 1
         /\ fresh' = fresh \cup {count}
         /\ running' = (count' <= MAX_SAMPLE)
    ELSE measure' = "mixed" /\ UNCHANGED <<running, count, samples, fresh>>
\* The interrupt routine, run with the pin at `level'.
receiver(level) ==
    IF running
    THEN /\ samples' = [samples EXCEPT ![count] = measure]
         /\ measure' = level
         /\ count' = count + 1
         /\ fresh' = fresh \cup {count}
         /\ running' = (count' <= MAX_SAMPLE)
    ELSE measure' = "mixed" /\ UNCHANGED <<running, count, samples, fresh>>

\* The pin changes.  With the interrupt off the hardware only sets its flag.
Edge ==
    /\ pin' = Other(pin)
    /\ IF attached
       THEN receiver(pin') /\ UNCHANGED flag
       ELSE /\ flag' = TRUE /\ measure' = "mixed"
            /\ UNCHANGED <<running, count, samples, fresh>>
    /\ quiet' = (quiet /\ pc \notin {"attach", "zero", "last", "run"})
    /\ UNCHANGED <<attached, pc, zeroed, startState, x, elapsed>>

-----------------------------------------------------------------------------
\* The first character has come, the input is cleared, the pin is read.
ReadPin ==
    /\ pc = "prompt"
    /\ startState' = pin
    /\ quiet' = TRUE
    /\ pc' = "attach"
    /\ UNCHANGED <<pin, flag, attached, isr, zeroed, x, elapsed>>

\* attachInterrupt() does not clear the flag: an old edge is served at once.
Attach ==
    /\ pc = "attach"
    /\ attached' = TRUE /\ flag' = FALSE
    /\ IF flag THEN receiver(pin) ELSE UNCHANGED isr
    /\ pc' = "zero"
    /\ UNCHANGED <<pin, zeroed, startState, x, elapsed, quiet>>

\* One byte of "count = 0"; the compiler chooses the order.
ZeroByte(b) ==
    /\ pc = "zero" /\ b \notin zeroed
    /\ count' = IF b = "low" THEN (count \div BYTE) * BYTE ELSE count % BYTE
    /\ zeroed' = IF zeroed = {} THEN {b} ELSE {}
    /\ pc' = IF zeroed = {} THEN "zero" ELSE "last"
    /\ UNCHANGED <<pin, flag, attached, running, samples, measure,
                   startState, x, elapsed, fresh, quiet>>

SetLast ==
    /\ pc = "last"
    /\ measure' = pin
    /\ pc' = "run"
    /\ UNCHANGED <<pin, flag, attached, running, count, samples, zeroed,
                   startState, x, elapsed, fresh, quiet>>

Run ==
    /\ pc = "run"
    /\ running' = TRUE
    /\ elapsed' = 0
    /\ pc' = "record"
    /\ UNCHANGED <<pin, flag, attached, count, samples, measure, zeroed,
                   startState, x, fresh, quiet>>

Tick ==
    /\ pc = "record" /\ elapsed < MAX_TIME
    /\ elapsed' = elapsed + 1
    /\ UNCHANGED <<pin, flag, attached, isr, pc, zeroed, startState, x, quiet>>

StopChar ==
    /\ pc = "record" /\ running /\ elapsed < MAX_TIME
    /\ running' = FALSE
    /\ UNCHANGED <<pin, flag, attached, count, samples, measure, pc, zeroed,
                   startState, x, elapsed, fresh, quiet>>

\* Mutant of StopRecording: only `running' ends the recording.
StopOnlyWhenFull ==
    /\ pc = "record" /\ ~running
    /\ pc' = "detach"
    /\ UNCHANGED <<pin, flag, attached, isr, zeroed, startState, x, elapsed, quiet>>
StopRecording ==
    /\ pc = "record" /\ (~running \/ elapsed >= MAX_TIME)
    /\ pc' = "detach"
    /\ UNCHANGED <<pin, flag, attached, isr, zeroed, startState, x, elapsed, quiet>>

\* Mutant of Detach: the interrupt stays on while the samples are printed.
DetachForgotten ==
    /\ pc = "detach"
    /\ x' = 0
    /\ pc' = "print"
    /\ UNCHANGED <<pin, flag, attached, isr, zeroed, startState, elapsed, quiet>>
Detach ==
    /\ pc = "detach"
    /\ attached' = FALSE
    /\ x' = 0
    /\ pc' = "print"
    /\ UNCHANGED <<pin, flag, isr, zeroed, startState, elapsed, quiet>>

\* Prints startState and samples[x].
PrintSample ==
    /\ pc = "print" /\ x < count
    /\ startState' = Other(startState)
    /\ x' = x + 1
    /\ UNCHANGED <<pin, flag, attached, isr, pc, zeroed, elapsed, quiet>>

\* loop() returns: its locals are gone.
PrintDone ==
    /\ pc = "print" /\ x >= count
    /\ pc' = "prompt"
    /\ startState' = "Low" /\ x' = 0 /\ elapsed' = 0
    /\ fresh' = {} /\ quiet' = FALSE
    /\ UNCHANGED <<pin, flag, attached, running, count, samples, measure, zeroed>>

Steps == Attach \/ (\E b \in {"low", "high"} : ZeroByte(b)) \/ SetLast \/ Run
         \/ StopRecording \/ Detach \/ PrintSample \/ PrintDone

Next == Edge \/ ReadPin \/ Tick \/ StopChar \/ Steps

\* Statements of loop() are run and millis() advances; no character need come.
Spec == Init /\ [][Next]_vars /\ WF_vars(Steps) /\ WF_vars(Tick)

-----------------------------------------------------------------------------
\* receiver() never writes further than two entries behind the array: the
\* second one needs a time-out that leaves `running' set, an old edge served by
\* attachInterrupt(), and edges that fill the array while count is cleared byte
\* by byte, so that "running = true" starts again with count past the end.
OverrunBounded ==
    count <= MAX_SAMPLE + 2 /\ (running => count <= MAX_SAMPLE + 1)

\* While the samples are printed nothing adds to them or changes their number.
PrintsASnapshot == [][pc = "print" => UNCHANGED <<count, samples>>]_vars

\* When the pin is quiet from the reading of its level to "running = true",
\* every printed entry was recorded in this run and carries its own level.
LabelsTrueIfQuiet ==
    quiet /\ pc = "print" /\ x < count =>
        x \in fresh /\ samples[x] = startState

\* A recording ends: the array fills, a character comes or the time is over.
RecordingEnds == pc = "record" ~> pc = "print"

=============================================================================
