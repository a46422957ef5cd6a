-------------------------- MODULE PinRecorder_proof --------------------------
(* What the pin recorder keeps, proved for every size of the array, every   *)
(* recording time and every width of a byte the assumption allows.          *)
EXTENDS PinRecorder, TLAPS

USE DEF Levels, Measures

-----------------------------------------------------------------------------
(* The inductive invariant.                                                 *)
Program == {"prompt", "attach", "zero", "last", "run", "record", "detach", "print"}

Types ==
    /\ pin \in Levels /\ flag \in BOOLEAN
    /\ attached \in BOOLEAN /\ running \in BOOLEAN
    /\ count \in Nat /\ samples \in [Entries -> Measures] /\ measure \in Measures
    /\ pc \in Program /\ zeroed \in {{}, {"low"}, {"high"}}
    /\ startState \in Levels /\ x \in Nat /\ elapsed \in Nat
    /\ fresh \subseteq Entries /\ quiet \in BOOLEAN

\* Where the interrupt is on, and how far the clearing of count has come.
Control ==
    /\ attached <=> pc \in {"zero", "last", "run", "record", "detach"}
    /\ zeroed # {} => pc = "zero"
    /\ x # 0 => pc = "print"

\* The byte cleared first stays cleared, unless receiver() has counted since,
\* and then it has seen for itself that the array is full.
Bounds ==
    /\ count <= MAX_SAMPLE + 2
    /\ running => count <= MAX_SAMPLE + 1
    /\ zeroed = {"low"} =>
          /\ running => count <= MAX_SAMPLE \/ count % BYTE = 0
          /\ ~running => count <= MAX_SAMPLE + 1 \/ count % BYTE <= 1
    /\ zeroed = {"high"} =>
          /\ running => count <= MAX_SAMPLE \/ count < BYTE
          /\ ~running => count <= MAX_SAMPLE + 1 \/ count < BYTE
    /\ pc \in {"last", "run"} =>
          /\ running => count <= MAX_SAMPLE
          /\ ~running => count <= MAX_SAMPLE + 1

\* The level entry n ought to have: startState is that of entry x.
LevelOf(n) == IF n % 2 = x % 2 THEN startState ELSE Other(startState)

\* With a quiet start the recording begins at entry 0 with the pin as it was
\* read, and the levels alternate from there.
Labels ==
    quiet =>
        /\ pc # "prompt"
        /\ pc \in {"attach", "zero", "last", "run"} => pin = startState
        /\ zeroed = {"low"} => count % BYTE = 0
        /\ zeroed = {"high"} => count < BYTE
        /\ pc \in {"last", "run"} => count = 0
        /\ pc = "run" => measure = pin
        /\ pc \in {"record", "detach"} /\ running => measure = pin /\ pin = LevelOf(count)
        /\ pc \in {"record", "detach", "print"} =>
              \A n \in Entries : n < count => n \in fresh /\ samples[n] = LevelOf(n)

IInv == Types /\ Control /\ Bounds /\ Labels

-----------------------------------------------------------------------------
(* The two bytes of count.                                                  *)
LEMMA Bytes ==
    ASSUME NEW c \in Nat
    PROVE  /\ c % BYTE \in 0 .. BYTE - 1 /\ c % BYTE <= c
           /\ (c \div BYTE) * BYTE \in Nat /\ (c \div BYTE) * BYTE <= c
           /\ ((c \div BYTE) * BYTE) % BYTE = 0
           /\ c < BYTE => (c \div BYTE) * BYTE = 0 /\ c % BYTE = c
           /\ c % BYTE = 0 => (c + 1) % BYTE <= 1 /\ (c < BYTE => c = 0)
PROOF
  <1> BYTE \in Nat \ {0} BY RecorderAssumption
  <1>1. c \div BYTE \in Nat /\ c % BYTE \in 0 .. BYTE - 1
        /\ c = BYTE * (c \div BYTE) + (c % BYTE) BY SMT
  <1>2. c % BYTE <= c /\ (c \div BYTE) * BYTE \in Nat /\ (c \div BYTE) * BYTE <= c
        BY <1>1, SMT
  <1>3. ((c \div BYTE) * BYTE) % BYTE = 0 BY <1>1, SMT
  <1>4. c < BYTE => (c \div BYTE) * BYTE = 0 /\ c % BYTE = c BY <1>1, SMT
  <1>5. c % BYTE = 0 => (c + 1) % BYTE <= 1 BY <1>1, SMT
  <1> QED BY <1>1, <1>2, <1>3, <1>4, <1>5

\* The levels of neighbouring entries differ.
LEMMA Parity ==
    ASSUME NEW n \in Nat
    PROVE  n % 2 \in 0 .. 1 /\ (n + 1) % 2 \in 0 .. 1 /\ (n + 1) % 2 # n % 2
PROOF BY SMT

LEMMA OtherLevel ==
    ASSUME NEW l \in Levels
    PROVE  Other(l) \in Levels /\ Other(Other(l)) = l /\ Other(l) # l
PROOF BY DEF Other

-----------------------------------------------------------------------------
(* Types.                                                                   *)
LEMMA ReceiverTypes ==
    ASSUME Types, Bounds, NEW l \in Levels, receiver(l)
    PROVE  /\ running' \in BOOLEAN /\ count' \in Nat
           /\ samples' \in [Entries -> Measures] /\ measure' \in Measures
           /\ fresh' \subseteq Entries
PROOF
  <1> MAX_SAMPLE \in Nat BY RecorderAssumption
  <1>1. CASE running
    <2>1. count \in Entries BY <1>1 DEF Types, Bounds, Entries
    <2>2. samples' \in [Entries -> Measures] BY <1>1, <2>1 DEF Types, receiver
    <2>3. count' \in Nat /\ (running' = (count' <= MAX_SAMPLE)) BY <1>1 DEF Types, receiver
    <2>4. running' \in BOOLEAN
      <3>1. (count' <= MAX_SAMPLE) \in BOOLEAN BY <2>3, SMT
      <3> QED BY <2>3, <3>1, Zenon
    <2>5. measure' \in Measures /\ fresh' \subseteq Entries
          BY <1>1, <2>1 DEF Types, receiver
    <2> QED BY <2>2, <2>3, <2>4, <2>5
  <1>2. CASE ~running BY <1>2 DEF Types, receiver
  <1> QED BY <1>1, <1>2

LEMMA TypesInit == Init => Types
PROOF
  <1> SUFFICES ASSUME Init PROVE Types OBVIOUS
  <1>1. samples \in [Entries -> Measures] BY DEF Init
  <1>2. zeroed \in {{}, {"low"}, {"high"}} /\ fresh \subseteq Entries BY DEF Init
  <1>3. /\ pin \in Levels /\ flag \in BOOLEAN
        /\ attached \in BOOLEAN /\ running \in BOOLEAN
        /\ measure \in Measures /\ pc \in Program
        /\ startState \in Levels /\ quiet \in BOOLEAN BY DEF Init, Program
  <1>4. count \in Nat /\ x \in Nat /\ elapsed \in Nat BY DEF Init
  <1> QED BY <1>1, <1>2, <1>3, <1>4 DEF Types

LEMMA TypesStep == ASSUME Types, Bounds, [Next]_vars PROVE Types'
PROOF
  <1> USE DEF Types, Program
  <1>1. CASE Edge
    <2>1. pin' \in Levels BY <1>1, OtherLevel DEF Edge
    <2>2. CASE attached BY <1>1, <2>1, <2>2, ReceiverTypes DEF Edge
    <2>3. CASE ~attached BY <1>1, <2>1, <2>3 DEF Edge
    <2> QED BY <2>2, <2>3
  <1>2. CASE Attach
    <2>1. CASE flag BY <1>2, <2>1, ReceiverTypes DEF Attach
    <2>2. CASE ~flag BY <1>2, <2>2 DEF Attach, isr
    <2> QED BY <2>1, <2>2
  <1>3. ASSUME NEW b \in {"low", "high"}, ZeroByte(b) PROVE Types'
    <2>1. count' \in Nat
      <3>1. (count \div BYTE) * BYTE \in Nat BY Bytes, Zenon
      <3>2. count % BYTE \in Nat BY RecorderAssumption, Bytes
      <3> QED BY <1>3, <3>1, <3>2, Zenon DEF ZeroByte
    <2>2. zeroed' \in {{}, {"low"}, {"high"}} /\ pc' \in Program BY <1>3 DEF ZeroByte
    <2> QED BY <1>3, <2>1, <2>2 DEF ZeroByte
  <1>4. CASE ReadPin BY <1>4 DEF ReadPin, isr
  <1>5. CASE Tick BY <1>5 DEF Tick, isr
  <1>6. CASE StopChar BY <1>6 DEF StopChar
  <1>7. CASE SetLast BY <1>7 DEF SetLast
  <1>8. CASE Run BY <1>8 DEF Run
  <1>9. CASE StopRecording BY <1>9 DEF StopRecording, isr
  <1>10. CASE Detach BY <1>10 DEF Detach, isr
  <1>11. CASE PrintSample BY <1>11, OtherLevel DEF PrintSample, isr
  <1>12. CASE PrintDone BY <1>12 DEF PrintDone
  <1>13. CASE UNCHANGED vars BY <1>13 DEF vars
  <1> QED BY <1>1, <1>2, <1>3, <1>4, <1>5, <1>6, <1>7, <1>8, <1>9, <1>10, <1>11,
             <1>12, <1>13 DEF Next, Steps

-----------------------------------------------------------------------------
(* Control.                                                                 *)
LEMMA ControlStep == ASSUME Types, Control, [Next]_vars PROVE Control'
PROOF
  <1> USE DEF Types, Program, Control
  <1>1. CASE Edge BY <1>1 DEF Edge
  <1>2. CASE Attach BY <1>2 DEF Attach
  <1>3. ASSUME NEW b \in {"low", "high"}, ZeroByte(b) PROVE Control'
        BY <1>3 DEF ZeroByte
  <1>4. CASE ReadPin BY <1>4 DEF ReadPin
  <1>5. CASE Tick BY <1>5 DEF Tick
  <1>6. CASE StopChar BY <1>6 DEF StopChar
  <1>7. CASE SetLast BY <1>7 DEF SetLast
  <1>8. CASE Run BY <1>8 DEF Run
  <1>9. CASE StopRecording BY <1>9 DEF StopRecording
  <1>10. CASE Detach BY <1>10 DEF Detach
  <1>11. CASE PrintSample BY <1>11 DEF PrintSample
  <1>12. CASE PrintDone BY <1>12 DEF PrintDone
  <1>13. CASE UNCHANGED vars BY <1>13 DEF vars
  <1> QED BY <1>1, <1>2, <1>3, <1>4, <1>5, <1>6, <1>7, <1>8, <1>9, <1>10, <1>11,
             <1>12, <1>13 DEF Next, Steps

-----------------------------------------------------------------------------
(* Bounds.                                                                  *)
LEMMA ReceiverBounds ==
    ASSUME Types, Bounds, NEW l \in Levels, receiver(l),
           UNCHANGED zeroed, pc' = pc \/ (pc = "attach" /\ pc' = "zero")
    PROVE  Bounds'
PROOF
  <1> MAX_SAMPLE \in Nat \ {0} /\ BYTE \in Nat \ {0} /\ BYTE # MAX_SAMPLE + 2
      BY RecorderAssumption
  <1>1. CASE running
    <2>1. count' = count + 1 /\ running' = (count + 1 <= MAX_SAMPLE)
          BY <1>1 DEF receiver
    <2>2. count \in Nat /\ count <= MAX_SAMPLE + 1 BY <1>1 DEF Types, Bounds
    <2>3. running' => count' <= MAX_SAMPLE BY <2>1
    <2>4. count' <= MAX_SAMPLE + 2 BY <2>1, <2>2
    <2>5. zeroed = {"low"} => count' <= MAX_SAMPLE + 1 \/ count' % BYTE <= 1
      <3>1. CASE zeroed = {"low"} /\ count > MAX_SAMPLE
        <4>1. count % BYTE = 0 BY <1>1, <3>1, <2>2 DEF Bounds
        <4> QED BY <2>1, <2>2, <4>1, Bytes
      <3>2. CASE count <= MAX_SAMPLE BY <2>1, <2>2, <3>2
      <3> QED BY <2>2, <3>1, <3>2
    <2>6. zeroed = {"high"} => count' <= MAX_SAMPLE + 1 \/ count' < BYTE
          BY <1>1, <2>1, <2>2 DEF Bounds
    <2>7. pc \in {"last", "run"} => count' <= MAX_SAMPLE + 1
          BY <1>1, <2>1, <2>2 DEF Bounds
    <2>8. pc' \in {"last", "run"} => pc \in {"last", "run"} OBVIOUS
    <2>9. count' \in Nat BY <2>1, <2>2
    <2>10. running' => count' <= MAX_SAMPLE + 1 BY <2>3, <2>9
    <2> HIDE DEF receiver
    <2> QED BY <2>3, <2>4, <2>5, <2>6, <2>7, <2>8, <2>10 DEF Bounds
  <1>2. CASE ~running
    <2>1. UNCHANGED <<running, count>> BY <1>2 DEF receiver
    <2> QED BY <2>1 DEF Bounds
  <1> QED BY <1>1, <1>2

LEMMA ZeroBounds ==
    ASSUME Types, Control, Bounds, NEW b \in {"low", "high"}, ZeroByte(b)
    PROVE  Bounds'
PROOF
  <1> MAX_SAMPLE \in Nat \ {0} /\ BYTE \in Nat \ {0} BY RecorderAssumption
  <1> count \in Nat BY DEF Types
  <1>1. count' \in Nat /\ count' <= count BY Bytes DEF ZeroByte
  <1>2. UNCHANGED running BY DEF ZeroByte
  <1>3. count' <= MAX_SAMPLE + 2 /\ (running' => count' <= MAX_SAMPLE + 1)
        BY <1>1, <1>2 DEF Bounds
  <1>4. CASE zeroed = {}
    <2>1. zeroed' = {b} /\ pc' = "zero" BY <1>4 DEF ZeroByte
    <2>2. b = "low" => count' % BYTE = 0 BY Bytes DEF ZeroByte
    <2>3. b = "high" => count' < BYTE BY Bytes DEF ZeroByte
    <2> QED BY <1>3, <2>1, <2>2, <2>3 DEF Bounds
  <1>5. CASE zeroed = {"low"}
    <2>1. count' = count % BYTE /\ zeroed' = {} /\ pc' = "last" BY <1>5 DEF ZeroByte
    <2>2. running => count' <= MAX_SAMPLE BY <1>1, <1>5, <2>1 DEF Bounds
    <2>3. ~running => count' <= MAX_SAMPLE + 1 BY <1>1, <1>5, <2>1 DEF Bounds
    <2> QED BY <1>2, <1>3, <2>1, <2>2, <2>3 DEF Bounds
  <1>6. CASE zeroed = {"high"}
    <2>1. count' = (count \div BYTE) * BYTE /\ zeroed' = {} /\ pc' = "last"
          BY <1>6 DEF ZeroByte
    <2>2. count < BYTE => count' = 0 BY <2>1, Bytes
    <2>3. running => count' <= MAX_SAMPLE BY <1>1, <1>6, <2>2 DEF Bounds
    <2>4. ~running => count' <= MAX_SAMPLE + 1 BY <1>1, <1>6, <2>2 DEF Bounds
    <2> QED BY <1>2, <1>3, <2>1, <2>3, <2>4 DEF Bounds
  <1> QED BY <1>4, <1>5, <1>6 DEF Types

LEMMA BoundsStep == ASSUME Types, Control, Bounds, [Next]_vars PROVE Bounds'
PROOF
  <1> MAX_SAMPLE \in Nat BY RecorderAssumption
  <1> USE DEF Types, Program, Control, Bounds
  <1>1. CASE Edge
    <2>1. pin' \in Levels BY <1>1, OtherLevel DEF Edge
    <2>2. CASE attached BY <1>1, <2>1, <2>2, ReceiverBounds DEF Edge
    <2>3. CASE ~attached BY <1>1, <2>3 DEF Edge
    <2> QED BY <2>2, <2>3
  <1>2. CASE Attach
    <2>1. CASE flag BY <1>2, <2>1, ReceiverBounds DEF Attach
    <2>2. CASE ~flag BY <1>2, <2>2 DEF Attach, isr
    <2> QED BY <2>1, <2>2
  <1>3. ASSUME NEW b \in {"low", "high"}, ZeroByte(b) PROVE Bounds'
        BY <1>3, ZeroBounds
  <1>4. CASE ReadPin BY <1>4 DEF ReadPin, isr
  <1>5. CASE Tick BY <1>5 DEF Tick, isr
  <1>6. CASE StopChar BY <1>6 DEF StopChar
  <1>7. CASE SetLast BY <1>7 DEF SetLast
  <1>8. CASE Run BY <1>8 DEF Run
  <1>9. CASE StopRecording BY <1>9 DEF StopRecording, isr
  <1>10. CASE Detach BY <1>10 DEF Detach, isr
  <1>11. CASE PrintSample BY <1>11 DEF PrintSample, isr
  <1>12. CASE PrintDone BY <1>12 DEF PrintDone
  <1>13. CASE UNCHANGED vars BY <1>13 DEF vars
  <1> QED BY <1>1, <1>2, <1>3, <1>4, <1>5, <1>6, <1>7, <1>8, <1>9, <1>10, <1>11,
             <1>12, <1>13 DEF Next, Steps

-----------------------------------------------------------------------------
(* Labels.                                                                  *)
LEMMA LevelOfNext ==
    ASSUME Types, NEW n \in Nat
    PROVE  LevelOf(n) \in Levels /\ LevelOf(n + 1) = Other(LevelOf(n))
PROOF
  <1>1. n % 2 \in {0, 1} /\ (n + 1) % 2 \in {0, 1} /\ (n + 1) % 2 # n % 2 BY Parity
  <1>2. x % 2 \in {0, 1} BY Parity DEF Types
  <1>3. startState \in Levels /\ Other(startState) \in Levels
        /\ Other(Other(startState)) = startState BY OtherLevel DEF Types
  <1>4. CASE n % 2 = x % 2 BY <1>1, <1>3, <1>4 DEF LevelOf
  <1>5. CASE n % 2 # x % 2
    <2>1. (n + 1) % 2 = x % 2 BY <1>1, <1>2, <1>5
    <2> QED BY <1>3, <1>5, <2>1 DEF LevelOf
  <1> QED BY <1>4, <1>5

LEMMA LevelOfKept ==
    ASSUME UNCHANGED <<startState, x>>, NEW n
    PROVE  LevelOf(n)' = LevelOf(n)
PROOF BY DEF LevelOf

\* Printing an entry flips startState along with the parity of x.
LEMMA LevelOfPrinted ==
    ASSUME Types, startState' = Other(startState), x' = x + 1, NEW n \in Nat
    PROVE  LevelOf(n)' = LevelOf(n)
PROOF
  <1>1. n % 2 \in {0, 1} BY Parity
  <1>2. x \in Nat /\ x % 2 \in {0, 1} /\ (x + 1) % 2 \in {0, 1}
        /\ (x + 1) % 2 # x % 2 BY Parity DEF Types
  <1>3. startState \in Levels /\ Other(Other(startState)) = startState
        BY OtherLevel DEF Types
  <1>4. LevelOf(n)' = IF n % 2 = (x + 1) % 2 THEN Other(startState)
                      ELSE Other(Other(startState)) BY DEF LevelOf
  <1>5. CASE n % 2 = x % 2
    <2>1. n % 2 # (x + 1) % 2 BY <1>2, <1>5
    <2> QED BY <1>3, <1>4, <1>5, <2>1 DEF LevelOf
  <1>6. CASE n % 2 # x % 2
    <2>1. n % 2 = (x + 1) % 2 BY <1>1, <1>2, <1>6
    <2> QED BY <1>3, <1>4, <1>6, <2>1 DEF LevelOf
  <1> QED BY <1>5, <1>6

\* receiver() appends one entry, of the level that has just ended.
LEMMA ReceiverLabels ==
    ASSUME Types, Control, Bounds, Labels, quiet, Edge, attached,
           pc \in {"record", "detach"}
    PROVE  Labels'
PROOF
  <1>1. UNCHANGED <<startState, x, pc, zeroed>> /\ receiver(pin') /\ pin' = Other(pin)
        BY DEF Edge
  <1>2. zeroed = {} BY DEF Types, Control
  <1>3. \A n \in Nat : LevelOf(n)' = LevelOf(n) BY <1>1, LevelOfKept
  <1>4. \A n \in Entries : n < count => n \in fresh /\ samples[n] = LevelOf(n)
        BY DEF Labels
  <1>5. CASE running
    <2>1. /\ samples' = [samples EXCEPT ![count] = measure]
          /\ measure' = pin' /\ count' = count + 1 /\ fresh' = fresh \cup {count}
          BY <1>1, <1>5 DEF receiver
    <2>2. count \in Entries /\ count \in Nat
          BY <1>5, RecorderAssumption DEF Types, Bounds, Entries
    <2>3. measure = pin /\ pin = LevelOf(count) BY <1>5 DEF Labels
    <2>4. pin' = LevelOf(count + 1) BY <1>1, <2>2, <2>3, LevelOfNext
    <2>5. measure' = pin' /\ pin' = LevelOf(count)'
      <3>1. LevelOf(count)' = LevelOf(count + 1) BY <1>1, <2>1 DEF LevelOf
      <3> QED BY <2>1, <2>4, <3>1
    <2>6. ASSUME NEW n \in Entries, n < count'
          PROVE  n \in fresh' /\ samples'[n] = LevelOf(n)'
      <3>1. n \in Nat BY RecorderAssumption DEF Entries
      <3>2. CASE n = count BY <1>3, <2>1, <2>2, <2>3, <3>1, <3>2 DEF Types
      <3>3. CASE n # count
        <4>1. n < count BY <2>1, <2>2, <2>6, <3>1, <3>3
        <4> QED BY <1>3, <1>4, <2>1, <3>1, <3>3, <4>1 DEF Types
      <3> QED BY <3>2, <3>3
    <2> QED BY <1>1, <1>2, <2>5, <2>6 DEF Labels
  <1>6. CASE ~running
    <2>1. UNCHANGED <<running, count, samples, fresh>> BY <1>1, <1>6 DEF receiver
    <2>2. ASSUME NEW n \in Entries, n < count'
          PROVE  n \in fresh' /\ samples'[n] = LevelOf(n)'
      <3>1. n \in Nat BY RecorderAssumption DEF Entries
      <3> QED BY <1>3, <1>4, <2>1, <2>2, <3>1
    <2> QED BY <1>1, <1>2, <1>6, <2>1, <2>2 DEF Labels
  <1> QED BY <1>5, <1>6

LEMMA ZeroLabels ==
    ASSUME Types, Labels, quiet, NEW b \in {"low", "high"}, ZeroByte(b)
    PROVE  Labels'
PROOF
  <1> MAX_SAMPLE \in Nat \ {0} /\ BYTE \in Nat \ {0} BY RecorderAssumption
  <1> count \in Nat BY DEF Types
  <1>1. UNCHANGED <<pin, startState, quiet>> /\ pin = startState BY DEF ZeroByte, Labels
  <1>2. CASE zeroed = {}
    <2>1. zeroed' = {b} /\ pc' = "zero" BY <1>2 DEF ZeroByte
    <2>2. b = "low" => count' % BYTE = 0 BY Bytes DEF ZeroByte
    <2>3. b = "high" => count' < BYTE BY Bytes DEF ZeroByte
    <2> QED BY <1>1, <2>1, <2>2, <2>3 DEF Labels
  <1>3. CASE zeroed = {"low"}
    <2>1. count' = count % BYTE /\ zeroed' = {} /\ pc' = "last" BY <1>3 DEF ZeroByte
    <2>2. count' = 0 BY <1>3, <2>1 DEF Labels
    <2> QED BY <1>1, <2>1, <2>2 DEF Labels
  <1>4. CASE zeroed = {"high"}
    <2>1. count' = (count \div BYTE) * BYTE /\ zeroed' = {} /\ pc' = "last"
          BY <1>4 DEF ZeroByte
    <2>2. count' = 0 BY <1>4, <2>1, Bytes DEF Labels
    <2> QED BY <1>1, <2>1, <2>2 DEF Labels
  <1> QED BY <1>2, <1>3, <1>4 DEF Types

\* A step that leaves pin, array, label and printing alone keeps the entries.
LEMMA EntriesKept ==
    ASSUME Labels, quiet, pc \in {"record", "detach", "print"},
           UNCHANGED <<count, samples, fresh>>,
           \A n \in Nat : LevelOf(n)' = LevelOf(n)
    PROVE  \A n \in Entries : n < count' => n \in fresh' /\ samples'[n] = LevelOf(n)'
PROOF
  <1>1. \A n \in Entries : n \in Nat BY RecorderAssumption DEF Entries
  <1> QED BY <1>1 DEF Labels

LEMMA LabelsStep ==
    ASSUME Types, Control, Bounds, Labels, [Next]_vars PROVE Labels'
PROOF
  <1> SUFFICES ASSUME quiet' PROVE Labels' BY DEF Labels
  <1>1. CASE Edge
    <2>1. quiet /\ pc \notin {"attach", "zero", "last", "run"} /\ UNCHANGED pc
          BY <1>1 DEF Edge, Types
    <2>2. pc \in {"record", "detach", "print"} BY <2>1 DEF Types, Program, Labels
    <2>3. CASE attached
          BY <1>1, <2>1, <2>2, <2>3, ReceiverLabels DEF Types, Control
    <2>4. CASE ~attached
      <3>1. pc = "print" BY <2>2, <2>4 DEF Types, Control
      <3>2. UNCHANGED <<count, samples, fresh, startState, x, zeroed>>
            BY <1>1, <2>4 DEF Edge
      <3>3. \A n \in Nat : LevelOf(n)' = LevelOf(n) BY <3>2, LevelOfKept
      <3>4. zeroed = {} BY <3>1 DEF Types, Control
      <3> QED BY <2>1, <3>1, <3>2, <3>3, <3>4, EntriesKept DEF Labels
    <2> QED BY <2>3, <2>4
  <1>2. CASE Attach BY <1>2 DEF Attach, Types, Control, Labels
  <1>3. ASSUME NEW b \in {"low", "high"}, ZeroByte(b) PROVE Labels'
        BY <1>3, ZeroLabels DEF ZeroByte, Types
  <1>4. CASE ReadPin BY <1>4 DEF ReadPin, Types, Control, Labels
  <1>5. CASE SetLast BY <1>5 DEF SetLast, Types, Control, Labels
  <1>6. CASE Run
    <2>1. quiet /\ pc = "run" /\ pc' = "record"
          /\ UNCHANGED <<pin, count, measure, zeroed, startState, x>>
          BY <1>6 DEF Run
    <2>2. count = 0 /\ measure = pin /\ pin = startState BY <2>1 DEF Labels
    <2>3. zeroed = {} /\ x = 0 BY <2>1 DEF Types, Control
    <2>4. LevelOf(count)' = startState BY <2>1, <2>2, <2>3 DEF LevelOf
    <2>5. \A n \in Entries : ~(n < count')
          BY <2>1, <2>2, RecorderAssumption DEF Entries
    <2> QED BY <2>1, <2>2, <2>3, <2>4, <2>5 DEF Labels
  <1>7. CASE Tick \/ StopChar \/ StopRecording \/ Detach
    <2>1. /\ quiet /\ pc \in {"record", "detach"}
          /\ UNCHANGED <<pin, count, samples, fresh, measure, startState, x, zeroed>>
          /\ pc' \in {"record", "detach", "print"} /\ (running' => running)
      <3>1. CASE Tick BY <3>1 DEF Tick, isr
      <3>2. CASE StopChar BY <3>2 DEF StopChar
      <3>3. CASE StopRecording BY <3>3 DEF StopRecording, isr
      <3>4. CASE Detach BY <3>4 DEF Detach, isr, Types, Control
      <3> QED BY <1>7, <3>1, <3>2, <3>3, <3>4
    <2>2. \A n \in Nat : LevelOf(n)' = LevelOf(n) BY <2>1, LevelOfKept
    <2>3. zeroed = {} BY <2>1 DEF Types, Control
    <2>4. \A n \in Entries : n < count' => n \in fresh' /\ samples'[n] = LevelOf(n)'
          BY <2>1, <2>2, EntriesKept
    <2>5. LevelOf(count)' = LevelOf(count) BY <2>1 DEF LevelOf
    <2>6. running' => measure' = pin' /\ pin' = LevelOf(count)'
          BY <2>1, <2>5 DEF Labels
    <2> QED BY <2>1, <2>3, <2>4, <2>6 DEF Labels
  <1>8. CASE PrintSample
    <2>1. /\ quiet /\ pc = "print" /\ pc' = "print"
          /\ UNCHANGED <<count, samples, fresh, zeroed>>
          /\ startState' = Other(startState) /\ x' = x + 1
          BY <1>8 DEF PrintSample, isr
    <2>2. \A n \in Nat : LevelOf(n)' = LevelOf(n) BY <2>1, LevelOfPrinted
    <2>3. zeroed = {} BY <2>1 DEF Types, Control
    <2> QED BY <2>1, <2>2, <2>3, EntriesKept DEF Labels
  <1>9. CASE PrintDone BY <1>9 DEF PrintDone
  <1>10. CASE UNCHANGED vars
    <2>1. UNCHANGED <<pin, count, samples, fresh, measure, startState, x, zeroed, pc,
                      running, quiet>> BY <1>10 DEF vars
    <2>2. \A n \in Nat : LevelOf(n)' = LevelOf(n) BY <2>1, LevelOfKept
    <2>3. pc \in {"record", "detach", "print"} =>
              \A n \in Entries : n < count' => n \in fresh' /\ samples'[n] = LevelOf(n)'
          BY <2>1, <2>2, EntriesKept
    <2>4. LevelOf(count)' = LevelOf(count) BY <2>1 DEF LevelOf
    <2> QED BY <2>1, <2>3, <2>4 DEF Labels
  <1> QED BY <1>1, <1>2, <1>3, <1>4, <1>5, <1>6, <1>7, <1>8, <1>9, <1>10
          DEF Next, Steps

-----------------------------------------------------------------------------
(* The theorems.                                                            *)
\* The inductive invariant holds however edges, characters and time-outs fall
\* between the statements of loop().
THEOREM RecorderInvariant == Spec => []IInv
PROOF
  <1>1. Init => IInv
    <2> SUFFICES ASSUME Init PROVE IInv OBVIOUS
    <2>1. Types BY TypesInit
    <2>2. Control /\ Labels BY DEF Init, Control, Labels
    <2>3. Bounds BY RecorderAssumption DEF Init, Bounds
    <2> QED BY <2>1, <2>2, <2>3 DEF IInv
  <1>2. IInv /\ [Next]_vars => IInv'
        BY TypesStep, ControlStep, BoundsStep, LabelsStep DEF IInv
  <1> QED BY <1>1, <1>2, PTL DEF Spec

\* The array is overrun by two entries at most: however the edges fall between
\* the statements of loop() and the two byte stores that clear count.
THEOREM OverrunTheorem == Spec => []OverrunBounded
PROOF
  <1>1. IInv => OverrunBounded BY DEF IInv, Bounds, OverrunBounded
  <1> QED BY <1>1, RecorderInvariant, PTL

\* With a quiet start every printed entry is of this run and has its own level.
THEOREM LabelsTheorem == Spec => []LabelsTrueIfQuiet
PROOF
  <1>1. ASSUME IInv PROVE LabelsTrueIfQuiet
    <2> SUFFICES ASSUME quiet, pc = "print", x < count
                 PROVE  x \in fresh /\ samples[x] = startState
        BY DEF LabelsTrueIfQuiet
    <2>1. x \in Nat /\ count \in Nat BY <1>1 DEF IInv, Types
    <2>2. x \in Entries BY <1>1, <2>1, RecorderAssumption DEF IInv, Bounds, Entries
    <2>3. LevelOf(x) = startState BY DEF LevelOf
    <2> QED BY <1>1, <2>2, <2>3 DEF IInv, Labels
  <1> QED BY <1>1, RecorderInvariant, PTL

\* While the samples are printed no step changes their number or any of them:
\* the interrupt is off from detachInterrupt() to the next attachInterrupt().
THEOREM SnapshotTheorem == Spec => PrintsASnapshot
PROOF
  <1>1. ASSUME IInv, [Next]_vars
        PROVE  [pc = "print" => UNCHANGED <<count, samples>>]_vars
    <2> SUFFICES ASSUME pc = "print", ~UNCHANGED vars
                 PROVE  UNCHANGED <<count, samples>> OBVIOUS
    <2>1. ~attached BY <1>1 DEF IInv, Types, Control
    <2>2. CASE Edge BY <2>1, <2>2 DEF Edge
    <2>3. CASE PrintSample BY <2>3 DEF PrintSample, isr
    <2>4. CASE PrintDone BY <2>4 DEF PrintDone
    <2> QED BY <1>1, <2>2, <2>3, <2>4
            DEF Next, Steps, ReadPin, Tick, StopChar, Attach, ZeroByte, SetLast, Run,
                StopRecording, Detach
  <1> QED BY <1>1, RecorderInvariant, PTL DEF Spec, PrintsASnapshot
=============================================================================
