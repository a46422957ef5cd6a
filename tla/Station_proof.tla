--------------------------- MODULE Station_proof ----------------------------
(* Proofs about the alert protocol of the station, for both builds, every   *)
(* holding time and any number of lost connections.                         *)
EXTENDS Station, TLAPS

\* From detachInterrupt() to attachInterrupt(), and before the first one, the
\* motion interrupt is off; everywhere else it is on.
PirOff ==
    \/ ALERT_EVENT = "RESET"
    \/ pc \in {"setup", "setup_pir", "alert_wakeup", "alert_wait", "mark",
               "send100", "send0", "alert_sleep", "attach"}
PirInStep == pirOn <=> ~PirOff

\* What loop() may rely on about ALERT_EVENT where it does not test it.
AlertInStep ==
    /\ pc \in {"setup", "setup_pir", "send0", "alert_sleep", "attach"}
            => ALERT_EVENT = "NOT_SET"
    /\ pc \in {"detach", "alert_wakeup", "alert_wait", "mark"}
            => ALERT_EVENT = "SET"
    /\ pc = "send100" => ALERT_EVENT = "RESET"

\* The alert has been written and not yet cleared exactly while it is held.
ToldInStep ==
    told = 100 <=> \/ ALERT_EVENT = "RESET" /\ pc # "send100"
                   \/ pc = "send0"

\* The radio is on wherever no frame and no alert is being handled.
RadioInStep ==
    ALERT_EVENT = "NOT_SET" /\ pc \in {"setup_pir", "top", "alert", "held"}
        => rfOn

IInv == TypeOK /\ PirInStep /\ AlertInStep /\ ToldInStep /\ RadioInStep
        /\ MotionNotForgotten

LEMMA InitInv == Init => IInv
  <1> SUFFICES ASSUME Init PROVE IInv
    OBVIOUS
  <1>1. 0 \in 0 .. MaxDrops /\ 0 \in 0 .. HOLD + 1
    BY StationAssumption
  <1>2. POWER_SAVE \in BOOLEAN
    BY StationAssumption DEF Init
  <1>3. TypeOK
    BY <1>1, <1>2 DEF Init, TypeOK, Statements
  <1>4. PirInStep /\ AlertInStep /\ ToldInStep /\ RadioInStep /\ MotionNotForgotten
    BY DEF Init, PirInStep, PirOff, AlertInStep, ToldInStep, RadioInStep,
       MotionNotForgotten
  <1> QED
    BY <1>3, <1>4 DEF IInv

\* The interrupt, the radio, the network and the clock.
LEMMA EnvironmentInv ==
    ASSUME IInv,
           pirhandler \/ FrameArrives \/ Connected \/ Dropped \/ Tick
    PROVE  IInv'
  <1> USE StationAssumption
      DEF IInv, TypeOK, Statements, PirInStep, PirOff, AlertInStep, ToldInStep,
          RadioInStep, MotionNotForgotten, rf, alert, net, log
  <1>1. CASE pirhandler
    BY <1>1 DEF pirhandler, disableRF
  <1>2. CASE FrameArrives
    BY <1>2 DEF FrameArrives
  <1>3. CASE Connected
    BY <1>3 DEF Connected
  <1>4. CASE Dropped
    BY <1>4 DEF Dropped
  <1>5. CASE Tick
    BY <1>5 DEF Tick
  <1> QED
    BY <1>1, <1>2, <1>3, <1>4, <1>5

\* setup() and the part of loop() that handles frames.
LEMMA FrameStepsInv ==
    ASSUME IInv,
           \/ SetupRF \/ SetupPir \/ NoFrame \/ TakeFrame
           \/ Corrupted \/ Correct \/ Upload \/ UploadDone
    PROVE  IInv'
  <1> USE DEF IInv, TypeOK, Statements, PirInStep, PirOff, AlertInStep,
          ToldInStep, RadioInStep, MotionNotForgotten, rf, alert, net, log, At
  <1>1. CASE SetupRF
    BY <1>1 DEF SetupRF, enableRF
  <1>2. CASE SetupPir
    BY <1>2 DEF SetupPir
  <1>3. CASE NoFrame
    BY <1>3 DEF NoFrame
  <1>4. CASE TakeFrame
    BY <1>4 DEF TakeFrame, disableRF
  <1>5. CASE Corrupted
    BY <1>5 DEF Corrupted, enableRF
  <1>6. CASE Correct
    BY <1>6 DEF Correct
  <1>7. CASE Upload
    BY <1>7 DEF Upload
  <1>8. CASE UploadDone
    BY <1>8 DEF UploadDone, enableRF
  <1> QED
    BY <1>1, <1>2, <1>3, <1>4, <1>5, <1>6, <1>7, <1>8

\* The part of loop() that handles the alert.
LEMMA AlertStepsInv ==
    ASSUME IInv,
           \/ NoAlert \/ AlertSeen \/ Detach \/ MarkHeld \/ SendAlert
           \/ StillHeld \/ ClearAlert \/ SendClear \/ Attach \/ AlertDone
    PROVE  IInv'
  <1> USE StationAssumption
      DEF IInv, TypeOK, Statements, PirInStep, PirOff, AlertInStep, ToldInStep,
          RadioInStep, MotionNotForgotten, rf, alert, net, log, At
  <1>1. CASE NoAlert
    BY <1>1 DEF NoAlert
  <1>2. CASE AlertSeen
    BY <1>2 DEF AlertSeen
  <1>3. CASE Detach
    BY <1>3 DEF Detach
  <1>4. CASE MarkHeld
    BY <1>4 DEF MarkHeld
  <1>5. CASE SendAlert
    <2>1. 0 \in 0 .. HOLD + 1
      BY StationAssumption
    <2>2. field3' \in {0, 100} /\ told' = 100 /\ age' = 0
      BY <1>5 DEF SendAlert, writeAlert
    <2>3. TypeOK'
      BY <1>5, <2>1, <2>2 DEF SendAlert, writeAlert
    <2>4. (PirInStep /\ AlertInStep /\ ToldInStep /\ RadioInStep
             /\ MotionNotForgotten)'
      BY <1>5, <2>2 DEF SendAlert, writeAlert
    <2> QED
      BY <2>3, <2>4
  <1>6. CASE StillHeld
    BY <1>6 DEF StillHeld
  <1>7. CASE ClearAlert
    BY <1>7 DEF ClearAlert
  <1>8. CASE SendClear
    BY <1>8 DEF SendClear, writeAlert
  <1>9. CASE Attach
    BY <1>9 DEF Attach
  <1>10. CASE AlertDone
    BY <1>10 DEF AlertDone, enableRF
  <1> QED
    BY <1>1, <1>2, <1>3, <1>4, <1>5, <1>6, <1>7, <1>8, <1>9, <1>10

\* Sleeping and waking the WiFi moves loop() on and changes nothing else here.
LEMMA WifiStepsInv == ASSUME IInv, WAKEUP_WIFI \/ SLEEP_WIFI PROVE IInv'
  <1> USE DEF IInv, TypeOK, Statements, PirInStep, PirOff, AlertInStep,
          ToldInStep, RadioInStep, MotionNotForgotten, rf, alert, net, log, At
  <1>1. CASE WakeModem("wakeup", "wait") \/ WakeModem("alert_wakeup", "alert_wait")
    BY <1>1 DEF WakeModem
  <1>2. CASE \/ Awake("wakeup", "wait", "upload")
             \/ Awake("alert_wakeup", "alert_wait", "mark")
    BY <1>2 DEF Awake
  <1>3. CASE SleepWifi("sleep", "rf_on") \/ SleepWifi("alert_sleep", "attach")
    BY <1>3 DEF SleepWifi
  <1> QED
    BY <1>1, <1>2, <1>3 DEF WAKEUP_WIFI, SLEEP_WIFI

\* IInv holds in every reachable state.
LEMMA Invariance == Spec => []IInv
  <1>1. ASSUME IInv, [Next]_vars PROVE IInv'
    <2>1. CASE Next
      BY <1>1, <2>1, EnvironmentInv, FrameStepsInv, AlertStepsInv, WifiStepsInv
         DEF Next, Loop
    <2>2. CASE UNCHANGED vars
      BY <1>1, <2>2 DEF vars, IInv, TypeOK, PirInStep, PirOff, AlertInStep,
         ToldInStep, RadioInStep, MotionNotForgotten
    <2> QED
      BY <1>1, <2>1, <2>2
  <1> QED
    BY InitInv, <1>1, PTL DEF Spec

\* The state stays well-formed, for every holding time.
THEOREM TypeCorrect == Spec => []TypeOK
  BY Invariance, PTL DEF IInv

\* However motions fall between the statements of loop(), 100 and 0 are written
\* to the channel in turns.
THEOREM AlertsInTurns == Spec => []AlertsAlternate
  <1>1. IInv => AlertsAlternate
    BY DEF IInv, TypeOK, ToldInStep, AlertsAlternate
  <1> QED
    BY Invariance, <1>1, PTL

\* A motion is never overwritten before it has been written as an alert.
THEOREM MotionIsKept == Spec => []MotionNotForgotten
  BY Invariance, PTL DEF IInv

\* When loop() starts over with no alert pending, the radio is enabled.
THEOREM RadioIsBack == Spec => []RadioNotLeftOff
  <1>1. IInv => RadioNotLeftOff
    BY DEF IInv, RadioInStep, RadioNotLeftOff
  <1> QED
    BY Invariance, <1>1, PTL
=============================================================================
