------------------------------- MODULE Station ------------------------------
(* The weather and alarm station (sketch_jan07a, and with POWER_SAVE off    *)
(* ESp8266_ds18s0_rflibr_thingspeak_ota): loop() uploads the temperatures   *)
(* of every radio frame to a ThingSpeak channel and turns the motion sensor *)
(* into an alert, field 3 = 100, that is held for ten seconds and then      *)
(* cleared, field 3 = 0.  pirhandler() interrupts loop() at any point.      *)
(*                                                                          *)
(* The RF433 library and the WiFi stack are not in the repository.  From    *)
(* the way the sketch uses them: a frame is received only while the radio   *)
(* is enabled and the last one was handled, enableRF() starts over, and a   *)
(* write reaches the channel only while the WiFi is connected.              *)
EXTENDS Naturals

CONSTANTS
    Builds,         \* the builds looked at: with POWER_SAVE_ENABLE or without
    HOLD,           \* the 10000 ms an alert is held, in ticks
    MaxDrops        \* bound: spontaneous losses of the WiFi connection

ASSUME StationAssumption ==
    Builds \subseteq BOOLEAN /\ HOLD \in Nat /\ MaxDrops \in Nat

VARIABLES
    POWER_SAVE,                 \* the build that runs; never changes
    ALERT_EVENT, pirOn,         \* the alert, and the motion interrupt
    rfOn, received,             \* RF_SENSOR
    wifi, drops,                \* "up", "down": trying to connect, "off"
    age,                        \* millis() - TIME1, saturating above HOLD
    pc,                         \* next statement of loop()
    field3,                     \* what the channel shows
    told,                       \* history: the last alert value written
    motion                      \* history: a motion not yet written

vars == <<ALERT_EVENT, pirOn, rfOn, received, wifi, drops, age, pc, field3,
          told, motion, POWER_SAVE>>
rf    == <<rfOn, received>>
alert == <<ALERT_EVENT, pirOn, motion>>
net   == <<wifi, drops>>
log   == <<field3, told, POWER_SAVE>>

Init ==
    /\ POWER_SAVE \in Builds
    /\ ALERT_EVENT = "NOT_SET" /\ pirOn = FALSE /\ motion = FALSE
    /\ rfOn = FALSE /\ received = FALSE
    /\ wifi = "down" /\ drops = 0 /\ age = 0
    /\ pc = "setup"
    /\ field3 = 0 /\ told = 0

enableRF  == rfOn' = TRUE /\ received' = FALSE
disableRF == rfOn' = FALSE /\ UNCHANGED received

\* ThingSpeak.writeField(..., 3, v, ...); its result is not looked at.
writeAlert(v) ==
    /\ field3' = IF wifi = "up" THEN v ELSE field3
    /\ told' = v
    /\ UNCHANGED POWER_SAVE

-----------------------------------------------------------------------------
(* The interrupt, the radio, the network and the clock.                     *)

pirhandler ==
    /\ pirOn
    /\ disableRF
    /\ ALERT_EVENT' = "SET"
    /\ motion' = TRUE
    /\ UNCHANGED <<pirOn, net, age, pc, log>>

FrameArrives ==
    /\ rfOn /\ ~received
    /\ received' = TRUE
    /\ UNCHANGED <<rfOn, alert, net, age, pc, log>>

Connected ==
    /\ wifi = "down"
    /\ wifi' = "up"
    /\ UNCHANGED <<drops, rf, alert, age, pc, log>>

Dropped ==
    /\ wifi = "up" /\ drops < MaxDrops
    /\ wifi' = "down" /\ drops' = drops + 1
    /\ UNCHANGED <<rf, alert, age, pc, log>>

Tick ==
    /\ age <= HOLD
    /\ age' = age + 1
    /\ UNCHANGED <<rf, alert, net, pc, log>>

-----------------------------------------------------------------------------
(* setup() and loop(), split where the interrupt makes a difference.        *)

At(here, next) == pc = here /\ pc' = next

\* setup() waits for the network, then enables the radio and the interrupt.
SetupRF ==
    /\ wifi = "up"
    /\ At("setup", "setup_pir")
    /\ enableRF
    /\ UNCHANGED <<alert, net, age, log>>

SetupPir ==
    /\ At("setup_pir", "top")
    /\ pirOn' = TRUE
    /\ UNCHANGED <<ALERT_EVENT, motion, rf, net, age, log>>

NoFrame ==
    /\ ~received
    /\ At("top", "alert")
    /\ UNCHANGED <<rf, alert, net, age, log>>

TakeFrame ==
    /\ received
    /\ At("top", "read")
    /\ disableRF
    /\ UNCHANGED <<alert, net, age, log>>

\* Above 100 degrees: the frame is dropped and the radio starts over.
Corrupted ==
    /\ At("read", "alert")
    /\ enableRF
    /\ UNCHANGED <<alert, net, age, log>>

Correct ==
    /\ At("read", IF POWER_SAVE THEN "wakeup" ELSE "upload")
    /\ UNCHANGED <<rf, alert, net, age, log>>

\* Mutant of WakeModem: the modem is not asked to connect.
WakeModemOnly(here, wait) ==
    /\ wifi # "up"
    /\ At(here, wait)
    /\ UNCHANGED <<wifi, drops, rf, alert, age, log>>
\* WAKEUP_WIFI: wake the modem if need be, then wait until connected.
WakeModem(here, wait) ==
    /\ wifi # "up"
    /\ At(here, wait)
    /\ wifi' = "down"
    /\ UNCHANGED <<drops, rf, alert, age, log>>

Awake(here, wait, next) ==
    /\ wifi = "up"
    /\ pc \in {here, wait} /\ pc' = next
    /\ UNCHANGED <<rf, alert, net, age, log>>

\* SLEEP_WIFI: nothing happens unless connected.
SleepWifi(here, next) ==
    /\ At(here, next)
    /\ wifi' = IF wifi = "up" THEN "off" ELSE wifi
    /\ UNCHANGED <<drops, rf, alert, age, log>>

\* setField twice and writeFields: the temperatures go out, or are lost.
Upload ==
    /\ At("upload", IF POWER_SAVE THEN "sleep" ELSE "rf_on")
    /\ UNCHANGED <<rf, alert, net, age, log>>

UploadDone ==
    /\ At("rf_on", "alert")
    /\ enableRF
    /\ UNCHANGED <<alert, net, age, log>>

NoAlert ==
    /\ ALERT_EVENT # "SET"
    /\ At("alert", "held")
    /\ UNCHANGED <<rf, alert, net, age, log>>

AlertSeen ==
    /\ ALERT_EVENT = "SET"
    /\ At("alert", "detach")
    /\ UNCHANGED <<rf, alert, net, age, log>>

\* Mutant of Detach: the motion interrupt stays on while the alert is held.
DetachForgotten ==
    /\ At("detach", IF POWER_SAVE THEN "alert_wakeup" ELSE "mark")
    /\ UNCHANGED <<alert, rf, net, age, log>>
Detach ==
    /\ At("detach", IF POWER_SAVE THEN "alert_wakeup" ELSE "mark")
    /\ pirOn' = FALSE
    /\ UNCHANGED <<ALERT_EVENT, motion, rf, net, age, log>>

\* Mutant of MarkHeld: the alert is not marked as held.
MarkForgotten ==
    /\ At("mark", "send100")
    /\ UNCHANGED <<ALERT_EVENT, pirOn, motion, rf, net, age, log>>
MarkHeld ==
    /\ At("mark", "send100")
    /\ ALERT_EVENT' = "RESET"
    /\ UNCHANGED <<pirOn, motion, rf, net, age, log>>

SendAlert ==
    /\ At("send100", "held")
    /\ writeAlert(100)
    /\ age' = 0
    /\ motion' = FALSE
    /\ UNCHANGED <<ALERT_EVENT, pirOn, rf, net>>

StillHeld ==
    /\ ~(ALERT_EVENT = "RESET" /\ age > HOLD)
    /\ At("held", "top")
    /\ UNCHANGED <<rf, alert, net, age, log>>

\* Mutant of ClearAlert: the alert is cleared as soon as it is looked at.
ClearAny ==
    /\ ALERT_EVENT # "NOT_SET" /\ age > HOLD
    /\ At("held", "send0")
    /\ ALERT_EVENT' = "NOT_SET"
    /\ UNCHANGED <<pirOn, motion, rf, net, age, log>>
ClearAlert ==
    /\ ALERT_EVENT = "RESET" /\ age > HOLD
    /\ At("held", "send0")
    /\ ALERT_EVENT' = "NOT_SET"
    /\ UNCHANGED <<pirOn, motion, rf, net, age, log>>

SendClear ==
    /\ At("send0", IF POWER_SAVE THEN "alert_sleep" ELSE "attach")
    /\ writeAlert(0)
    /\ UNCHANGED <<rf, alert, net, age>>

\* Mutant of Attach: motion is never looked for again.
AttachForgotten ==
    /\ At("attach", "rf_back")
    /\ UNCHANGED <<alert, rf, net, age, log>>
Attach ==
    /\ At("attach", "rf_back")
    /\ pirOn' = TRUE
    /\ UNCHANGED <<ALERT_EVENT, motion, rf, net, age, log>>

\* Mutant of AlertDone: the radio stays disabled.
AlertDoneSilent ==
    /\ At("rf_back", "top")
    /\ UNCHANGED <<rf, alert, net, age, log>>
AlertDone ==
    /\ At("rf_back", "top")
    /\ enableRF
    /\ UNCHANGED <<alert, net, age, log>>

WAKEUP_WIFI ==
    \/ WakeModem("wakeup", "wait")
    \/ Awake("wakeup", "wait", "upload")
    \/ WakeModem("alert_wakeup", "alert_wait")
    \/ Awake("alert_wakeup", "alert_wait", "mark")

SLEEP_WIFI == SleepWifi("sleep", "rf_on") \/ SleepWifi("alert_sleep", "attach")

Loop ==
    \/ SetupRF \/ SetupPir
    \/ NoFrame \/ TakeFrame \/ Corrupted \/ Correct \/ Upload \/ UploadDone
    \/ NoAlert \/ AlertSeen \/ Detach \/ MarkHeld \/ SendAlert
    \/ StillHeld \/ ClearAlert \/ SendClear \/ Attach \/ AlertDone
    \/ WAKEUP_WIFI \/ SLEEP_WIFI

Next == Loop \/ pirhandler \/ FrameArrives \/ Connected \/ Dropped \/ Tick

\* loop() is called for ever, the clock runs, a network that is asked for is
\* found in the end.  Nothing is assumed of motions and frames.
Spec == /\ Init /\ [][Next]_vars
        /\ WF_vars(Loop) /\ WF_vars(Connected) /\ WF_vars(Tick)

-----------------------------------------------------------------------------
Statements ==
    {"setup", "setup_pir", "top", "read", "wakeup", "wait", "upload",
     "sleep", "rf_on", "alert", "detach", "alert_wakeup", "alert_wait",
     "mark", "send100", "held", "send0", "alert_sleep", "attach", "rf_back"}

TypeOK ==
    /\ ALERT_EVENT \in {"NOT_SET", "SET", "RESET"} /\ pc \in Statements
    /\ {pirOn, rfOn, received, motion, POWER_SAVE} \subseteq BOOLEAN
    /\ wifi \in {"up", "down", "off"} /\ drops \in 0 .. MaxDrops
    /\ age \in 0 .. HOLD + 1 /\ {field3, told} \subseteq {0, 100}

\* 100 and 0 are written in turns: however the motion interrupt falls between
\* the statements of loop(), an alert is neither opened nor cleared twice.
AlertsAlternate ==
    (pc = "send100" => told = 0) /\ (pc = "send0" => told = 100)

\* A motion the interrupt has taken is on its way to the channel: no
\* assignment of loop() overwrites the "SET" before it was seen.
MotionNotForgotten ==
    motion => ALERT_EVENT = "SET" \/ pc = "send100"

\* With no alert pending the radio is on when loop() starts over: the PIR
\* interrupt that disables it always brings loop() to an enableRF().
RadioNotLeftOff == pc = "top" /\ ALERT_EVENT = "NOT_SET" => rfOn

\* Every motion is written as an alert, in power-save mode after the WiFi came
\* back, and every alert is cleared again.
MotionReported == motion ~> ~motion
AlertCleared == told = 100 ~> told = 0

\* Both sensors come back into service after every alert: the radio that the
\* motion interrupt disables, and the motion interrupt that loop() detaches.
SensorsComeBack == []<>rfOn /\ []<>pirOn

-----------------------------------------------------------------------------
\* Line 151 prints ALERT_EVENT_CLEARED after the write of 0: then the channel
\* shows 0, as long as the network itself never fails.
ClearedIsShown == pc \in {"alert_sleep", "attach"} => field3 = 0
=============================================================================
