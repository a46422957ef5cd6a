# TLA+ models of the Ard sketches

The repository is a collection of Arduino and ESP8266 sketches that grew
around one installation: a 433 MHz outdoor temperature sensor, an indoor
DS18x20, a motion sensor and an irrigation controller, reporting to Xively,
ThingSpeak and Blynk. Next to the sketches lie the libraries they use, almost
all of them third-party and unchanged. These modules model the sketches that
carry logic of their own, and three of the libraries: Time, ThingSpeak and
IRremote.

Check a module with `tlc -config X.cfg M`, a proof with `tlapm M.tla`.
`PROJECT.json` lists the runs, what every definition translates (`map`), the
hazards, the findings and the theorems.

## 1. Inventory

| Component | Source | State | Operations | Modules |
|---|---|---|---|---|
| Interrupt-driven RF receiver | `RF_RECEIVER_V2_WITH_INTERRUPTS` | ring of pulse lengths, two sync marks, `received`, `syncCount` | `handler()` (pin-change interrupt), `loop()` | RFReceiver, RFLink, FrameBox |
| Pin recorder | `sketch_jan26b` | sample array, `count`, `running`, `last` | `receiver()` (interrupt), `loop()` | PinRecorder |
| Weather and alarm station | `sketch_jan07a`, `ESp8266_ds18s0_rflibr_thingspeak_ota` | `ALERT_EVENT`, `TIME1`, radio and WiFi state | `loop()`, `pirhandler()` (interrupt), `SLEEP_WIFI()`, `WAKEUP_WIFI()` | Station |
| Time library | `libraries/Time-master/Time.cpp` | `sysTime`, `prevMillis`, `nextSyncTime`, `Status`, cached `tm` | `now()`, `setTime()`, `setSyncProvider()`, `setSyncInterval()`, `breakTime()`, `makeTime()` | SystemClock, NtpClock, Calendar |
| Irrigation timer | `timers` | three valve times, window, interval, `next_minutes`, `firstTime`; packets in the socket | `setup()`, `loop()`, `sequential_timers()`, six `BLYNK_WRITE`s, `getNtpTime()` | Irrigation, NtpClock |
| NTP clock | `NTPClient_update` | packets in the socket | `setup()`, `getNtpTime()`, `sendNTPpacket()` | NtpClock |
| ThingSpeak client | `libraries/ThingSpeak/src/ThingSpeak.h` | fields set for the next update, the connection, the last status | `setField`, `writeField`, `writeFields`, `writeRaw`, `readRaw`, ... | ThingSpeakClient |
| IRremote receiver | `Arduino-IRremote-master`, `ir_receiver` | `rcvstate`, `timer`, `rawbuf`, `rawlen` | timer interrupt, `enableIRIn()`, `decode()`, `resume()`; the send functions and decoders | IRReceiver, IRCodes |
| Polling receiver | `sketch_feb03a` | capture buffer, `bitreceived` | busy-wait capture, search for sync, parity, sensor id | PollReceiver |
| Earlier receivers and stations | `RF_RECEIVER`, `XIVELY_RF_DS1820`, `sketch_apr06a`, `sketch_jan24c`, `rf_library*`, ... | as above | as above | none: copies with other constants or less logic |
| Bridges | `BT2`, `BToth_TCP_client`, `UDPSendReceiveString`, ... | a connection | byte loops between two channels | none |
| Experiments, small examples, vendored libraries | the rest | | | none, see section 8 |

How they interact:

* Interrupt and `loop()` share plain global variables. There is no lock; the
  receiver protects its ring by a flag and by detaching the interrupt, the
  recorder by the flag `running`, the station by detaching the motion
  interrupt while an alert is held.
* The station drives the radio through the RF433 library (not in the
  repository): `enableRF()`, `disableRF()`, the public `received`.
* The irrigation sketch and the NTP sketch hand `getNtpTime` to the Time
  library, which calls it back from inside `now()`: reading the hour may
  block for 1.5 s and set the clock.
* The stations write their temperatures and alerts through the ThingSpeak
  client, one connection for each call, and mostly ignore the status.
* The infrared receiver samples its pin in a timer interrupt and hands a
  finished code to `loop()` through `rcvstate`; `resume()` hands it back.
* Blynk delivers the settings inside `Blynk.run()`, never concurrently with
  the rest of `loop()`.

What is hard here: interrupts at any statement (receiver, recorder, station,
infrared), 16-bit stores torn by an interrupt (recorder), ring indexes and
wrapping clocks, a clock that jumps between two readings of one decision
(irrigation), time servers' answers that are late, doubled or to an older
request, WiFi that is gone when a result is to be written (station), requests
whose fate is unknown after a time-out (ThingSpeak), measuring errors under
eleven decoders that must not take each other's codes (IRremote), and waits with
no time-out. No sketch has a test. What correctness means for each component is
the list of its properties in section 4.

## 2. The modules

| Module | What it is |
|---|---|
| `FrameBox` | abstract: a box for one captured frame; deliver, report once, release |
| `RFReceiver` | the receiver; `Box` is its refinement mapping to `FrameBox` |
| `RFLink` | RFReceiver composed with the sensor and with noise |
| `RFReceiver_proof` | the receiver's inductive invariant and theorems, and the safety part of the refinement; then the invariant that ties the line of `RFLink` to the ring, and its theorems |
| `PinRecorder` | the recorder |
| `PinRecorder_proof` | its inductive invariant and theorems |
| `Station` | the station, both builds (`POWER_SAVE`) |
| `Station_proof` | its inductive invariant and theorems |
| `SystemClock` | `now()` and the synchronisation |
| `NtpClock` | SystemClock with `getNtpTime()` for a provider and a network; implements `SystemClock` |
| `NtpClock_proof` | the invariants of `SystemClock` and the arithmetic of wrapping counters; the refinement, and how far the clock is from the true time |
| `Calendar` | `breakTime()` and `makeTime()` as operators, with a calendar walked day by day as reference |
| `Irrigation` | the watering schedule on an arbitrary, resynchronised clock |
| `Irrigation_proof` | its inductive invariant and theorems |
| `ThingSpeakClient` | the client, one connection and request for each call, and a server that may fail anywhere |
| `ThingSpeakClient_proof` | its inductive invariant and theorems |
| `IRReceiver` | the timer interrupt of IRremote against `enableIRIn()`, `decode()`, `resume()` |
| `IRReceiver_proof` | its inductive invariant and theorems |
| `LineCode` | what `IRCodes` and `PollReceiver` share: sent, heard, result |
| `IRCodes` | the send functions, the measuring and the decoders of IRremote as operators |
| `PollReceiver` | capture, search, identity and parity of `sketch_feb03a` as operators |
| `Algorithms_proof` | the theorems about `Calendar`, `IRCodes` and `PollReceiver`, in this order |
| `MC*` | instances for TLC; `MCLineCodes` is that of `IRCodes` and `PollReceiver` |

A definition whose comment begins with "Mutant of" is the changed form of the
definition below it, such as a forgotten reset or an off-by-one. No module
uses it; each shows that a property would notice that mistake.

### RFReceiver

One action for each path of `handler()`: `Ignore` (a frame is held), `Data`,
`FirstSync`, `SecondSync` (accepting or resetting). One action for each
statement of `loop()` that touches shared state. `handler()` is one step
because interrupts are masked in it; it can fall between any two statements of
`loop()` while `attached`. Points a reader of the code may miss:

* Pulse lengths are reduced to the classes of the code's own windows (`sep`,
  `sync`, `one`, `zero`, and `other`). `isSync()` also samples the pin, some
  time after the edge: its value is arbitrary.
* `late`: `handler()` returns before it updates `lastTime` while a frame is
  held, and gets no edge while detached. The next duration then spans at least
  the `delay(1000)`, hence `other`.
* `bitreceived` starts uninitialised, hence any character, the NUL byte
  included, which ends `String(Str)` early (`charAt`).
* `Str[]` is a sequence: the write behind `Str[32]` is recorded, not its
  effect on the stack. The closing sync writes it with every frame.
* `since` is a history variable.
* The shared variables are not `volatile`. The model takes the accesses of
  `loop()` in program order, which the calls of `detachInterrupt()`, `delay()`
  and `attachInterrupt()`, opaque to the compiler, enforce where it matters.

### RFLink

The sensor is not in the repository. What it sends is what `handler()` and
its comments expect: 32 pairs of separator and data pulse, then separator and
sync, repeated. `Disturb` replaces, merges or inserts a pulse and leaves the
sensor anywhere in its pair. While a frame is held the pulses sent do not
matter (`handler()` ignores them), so the sensor is stopped there and set to an
arbitrary point when the interrupt is attached again (`Rejoin`).

### PinRecorder

`receiver()` may run between any two statements of `loop()`, and between the
two byte stores of `count = 0` (`ZeroByte`), in either order, since `count` is
16 bits wide on the 8-bit processor. While detached an edge sets the hardware's
flag, which `attachInterrupt()` does not clear. `samples` has two entries more
than the array, so that overruns can be seen. Lengths are reduced to which
level they measured. Edges are handled one at a time: an edge during
`receiver()` is not modelled.

### Station

`loop()` split at every point where `pirhandler()` makes a difference;
`POWER_SAVE` selects the build (`POWER_SAVE_ENABLE` in `sketch_jan07a`, off in
the OTA sketch). `ALERT_EVENT == "SET"` compares pointers to string literals,
which the compiler merges, so it is modelled as a comparison of values. From
outside the repository: `enableRF()` makes the radio ready for a new frame,
a frame arrives only while it is enabled, a ThingSpeak write takes effect when
the WiFi is up. `told` and `motion` are history variables.

### SystemClock and Calendar

`CatchUp` is the `while` of `now()` in one step: it is the integer part of
`gap` in seconds. `Answer`/`NoAnswer` are separate from it, so the clock runs on
while the provider blocks. In `Calendar` a `time_t` is a day and a second of the
day, which TLC's integers can hold to the end of the unsigned 32-bit range, 7
February 2106 at 06:28:15. The reference is a clock and a calendar that are walked
second by second (`NextSecond`), or a whole day at a time (`NextDay`).

### Irrigation

`loop()` is split at every reading of the clock, and `Resync` may set the clock
between two of them, forward or back, which is what `now()` does when it is due
to ask NTP. `Valve` is one `digitalWrite()` of `sequential_timers()` with its
`delay()`. `NewSecond` and `SetDisplay` are the two readings of
`if (now() != prevDisplay) prevDisplay = now()`: the second kept need not be the
one compared. `Tick` bounds how long a pass of `loop()` takes without its delays
(`MaxLag`, at most a quarter of a minute; the longest pass asks NTP, which is a
second and a half and a name lookup). The assumption on `Intervals` (1 .. 59 in the
sketch's units) is what the schedule is meant for: the sketch checks nothing,
and 0 waters again within the minute while 120 sets a minute that never comes.
What clock `Resync` may set is the subject of `NtpClock`. `dry`, `changes`, `age`
and `steady` are history variables: how long the valves have been closed inside
the window, and how often the clock or the window was set meanwhile.

### NtpClock

EXTENDS `SystemClock` and fills in its provider. `waits` selects the sketch:
`timers.ino` repeats `setSyncProvider()` until the clock is set,
`NTPClient_update` goes on. `getNtpTime()` is `Flush` (discard old packets),
`sendNTPpacket` (when `hostByName()` has returned), then `Receive` for each
packet or `TimeOut` after `WAIT`. A packet is the tick at which the server wrote
it, or `Short` for one of less than 48 bytes; requests and answers are lost,
delayed up to `LIFE`, reordered, and delivered twice. `truth` is the true time,
from which the server answers. Points to know:

* Nothing in the code matches an answer to its request: any packet that arrives
  after `Flush` counts. `NeverAhead` and `BehindByDelay` say what that costs.
* Time passes for `getNtpTime()` only while the socket is empty: its loop polls
  every few microseconds.
* `Delay` asks for a second at least since the last whole second, which allows
  more than `delay(1000)` does.
* In `NTPClient_update` a first attempt that fails is not repeated for a whole
  interval: `setSyncInterval()` puts the next one an hour ahead.
* The wrap of the 32-bit seconds in 2106 is left out. So is a packet of no bytes,
  for which `parsePacket()` returns 0: it would end `Flush` before the socket is
  empty. So are packets from anyone but the server, and a server that sends stamp 0
  because it has no time itself: `getNtpTime()` would take both.

### ThingSpeakClient

One action for each function of the API that keeps state or opens a connection
(the overloads that convert an `int` or `float` first are the same action),
then the steps of `writeRaw()` and `readRaw()`: connect by name, by address,
send, wait for the reply. The sketches use the default server, hence the two
attempts. The server stores or rejects a request whenever it likes, also after
the client's time-out; replies come late or cut off. `calls`, `wanted` and
`asked` are history variables. `ERR_NOT_INSERTED` may be returned for an update
that was stored: a reply cut behind its head reads as entry number 0. Field
numbers, lengths, text formatting and the parsing of the reply's head are left out.
`Abort` stands for the `print()`s that fail before the request is complete. With
some network clients the last one (line 894) may fail although the body has gone
out, and the update is then stored after `ERR_UNEXPECTED_FAIL`; the model takes
a failed `print()` for one that sent nothing.

### IRReceiver

`ISR` is one sample of the pin, every 50 us: a step of its own for each state.
`loop()` is split at every access to `irparams`, including the two assignments
of `resume()` and of `enableIRIn()`. Two statements that follow each other
directly see one interrupt between them at most; printing, and the decoders,
any number. Entries are reduced to what they measured (gap, mark, space), so
whether a decoder knows the code is arbitrary, but for `decodeHash()`, which
takes anything of six entries and more. `irparams` is `volatile` in the source.

### LineCode, IRCodes and PollReceiver

Algorithms, checked on all inputs of a family: a signal is sent, measured with
some error (`IRReceive`, `Capture`) and decoded (`IRDecode`, `Search`).

`IRCodes` has the send functions as sequences of marks and spaces in
microseconds, `Measured` as the ticks the interrupt counts for them, and the
eleven decoders in the order of `decode()`. Loops over the buffer are operators:
`Leading` is "as long as the pair matches", `levels` is `getRClevel()` called to
the end. LG has decoder but no send function; its sender mirrors the decoder.
A code comes after any silence: `Gap` is what the 16-bit timer is left with, and
below `GAP_TICKS` nothing is recorded. Sony's and Sanyo's first test takes a gap
below 500 or 800 ticks (25 or 40 ms) for a double click, whatever the code, if it has
26 entries (`Doubled`). `Measured` has an excess and a phase for each entry, by
patterns that are repeated along the recording. Sanyo reports one bit more than it decoded, and Panasonic and JVC
look behind the end of a short recording (`Stales`: what is left there).

`PollReceiver` has a buffer cut from the sensor's repeated frame with at most
one pulse disturbed. A recorded length outside every window is `?`, one that is
not recorded at all is `out`. `captured_data` has no room for a NUL behind its
33 characters; what the `String` made of it reads behind them is left out.
`FrameIsFound` has a condition, `IdentityOnce`: a payload may hold the identity
again, and a bit before it that is disturbed into a sync then begins a frame whose
parity may be right. The payload 001111110100000 is one, with its first bit disturbed.

## 3. Runs and bounds

| Run | States | Bounds and why they are enough |
|---|---|---|
| rf_receiver | 413 000 | ring of 6, frame of 4 pulses (one bit and the sync pair): every position of the marks relative to the end of the ring, all lapping, all interleavings with `loop()`. Lengths are the four windows; `other` behaves like a data pulse that fits none, occurs through `late`: no run sends it |
| rf_link | 1 014 000 | ring of 8, frames of two bits, two disturbed pulses anywhere: enough for a false first sync, a false second one, or a frame cut at either end. Zeros and ones are both sent by the sensor; noise sends sep, sync or one |
| pin_recorder | 624 000 | 3 samples and bytes of 3 values: as with 256 and 256, the array is full just when `count` carries into its high byte (a byte two larger than the array is excluded, see section 6). Any number of recordings |
| station | 4 100 | both builds, an alert held for two ticks, two WiFi losses: before and after each other, and on either side of the alert |
| ntp_clock | 5 722 000 | 2 ticks a second, `millis()` wraps after 11, so the wrap falls inside a second, as 2^32 is no multiple of 1000; 18 ticks are more than one wrap and three intervals; a packet lives 2 ticks and `getNtpTime()` waits 3, so that an answer can miss its request and meet the next; two packets in the socket, copies included |
| calendar | 607 000 | every day of the unsigned 32-bit `time_t`, 1970 to 2106, 2100 and the last, partial day included, at ten times of the day, which lie at the edges of minutes, hours and half days and at the last second of the range; the first and the last day second by second |
| irrigation | 1 511 000 | day of 3 hours of 4 minutes of 4 ticks, which is the shortest minute with passes of up to one tick; one number written, one resynchronisation (by 1 or 6 ticks, or back by one): the valve sequence crosses minutes, hours and the end of the window, and the clock jumps over the minute to water in. `dry` reaches 24 ticks with one change, more than the 20 of an hour and a minute |
| ir_receiver | 6 800 | a buffer of 4, so that a code is short, exact or cut off; a gap of 4 ticks; a timer that wraps after 9, inside a long silence |
| line_codes | 252 000 | sizes of the source. Values are the 32 blocks of five bits repeated, which puts every neighbourhood of bits everywhere; marks 50 or 150 us too long (the library assumes 100), samples at either end of a tick, each the same throughout or mixed from edge to edge; silences that are recorded as the longest gap, as 499, 500 and 799 ticks, and one that is not recorded; radio frames of the full 33 pulses in a buffer of 155, every start and every single disturbance, for two payloads and the one that holds the identity again |
| thingspeak | 144 000 | two fields and three calls: a late request of one call meets the next one, and a third follows |

Deadlock is checked but in `calendar`, whose walk ends on the last day,
`ntp_clock`, whose true time ends at its bound, `line_codes`, where a code is
decoded once, and `thingspeak`, whose calls are bounded. Of the two
violation runs `ir_gap` uses the bounds of `ir_receiver`; `station_cleared_shown`
needs one build (`POWER_SAVE`), an alert held for one tick and no WiFi loss.

## 4. What the passing runs show

* **Receiver.** `Handoff`: `loop()` works on the ring only while `received`
  is set, and gives it back clean. `FrameIntact`: a captured frame spans 66
  slots and ends in the sync pair until it is given back. `FrozenWhileHeld`: no
  step touches ring or marks meanwhile. `MarkKept`: the mark of a first sync
  is where its pulses began, whatever `loop()` reset in between.
  `DecodeInStep`: the decoding loop hits `syncIndex2` exactly. `ListensAgain`:
  it always returns to listening. `ImplementsBox`: all of it together
  implements the one-frame box, with the value read as the box defines it.
* **Link.** `TwoFramesSuffice`: three clean syncs in a row always end in a
  capture, whatever noise had set before. `ReadsWhatWasSent`: a clean frame is
  read as sent. `GoodFramesAreHeard`: this goes on for ever.
* **Recorder.** `OverrunBounded`: writes reach at most two entries behind the
  array. `LabelsTrueIfQuiet`: with a quiet pin during start-up all entries and
  labels are right. `PrintsASnapshot`, `RecordingEnds`.
* **Station.** `AlertsAlternate`: alert and clearing are written in turns.
  `MotionNotForgotten`: no assignment of `loop()` loses a motion.
  `RadioNotLeftOff`, `SensorsComeBack`: radio and motion sensor return to
  service. `MotionReported`, `AlertCleared`: after every motion
  `writeField()` is called with 100, and then with 0, through WiFi losses and
  sleep. Whether the channel gets it is another question: see `ClearedIsShown`.
* **Clock.** `TimeConserved`: no tick is lost or counted twice. `SyncAhead`:
  after `now()` the next attempt lies in the future. `BreaksToDate`,
  `MakesTimeAgain`: both conversions are right, date and time of day, up to the
  last second of the range.
  `ImplementsClock`: `getNtpTime()` on any network is a provider as the Time
  library asks for. `NeverAhead`: no answer of the server, late, doubled
  or to an earlier request, puts the clock ahead of the true time. `BehindByDelay`: it is behind by less than a
  packet's life, the name lookup and a second.
* **Irrigation.** `EveryInterval`: on one clock and one setting, watering
  starts on time. `AnHourPerChange`: inside the window the valves stay closed for an
  hour and a minute at most, and as long again each time that the clock or the
  window is set: such a change may jump over the minute to water in, which is not
  made up for. `ValvesNested`: valves close in reverse order. `WatersAgain`.
* **ThingSpeak.** `StatusIsTrue`: success means that just the fields set for this
  update are stored; a failure to connect, to send or to authenticate that
  nothing is or will be. `ClosedWhenIdle`: every way out closes the connection.
* **Infrared.** `TypeOK`: no write outside `rawbuf`. `CodeKept`: a code is left
  alone, and keeps the length read, from the test of `rcvstate` to `resume()`.
  `StartsAfterGap`: no recording begins inside a code. `ReadyAgain`: the receiver
  always leaves `STOP` with room in the buffer. `SentIsDecoded`: every code is
  decoded as what it is; none of the decoders tried before its own takes it. A code
  other than NEC with 26 entries or more is excepted when the gap before it was
  recorded as less than 800 ticks (for SONY 500): it becomes a repeat of SANYO. A
  silence of 40 ms to 3.27 s is never recorded so. After 3.28 s the timer has
  wrapped, and in each further 3.28 s there are 35 ms in which a code is taken for
  a repeat, and 5 ms in which it is not recorded at all.
* **Polling receiver.** `FrameIsFound`: the frame is found wherever the recording
  starts and whichever pulse is wrong. A pulse that is lost is excepted: the
  bits move up, the closing sync repeats the last one, and the parity is right
  again if the lost bit was equal to it, so that a wrong temperature passes. So
  is a payload in which the identity can be read once more.

Fairness: `loop()` (each of its statements) is weakly fair, since the core
calls it for ever and interrupts only delay it; so are the clock (`Tick`) and,
in Station, `Connected`: a network that is asked for is found in the end, which
the wait in `WAKEUP_WIFI()` itself relies on. In RFLink the sensor repeats its
frame for ever. No fairness is assumed of edges, motions, frames, characters,
noise, losses, samples of the infrared pin or settings. `NtpClock`,
`ThingSpeakClient` and the algorithms state safety only: that an answer ever
comes is in the hands of the network.

## 5. Where code and comments disagree

Two are shown by runs:

1. `ClearedIsShown`: `ALERT_EVENT_CLEARED` is printed while the write was lost:
   a frame uploaded while the alert is held puts the WiFi to sleep, and nothing
   wakes it for the write of 0.
2. `FirstIsGap`: "First entry is the SPACE between transmissions". When the
   timer interrupt falls between the two assignments of `resume()` and samples a
   mark behind a gap, the gap it records is cleared again by `rawlen = 0`, every
   entry is one place early, and entry 0 is the header mark. The run shows no more
   than that. What `decode()` makes of it follows from the code: a header mark
   lasts 48 to 182 ticks, and `decodeSony()` takes a first entry below 500 for the
   gap of a double click, so that a code of 26 entries or more is a repeat of SANYO.

Others were met while modelling and are built into the models:

* The receiver's length check is modulo the ring, so 66 + 256 pulses between
  syncs pass as well as 66; and 33 characters are written to `char Str[32]`.
* The branch marked `// sync signal` is taken for any data pulse that fits no
  window and stores the previous character: `Tells` and `Message` of `FrameBox`
  say which character a reader gets.
* The recorder's `count > MAX_SAMPLE` is one too late, and "I recorded N
  samples" counts entries of an earlier run, when that one ended by its
  time-out. An edge after "Save the initial port state" inverts every printed
  level: `LabelsTrueIfQuiet` states the quiet that the labels need.
* `SONY_DOUBLE_SPACE_USECS` and `SANYO_DOUBLE_SPACE_USECS` (500 and 800,
  `IRremoteInt.h:109`, `116`) are microseconds by name, but compared with ticks of 50 us
  (`IRremote.cpp:550`, `608`), and the tests are made on every code that reaches
  these decoders. `Doubled` states what that does to the others.

## 6. What is proved

`RFReceiver_proof` proves, for every even ring longer than an even frame, every
frame length and every stream of pulses, that `TypeOK`, `Handoff`,
`FrameIntact` and `DecodeInStep` are invariants (`TypeCorrect`, `HandoffHolds`,
`FrameStaysIntact`, `DecodeMeetsTheEnd`) and that `FrozenWhileHeld` holds of
every step (`RingFrozenWhileHeld`). The assumptions are `RingAssumption`,
`FieldAssumption` and `LengthsAssumption`; the sketch's constants (256, 66, 32,
16, 8) satisfy them, and so do the ring sizes 300 and 100 of its copies.

The four invariants are inductive only together, as `IInv`:

* `Handoff` is the backbone. Without "`received` is set while holding" a
  `handler()` step could write into the frame; it is kept because `handler()`
  stores only while `received` is clear and `loop()` clears it after decoding.
* `FrameIntact` is established by `SecondSync` alone. `ChangeCountLemma` shows
  that the test on `changeCount` accepts just the marks `FRAME` slots apart;
  `FrozenWhileHeld`, by `Handoff`, carries it to the release.
* `DecodeInStep` needs `FrameIntact` to know that the loop stops: after n
  characters it stands 2n slots behind the first mark, and since `FRAME` is even
  and less than the ring it meets the second one at 2n = `FRAME`
  (`OffsetLemma`), not earlier and not past it. `MessageComplete` concludes that
  the field read out lies inside the message, which `TypeOK` needs.

The arithmetic modulo the ring is kept in a few lemmas (`ModLemma` to
`OffsetLemma`), behind the operators `Wrap` and `Next1`.

`MarkStays` proves `MarkKept`. Its one strengthening is `NoneToClear`: while
`loop()` clears the marks no first sync is pending, because `SecondSync` has
reset `syncCount` and the interrupt stays off until the marks are cleared.

`ReceiverIsABox` is the safety part of `ImplementsBox`: `Spec` implies
`Box!BoxInit /\ [][Box!BoxNext]_(Box!bvars)`. By `FrameIntact` what is delivered
is closed by a sync pair (`FrameClosed`); by `Handoff` and `FrozenWhileHeld` it is
not touched until released. What is told is the field the box defines because of
`Decoded`: while `loop()` decodes, `Str` is the beginning of the frame's message,
for some content `g` of the uninitialised `bitreceived`. `MessageLemma` gives the
message a character at a time, although the box defines each of them by the last
pair that tells something. The fairness of `BoxSpec` is left to TLC.

Its second part closes the receiver with the sensor, for every ring and frame and
any amount of noise, from the same assumptions and `SensorAssumption` (the field
lies among the sensor's bits; the sketch reads the bits 16 to 23 of 32). The
steps of the composition are steps of the receiver on a pin where any pulse may
come (`AnyNext`), so that `IInv` and `Decoded` carry over. `LineInv` adds:

* `InStep`, the core: after an undisturbed sync nothing has been missed, and if
  that sync left a mark, the slots behind the mark hold exactly the pulses sent
  since. With two such syncs in a row a mark is set, so that the third finds the
  count of `FRAME` (`AcceptLemma`): `NoiseCostsOneFrame`.
* `MissedAfterFrame`: `late` is set only while the ring ends in a sync, so that the
  duration spoilt by it is never that of a sync pulse.
* `HeldAsHeard`: the pulses of a frame heard from sync to sync stay behind
  `syncIndex1` while it is held. All its pairs tell a bit, so that neither the
  uninitialised character nor an unknown pair shows in the field
  (`FieldOfBits`): `SentIsRead`.

`PinRecorder_proof` proves `OverrunBounded`, `LabelsTrueIfQuiet` and
`PrintsASnapshot` for every size of the array and of a byte. `Control` says at
which statements the interrupt is attached and `running` set. `Bounds` says for each
of them how far `count` has come, the half-cleared `count` between the two byte
stores included. `Labels` says that with a quiet start the recording begins at
entry 0 and that levels alternate from there (`LevelOf`). `RecorderAssumption`
excludes one combination, `BYTE = MAX_SAMPLE + 2`. There the second entry behind
the array carries into the high byte just after that has been cleared, clearing
the low byte leaves `count` where it is, two past the end, and the next recording
begins there: TLC finds `OverrunBounded` violated (with 1 sample and a byte of 3
values). In the sketch both are 256.

`Irrigation_proof` proves `ValvesNested`, `AnHourPerChange` and `EveryInterval` for
every length of minute, hour and day, every setting and every new setting of the
clock. The argument counts ticks: `Into` since the minute `next_minutes` last
began, `Since` since the clock last showed `prevDisplay`.

* `Prompt` is what makes the others inductive: when that minute has come and
  `loop()` is not watering, only so much of it can have passed as a pass under way
  and the one before it take. A pass that finds the second unchanged
  (`SameSecond`) is the hard case: it can only follow one that displayed this very
  second, or a synchronisation that came between the two readings of the clock.
* `Hourly` and `Regular` bound `age`, the time since the last watering or change,
  by `Into`, in the minute to water in and outside it. `PerChange` adds the hours up:
  what `dry` was at the last change, at most an hour and a minute for each change
  before it, plus `age`.
* `IrrigationAssumption` asks for `4 * MaxLag <= MINUTE`. With half a minute
  allowed for a pass TLC finds `AnHourPerChange` violated: a synchronisation between
  the two readings of `if (now() != prevDisplay) prevDisplay = now()` leaves a
  second in `prevDisplay` that the clock has yet to show, so that one more pass is
  spent on finding it unchanged. A pass of the sketch takes seconds at most.

`Station_proof` proves `TypeOK`, `AlertsAlternate`, `MotionNotForgotten` and
`RadioNotLeftOff` for both builds, every `HOLD` and any number of lost
connections, from `StationAssumption`. Its `IInv` adds what `loop()` takes for
granted at each statement: the motion interrupt is off exactly from
`detachInterrupt()` to `attachInterrupt()` (`PirInStep`), hence the value of
`ALERT_EVENT` on the statements in between (`AlertInStep`), hence 100 has been
written and not yet cleared exactly while the alert is held (`ToldInStep`). The
radio is on wherever neither a frame nor an alert is being handled
(`RadioInStep`): `pirhandler()` turns it off and raises the alert in one step.

`NtpClock_proof` has two parts. The first proves `TypeOK`, `TimeConserved` and `SyncAhead` for every
width of `millis()`, length of a second, interval and answer, from
`ClockAssumption`. `TimeConserved` needs only the types to be inductive. The work
is in the wrapping difference `Ahead`: a tick adds one to it unless the
counters are a whole width apart (`TickLemma`), and moving `prevMillis` forward
by r takes exactly r from it wherever the wrap falls (`ForwardLemma`); what
`now()` takes away is then what it adds to `sysTime` (`SecondsLemma`,
`DistributeLemma`).

The second carries this over to the sketches. Every step of theirs is a
step of `SystemClock` or leaves its variables alone (`ProviderKept`), provided
that what `getNtpTime()` returns is one of the `Times`; `Stamped`, the invariant
that every packet bears a time the server has written, gives that.
`NtpNoTickLost` and `NtpNextSyncAhead` then follow from the theorems above. The
distance to the true time needs the age of packets (`Young`): one in the socket
while `getNtpTime()` listens was written at most `LIFE` before it arrived, and
it arrived after `Flush`, so that it is older by no more than the name lookup
took. By `TimeConserved` the clock is what was last set plus the ticks since, so
both bounds, once they hold when the clock is set, hold for ever
(`ClockNeverAhead`, `ClockBehindByDelay`). The bounds on the network's delays are
assumptions of the model; the theorems hold for all their values.

`ThingSpeakClient_proof` proves type correctness, `StatusIsTrue` and
`ClosedWhenIdle` for all fields and values, any number of calls, and a server and
network that do anything. The invariant `Known` says, for each statement of a
call, what can be under way for it: nothing before `Send`; afterwards one
request, or one reply, with the update stored if the reply says so; and nothing
ever bears the number of a call still to come (`Past`). Late replies are for
other calls, whose connection is closed.

`IRReceiver_proof` proves `TypeOK`, `CodeKept` and `StartsAfterGap` for every
size of the buffer, gap and width of the timer. `Held` is the argument for
`CodeKept`: the one interrupt that fits between the reading of `rawlen` and the
test of `rcvstate` either leaves the length or is recording, and then the test
fails; once in `STOP` no interrupt leaves it. `Timed` is that for
`StartsAfterGap`: outside a mark the timer is at most one tick ahead of the
silence, in `STOP` and with a full buffer too, because marks reset it there.

`Algorithms_proof` holds what the pure algorithms compute. There is no
interleaving in them, so the inductive invariants are short and the work is in
the operators.

*Time library* (`BreakTimeIsRight`, `MakeTimeIsItsInverse`), for every day of the
unsigned 32-bit range up to the last second of the last one. `DateInv` says that
the date of the walked calendar lies as many days behind 1970 as the day being
converted, and that the clock shows as many seconds (`SecondShows`). The first is
inductive because the next year begins a year's length later: `daysToYear` adds
up as the loop does (`NextYearLemma`; the rule for leap years is y % 4 but for
2100, `LeapYearLemma`). Years and months are in order (`YearsInOrder`,
`MonthsInOrder`), hence the first one to reach past the day, where each loop of
`breakTime()` stops, is the date's (`YearFound`, `MonthFound`). `makeTime()` adds
the same sums up (`DaysToMonthLemma`, `ClockLemma`).

*IRremote* (`EverySentCodeIsDecoded`), for all values of all codes and JVC's
repeat, where the run tries repeated blocks; for every silence before the code,
every phase of the timer at each edge, every old entry behind the recording, and
every detector within `CodesAssumption`: its excess at an edge is 50 to 150 us, that
is, at most a tick off the `MARK_EXCESS` the library assumes. The steps are:

* What is recorded of a line stays within bounds (`MeasuredLemma`), and the
  windows of 25 percent and a tick hold everything within them (`MarkMatches`,
  `SpaceMatches`): the predicate `Heard`. From there on only `Heard` is used.
* In codes told apart by their spaces, and Sony's by its marks, nothing is joined
  on the line (`AlternatesLemma`), the windows of a one and a zero do not meet
  (`OneOrZero`), and the decoder reads the bits (`BitsDecode`, `SonyDecoded`).
* In RC5 and RC6 neighbouring pieces of one level are joined. Seen as units of
  one level each, the joined line still covers the same units (`MergedStep`,
  `PeriodsSpan`), an entry is at most three units wide (`Narrow`, `RC6Edges`), and
  `getRClevel()` reads each entry as just its units (`UnitRead`, `LevelsRead`). RC6's
  trailer bit, of two units to a half, is a case of its own (`TrailerRead`).
* No decoder tried earlier takes the code: by its length (`RejectShort`,
  `RejectRepeat`), by its header (`HeadersDiffer`, `RejectWidth`, `RejectSony`), or by
  the first levels for RC5 (`RejectRC5`, `RC6NotRC5`). Only the gap remains: what
  Sony's and Sanyo's decoders make of other codes is `GapOnly`, and `DecodedLater`
  puts it together with the decoders behind them.

The recursive functions (joining, flattening) need an induction. The induction
theorems of the library cannot be used; `InductionLemma` has a set in place of
the predicate and follows from the least element of its complement (`LeastLemma`).

*Polling receiver* (`DisturbedFrameIsFound`), for every identity, payload and
buffer that `PollAssumption` allows, every start, place and kind of disturbance.

* Something is found: of four frames one is whole between its two syncs, with a
  sync that the search still reaches (`OneIsWhole`), and a whole frame is
  accepted (`IntactAccepted`). The bound on the buffer is tight: in one a pulse
  shorter, a recording that begins right behind a sync and whose second sync is
  disturbed into an unknown length has no whole frame left.
* Nothing else is found, at any sync. Behind a true sync (`AcceptedAtSync`) the
  characters differ from the frame in one place at most: a length outside the
  windows is refused, a sync repeats the bit before it or the one left from an earlier
  search, and two frames of even parity cannot differ in one bit (`ParityLemma`).
  A sync at any other place is the disturbed pulse itself, so that the pulses behind
  it are as sent, and `IdentityOnce` says that they do not read as the identity
  (`FalseSync`).

Only model-checked is all liveness, and with it the fairness of `ImplementsBox`:
out of the prover's reach, as is `ENABLED`. Every safety property that a passing run
checks is stated by a theorem.

## 7. Plan

Modules that could follow: `Station` with `ThingSpeakClient` in place of
`writeAlert`, for a station that would act on the status, which this one does
not; `refreshCache()` and `setTime(hr, ...)` of the Time library, once a sketch
calls them.

## 8. Not modelled

* Third-party libraries (Blynk, WebSockets, WiFiEsp, WiFiManager, Temboo,
  Firmata, OneWire, DHT, Manchester, AltSoftSerial, ...): used unchanged, or by
  no sketch at all, and seen only through what a sketch observes of them. They
  are by far the larger part of the source lines, which is why the modules cover
  a small share of them. RF433 and Xively are not in the repository as source.
* The earlier copies of the receiver and the station: `RFReceiver` with other
  constants, to which its theorems apply as well, and stations with less logic.
  The copies of the polling receiver differ in buffer sizes and pins.
* The bridges: what one channel receives is copied to another within one pass
  of `loop()`, and nothing but the connection outlives a pass.
* `bintodec()` and the values printed; the uploads of the temperatures in
  `Station`, which change no state that the models keep.
* Of IRremote: `sendSharp()`, `sendDISH()` and `sendRaw()`, for which there is no
  decoder, the value of the hash, and the carrier. Of the Time library:
  `setTime(hr, ...)` and `adjustTime()`, which no sketch calls; the cache of
  `refreshCache()`, which without the former always holds the elements of the
  time asked for; and `TIME_DRIFT_INFO`, which no sketch defines.
* Calibration and capture experiments, hardware tests and examples: sequential
  loops of a few lines with no state that outlives a pass.
