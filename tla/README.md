# OpenController in TLA+

A verification development for the OpenController firmware (`firmware/src`), the
CH592F module that gives a QMK keyboard a 2.4 GHz link. It holds TLA+ modules
of the firmware's own logic, TLC configurations that check them on small
instances, and TLAPS proofs, for every instance, of the host-wake sender, report
delivery, the link state machine, deep sleep, the RTC arithmetic, the hop, the UART
receiver, the shallow idle, the LED relay and the crash record.
`PROJECT.json` maps every definition to the source lines it models.

## The system

One main loop (`main.c`, `Main_Circulation`) runs, in this order:
`TMOS_SystemProcess` (the BLE library's event loop, which serves RF events and,
when nothing is due, calls the idle callback `CH59x_LowPower`),
`RF_ConnectedTick`, `KeyboardUart_Poll`, `KeyboardUart_Service`, the LED resync,
`OpenBoot_Service`, `Power_Service`, the watchdog, and a shallow wait. Interrupts
come between any two of its steps: the radio callback `RF_2G4StatusCallBack`, the
turnaround timer TMR0, UART1, the heartbeat TMR3, the wake pin and the RTC.

| Component | State | Operations | Interacts through | Correct when |
|---|---|---|---|---|
| Host wake (`host_wake.c`, `keyboard_uart.c`) | frame queue, LED slot, outstanding frame, CHWAKE | enqueue, set latest, ACK, step | frames and bare ACKs on UART1; LED-lost flag to the RF task | an ACK retires only what the host got; LEDs converge; nothing starves |
| HID delivery (`rf_task.c`) | report FIFO, dedup state, control bits, response in flight | queue report, poll callback, respond, release, teardown, discard | polls and responses with the dongle; link transitions | in order, once per session, nothing lost or delivered to the wrong host |
| Link, rest, bond (`rf_task.c`) | link state, search window, rest stage, probe flags, bond in RAM and flash, TMOS timers | TMOS event handlers, radio callback, host commands | dongles, TMOS, status frames to the keyboard MCU | no state without a way out, no stale event acted on, the MCU's view right |
| Sleep (`sleep_protocol.c`, `main.c`, `power_sleep.c`) | reducer flags, service states, explicit request, holdoff, wake flags | frame dispatch, services, idle callback, wake | UART bytes and edges, link state, TX state | never over unread bytes or after a withdrawal; requests resolved |
| Hop and RTC time (`rf_task.c`, `rtc_clock.c`) | hop anchor, channel index, clocks | servo, hop, elapsed time | RTC32K that wraps and steps back | on the dongle's channel, never reseeded while the link is held, a clock that only advances |
| UART framing (`keyboard_uart.c`) | ring, overrun latch, parser buffer | ISR, poll, resync | bytes | no frame assembled across a hole |
| Shallow idle (`main.c`) | event latch, masks | arm, drain, re-check, wait | heartbeat and UART interrupts | never sleeps past a pending source |
| LED relay (`rf_task.c`) | pending and last-sent byte | callback, notify, resync | host wake | the newest byte reaches the host |
| Crash record (`power_sleep.c`, `diag_dump.c`) | counters kept over a watchdog reset, frozen flag | count, dump, zero, reset | UART commands, link state | the record lasts until read, and only so long |

What is hard here: callbacks that change what a main-loop handler is using; TMOS
timers started and stopped by many functions; events posted before a teardown
and served after it; lost, late and repeated frames on two links; requests
handed through three owners; and bytes that arrive while the module decides to
sleep. `PROJECT.json` lists these as hazards, each at its line.

## Modules

| Module | Models | Notes |
|---|---|---|
| `HostWake` | `host_wake.c`, its driver in `keyboard_uart.c` | one action per return of `HostWake_Step`; host and wire external |
| `HidDelivery` | FIFO, ARQ and link transitions of `rf_task.c` as they touch reports | dongle external |
| `RfLink` | the link state machine of `rf_task.c` over TMOS events and timers | TMOS, dongles external |
| `SleepCtl` | `sleep_protocol.c`, dispatch and services of `main.c`, `power_sleep.c` | host bytes external |
| `HostWakeDrain` | `HostWake` with the drain budget of `keyboard_uart.h` | EXTENDS `HostWake`; proved, not run |
| `Hop` | connected-mode hopping of `rf_task.c` | dongle external |
| `RtcTime` | `rtc_clock.c`, the holdoff and the deadline window of `power_sleep.c` | the counter external |
| `UartRx` | interrupt handler, ring and parser of `keyboard_uart.c` | host and UART external |
| `IdleWait` | the idle section of `Main_Circulation` | core, timer and UART external |
| `LedRelay` | the LED relay of `rf_task.c` over `LatestSlot` | dongle external |
| `Forensics` | the crash record of `power_sleep.c` and `diag_dump.c` | proved, not run |
| `FrameChannel`, `LatestSlot`, `ReportChannel` | abstract specifications | no code of their own |
| `HostWakeProofs` | theorems about `HostWake` and `HostWakeDrain`; `HostWake` implements `LatestSlot` | TLAPS |
| `HidDeliveryProofs` | theorems about `HidDelivery`; it implements `ReportChannel` | TLAPS |
| `UartRxProofs` | theorems about `UartRx`; it implements `FrameChannel` | TLAPS |
| `SleepCtlProofs` | theorems about `SleepCtl` and `Forensics` | TLAPS |
| `RfLinkProofs` | theorems about `RfLink` and about `LedRelay`, which runs over the link | TLAPS |
| `RtcTimeProofs`, `HopProofs`, `IdleWaitProofs` | theorems about the module each is named after | TLAPS |
| `MC*` | the instances TLC checks | |

Composition. Three abstract specifications state what one component may rely on
in another, and the detailed module is shown to implement each (`INSTANCE ...
WITH`, the abstract `Spec` as a property):

- `UartRx` implements `FrameChannel`: a dispatched frame was sent in one piece, in
  order, and no byte counts twice. `SleepCtl`'s frames are those.
- `HostWake` implements `LatestSlot`, and `LedRelay` is written over `LatestSlot`:
  when the slot is done, the host has the newest value or a loss is on record.
- `HidDelivery` implements `ReportChannel`: a bounded queue per bond whose newest
  entry may be replaced when it is full and whose head leaves only once the host
  has it.

`RfLink!StaysDown` (a link taken down comes up only on a command) is what `SleepCtl`
assumes of the link, and `HostWakeDrain` bounds the drain that `SleepCtl` leaves open.

Variables and operators keep the C names where they exist. Operators under a
`Mutant:` comment are plausible bugs of the definition that follows; they are
used only to confirm that a property can fail.

**HostWake.** `since` and `now` become `age = now - since`, saturating beyond the
longest wait, so no wrap is needed and a main-loop pass may come arbitrarily late.
The ring buffer is a sequence. `wire` holds every copy whose ACK may still come;
host_wake.h's assumption (an ACK arrives within two ACK timeouts of its copy) is
the guard of `Tick`. Counters are left out.

**HidDelivery.** A report is a key-down value or `Released`, tagged with its
number and with the bond it was queued under. `air` is the response being
transmitted; `dongle` flips its bit when it accepts a response with a new sequence
bit, starts each session with an arbitrary bit, and on a lapse releases the host's
keys. Timers may fire at any time. A RESPOND posted before a teardown is served as
the no-op it is before the next session. Whether A6 51 is honoured for the current
transport is left open. `RF_QueueHIDReport` is atomic against the callback:
the FIFO has one producer and one consumer and the tail is published last.

**RfLink.** `events` and `timers` are TMOS's posted events and running timers;
`RF_ProcessEvent` serves the posted event that it tests first. `tmos_stop_task`
clears the timer and the posted bit; whether it also reaches bits handed to the
running handler is left open. Timers are untimed except that a silent probe ends
before the next probe and before supervision (640 against 1616 and 5000 ticks). A
catch may be posted between `RF_Disconnect`'s sweep and its `RF_Shut` (`late`).
A radio callback that lands in a handler before its `RF_Shut` leaves a stale
`RX_RESTART` behind (`ServeShut`).
A response is in flight from its poll to its completion. A reset may come anywhere,
including between the erase and the write of a save. EEPROM errors and an invalid
MAC are not modelled; RF_EVT_START has been served.
`told` is the last thing the keyboard MCU was sent of the link, read the same in
every state: 32 is "connected", 33 "lost", 31 "pairing", and 34 with 35 or 36, the
answer to every transport selection (main.c:151-170) and main's announcement after a
reset with a bond, is "selected". A sleep or an update the MCU has asked for is
announced by nothing ("asked"), nor is a reset without a bond ("none"). `reselected`
marks the one case in which the last frames do not name a connection that is there:
A6 30 over a live session. `unsaved` says that the bonded dongle has polled us and its
bond is not in flash.

**SleepCtl.** `pc` is the position in the main loop. The ring and the parser hold
nothing, an unfinished frame, a frame, or bytes that reach no handler. The link is
what the sleep gates see: IDLE, SHUT or LIVE; that it leaves IDLE only on a command
is what `RfLink` shows. Drain bounds and the boundary's vetoes (line sample,
window, deadline) may strike at any time. Bytes that meet a sleeping module wake it
and are lost. `pwr_autosleep` mirrors the reducer's flag within one dispatch and is
folded into it.

**Hop.** Time is the counter modulo `Wrap`, advancing tick by tick, with reads that
may lag by `Lag`. The dongle sends one poll per slot on its next channel. Slots a
tick short or long, and stalls of the main loop for a slot or more, come one at a
time, each after `DriftGap` answered polls in a row: the servo corrects one tick
per caught poll, so an unlimited drift would defeat it, and a pair of crystals drifts
far less; none comes before the first catch. Polls, answers and transmit completions
may be lost at any time. A parked keyboard re-arms its receiver every interval, which
cuts off a poll being received. `swept` counts such a poll as missed, unless the pass
is `Overdue`: the instant it re-arms for is `Lead - SeedError` ticks past or more, so
that the poll of that slot may be on the air. Only that, and a poll lost by the air on
the parked channel, void the count. With a limit one tick higher `MeetsInOneSweep`
fails. `aligned` records
that the first caught poll met an anchor of its own slot; `TracksAfterCatch` says what
happens otherwise (Findings).

**RtcTime.** `time` is the true count, a read returns the count of an instant at
most `Stale` ticks old. The assumptions are those of the code: one `RtcClock_Now`
per main-loop pass, a pass of at most `Pass` ticks awake, at most one deep sleep in a
pass. The 32-bit word is a constant; the instance wraps it too.

**UartRx.** A byte is its position on the wire, so that a property can tell which
bytes a frame was made of. The interrupt is taken before the main loop's next step,
at each of Poll's steps. `rx_expected` is a function of the buffer's head. With two
faults in one stream `NoFramePassedOver` does not hold: after a frame found by
resynchronisation `shift_rx_buf` clears the buffer if the next byte heads no frame,
and a header further on goes with it. The code's comments promise nothing there.

**IdleWait.** `pc` has a value for every point of the idle section where an
interrupt makes a difference. The rule for the event latch is the one main.c:445
describes: only an edge that comes while SEVONPEND is set makes an event. `owed`
stands for the conditions that keep the loop polling.

**LedRelay.** The callback may come between any two steps of the handler and of
`rf_enter_connected`. A NOTIFY_LED left over from one session is served before
the next begins: a reconnect takes many TMOS passes. Only a session entered out of a
rest may be a probe, which keeps `last_led_sent`.

**Forensics.** The counters `HAL_SleepInit` keeps are one number; `record` is a copy of
it at the crash until a complete dump or a zero.

**HostWakeDrain.** A tick waits for a step of `HostWake_Step` that is due: one
main-loop pass per tick, which the budget of keyboard_uart.h presupposes.

## Runs

| Run | Instance | Checks | Result |
|---|---|---|---|
| `host_wake` | 2 status frames, 2 LED states, queue 2, guard 1, timeout 2, 2 attempts | TypeOK, AckAttribution, OutstandingIsHead, SentToAwakeHost, ImplementsLatestSlot, NothingStarves | holds, 73,562 states |
| `hid_delivery` | 1 key, FIFO of 2, 3 reports, 1 bond clear | RestStrandsNothing, HostHasNewest, AcceptedInOrder, NoCrossDelivery, ImplementsReportChannel, DeliveryProgress | holds, 114,384 states |
| `rf_link` | 2 dongles | NeverStranded, CatchIsBonded, McuView, FlashNotStale, SleepsWithRadioOff, StaysDown, SearchListens, ProbeEnds | holds, 238,767 states |
| `rf_persist` | 1 dongle | BondPersisted | violated |
| `sleep_ctl` | holdoff 1, every frame kind | RequestFindsLinkDown, LastCommandWins, SilenceBeforeSleep | holds, 370,506 states |
| `sleep_live` | holdoff 1, frames unlock, sleep, query, update | DrainResolves, RequestTaken, UpdateServed | holds, 35,065 states |
| `rtc_time` | modulus 12, word 17, tolerance 2, lag 1, 27 ticks | ClockIsNewest, WakesInTime, HoldoffMeasured | holds, 1,215,201 states |
| `hop` | interval 7, 3 channels, counter modulo 62, drift | StaysInStep, MeetsInOneSweep, ReseedOnlyWhenGone | holds, 5,868,424 states |
| `uart_rx` | FIFO 2, ring 2, 8 bytes, 1 fault | NoFramePassedOver, ImplementsFrameChannel, Drains | holds, 469,423 states |
| `idle_wait` | heartbeat 5 and 2, pass 2, watchdog 14 | NotSleptPast, WatchdogFed, ProbesOnTime, LoopGoesOn | holds, 14,937 states |
| `led_relay` | 3 LED bytes | LedOnHost | holds, 6,933 states |
| `led_connect` | the same | RelayForwarded | violated |

`HostWake`'s type invariant is checked with its other invariants. The other modules define
`TypeOK` too (it holds on the same instances, and is part of every inductive invariant that is
proved), but their runs are spent on behaviour. `LedConverges`, which the theorem
`LedDelivered` states, follows from `ImplementsLatestSlot` as well.

Bounds. `HostWake`: two queued frames and two LED values let a frame follow
another and a value overtake one in flight; two attempts reach the resend, the
abandonment and the quarantine; a timeout of two ticks lets an ACK be early, on
time and late. The theorems lift all these bounds. `HidDelivery`: two slots fill
and coalesce (the code needs the newest entry not to be the head in flight, so
two is the least), three reports give down, up and a re-press, one bond clear
gives an old and a new bond. `MaxReports` and `MaxUnpairs` bound only histories.
`RfLink` has no unbounded variable; two dongles let a catch or record of one meet
the bond of the other. `SleepCtl` is finite too; a holdoff of one tick is either
running or over, which is all the gates tell apart. The liveness run sends fewer frame
kinds, one for each way a request is made, withdrawn, ignored or overridden.
`Hop`: the counter's modulus is the least that `HopAssumption` allows, so that the
wrap falls into every phase of a slot; three channels tell a step of one from a
step back. `RtcTime` runs for more than two turns of the counter and one of the
word; `MaxTime` is its only bound. `UartRx`: a FIFO and a ring of two bytes fill
and overrun at once, and eight bytes hold a broken frame, a stray byte and the two
frames after it; `MaxBytes` and `MaxFaults` bound the host. `IdleWait` is finite; its
watchdog period leaves the margin the code has (559 ms against 200 ms). `LedRelay`:
three bytes give an old, a new and a third value.
The `hop` run reads the counter without lag (`Lag = 0`). By hand,
`ReseedOnlyWhenGone` also holds with reads that lag short of the wrap (interval 5, 2
channels, modulus 40, desync 7, back-date 3, `Lag = 1`: 3,064,464 states).

Fairness. `HostWake`: the main loop keeps stepping while anything is pending
(`KeyboardUart_HostWakeIdle` keeps it from idling), time passes, and every copy is
answered or lost; nothing is assumed of the callers. `HidDelivery`: on a link that
is up the main loop re-arms the receiver and releases stale responses (weak), and
of infinitely many polls, responses and receptions some succeed (strong); no
completion callback is assumed. `RfLink`: TMOS serves events, the beacon's and the
probe's timers expire (weak), of infinitely many beacons some start and end
(strong). Its liveness properties carry the premise `CatchesUp`, that TMOS runs
out of posted events again and again: a pass is shorter than a timer tick, and without it
the events tested first could starve the others. `SleepCtl`: the loop, the RTC and
the FIFO advance (weak); of infinitely many passes one finds TMOS idle, one finds
the deadline far enough, and one is past a drain's bound or ends a host-wake
exchange (strong), which is bounded by `HostWake`'s attempts. `UartRx`: the interrupt
handler and the poll go on (weak); nothing is assumed of the host, whose bytes are
bounded. `IdleWait`: the loop runs and time passes (weak); a pending interrupt is
taken whenever delivery is unmasked again and again (strong); no byte is assumed to
come. `Hop`, `RtcTime`, `LedRelay`, `Forensics` and `HostWakeDrain` state safety only
and assume no fairness.

## Findings

Two violation runs exhibit a disagreement between the code and a comment or
document:

- `rf_persist`: a fresh bond whose first session rests before its first poll is
  continued by silent probes, whose `rf_enter_connected` clears the pending save.
- `led_connect`: a relay between the arming of the receiver and the reset of
  `last_led_sent`, equal to the last session's byte, is never forwarded.

The modules state six more expectations, and one for a wider instance, that TLC refutes
when they are added to the configuration of the passing run; they are not kept as runs:

- `HidDelivery!RepeatAddsNothing`: a report queued while the link is down by command
  and then discarded stays the newest queued state, so after the next connect its
  repeat is dropped though the host never got it. `HostHasNewest` holds with exactly
  this case excepted.
- `SleepCtl!ResetWithdraws`: A6 56 does not withdraw a request the power layer already
  holds. `WakeEndsRequest`: an A6 54 repeated after `Power_Service` consumed the first
  re-arms. `HeldAfterWake`: a host edge that coincides with the module's deadline
  starts no holdoff.
- `RtcTime!HoldoffLasts`, and `Hop!ReseedOnlyWhenGone` with `Lag = 1` and `WrapLag =
  TRUE`: the two elapsed-time functions recognise a small backward sample only on the
  same side of the counter's wrap. Once a day a stale read across it expires a fresh
  holdoff, or reseeds the hop of a live link. `RtcClock_Advance` compares modularly
  and has no such case (`ClockIsNewest`).
- `Hop!TracksAfterCatch`: the first caught poll does not snap the phase (the snap is
  compiled out); with the parked tick's advance overdue, the keyboard steps off the
  channel.

Noticed while reading, not run: the comment of `CH59x_LowPower` (power_sleep.c:552)
says autonomous sleep is for the bonded search only and refuses IDLE, while the
code sleeps in IDLE and RESTING too; host_wake.h:16 says the next frame follows an
abandoned one at once, while the quarantine comes first; keyboard_uart.c:527 says
that entering the bootloader waits for host-wake frames, while `OpenBoot_Service`
waits for the FIFO alone; power_sleep.c:111 says the
crash record is frozen until it is zeroed, while a complete dump thaws it too; a frame cut
short has no timeout, so `KeyboardUart_RxQuiet` stays false until more bytes come;
an A6 30 over a live session is answered with 34 and 35 and no 32, while an A6 51 there is
answered with 32 (`reselected`); a parked keyboard whose pass is overdue can cut off the
very poll it waits for with its own re-arm, and waits for a further sweep (`Overdue`;
rf_task.c:57-63 and 1676-1679 consider such gaps).

## Proofs

`HostWakeProofs` proves, for every `Status`, `Led`, queue size, guard, timeout and
attempt count allowed by `FramesAssumption` and `TicksAssumption` (disjoint frame
sets, a non-empty queue, a timeout of at least one tick), that `Spec` keeps an
inductive invariant `IInv` and with it

- `TypeCorrect`: `TypeOK`;
- `AcksAttributed`: `AckAttribution`;
- `PopsWhatWasSent`: `OutstandingIsHead`;
- `LedDelivered`: `LedConverges`;
- `AwakeWhenSent`: the action property `SentToAwakeHost`.

None of the properties is inductive. `AckAttribution` needs to know what is on the
wire: while a frame sent once is outstanding every copy on the wire is of that
frame, and while one is resent or in quarantine no copy is younger than `age`, so that at
`age >= 2 * AckTimeout` the wire is empty (`WireInv`, `AckInv`; lemma
`QuarantineEmpties` is the arithmetic). `OutstandingIsHead` ties the outstanding
frame to the queue or the slot (`QueueInv`), `SentToAwakeHost` ties the state to how long CHWAKE
has been high (`LineInv`), and `LedConverges` follows the newest LED value from the
slot over the outstanding frame to the host (`LedInv`). `Invariance` has one
lemma per group of actions (`SendingInv`, `RetiringInv`, `ResendInv`, `SettleInv`,
`HostReceiveInv`, `TickInv`, `OwnerInv`); `send_next`, shared by three actions, has
its own (`SendNextInv`).

It also proves `SlotImplemented`: `Spec` implements `LatestSlot` under the
mapping of `HostWake` (`ImplementsLatestSlot`). Initial states map to initial states,
and with `SlotInv` (`IInv`, and only an outstanding frame is taken from the slot)
every step maps to one of `LatestSlot` or to a stutter: setting a value to `Set`,
taking the flag to `Take`, a copy's arrival to `HostGets`, and retiring the only LED
value at hand to `Finish`, where `LedInv` supplies that the host shows the newest value
or the flag is raised.

The last part of `HostWakeProofs` proves `DrainBounded`: `DrainSpec` keeps `DrainedInBudget`. The
argument is a measure. `Remaining` is what the frames at hand can still take: the rest
of the guard or of the quarantine, a `FrameCost` of `max_attempts + 1` timeouts per frame,
less what the outstanding one has taken. No step of the sender or of the host increases
it (`StepRemaining`, `OthersRemaining`), a tick with no step due takes one off
(`TickRemaining`), and whatever is added leaves it within `Budget`, one guard and
`QueueSize + 2` frames (`RemainingBounds`). So `spent + Remaining <= Budget` until the sender
is idle. The budget of `keyboard_uart.h` counts a guard per frame, which is more than
`Budget` as soon as the guard is not zero; `Guard > 0` is the theorem's assumption
(the firmware's is 1 ms).

`HidDeliveryProofs` proves, for every set of reports, every FIFO of at least two slots
(`SlotsAssumption`) and every bound on the histories, `ReportChannelImplemented`
(`ImplementsReportChannel`), `AcceptedInOrderAlways`, `NoCrossDeliveryAlways`,
`RestStrandsNothingAlways`, `HostHasNewestAlways` and `DeliveryTypes`. `DeliveryInv` has
five parts besides the types:

- `Phase`, the heart of the ARQ. The two control bits say whether the dongle has accepted
  the response of the current phase, `hid_head_sent` says whether that response can have
  been the head; neither alone tells a poll that the host has the head. A head sent in an
  accepted phase is the host's; any other head is new to the session; and in an accepted
  phase no response is due, so that a keepalive's acceptance is never taken for the
  head's.
- `OnAir`: what is transmitted is the head, in the phase of `tx_ctrl`. The head cannot be
  replaced meanwhile because a full FIFO has two entries.
- `Queue`: numbers rise from the last one accepted, all of the current bond, and the last
  entry is what the dedup compares with.
- `Resting`: a report turns a silent probe into a wake, so that whatever rests later (idle
  timer, probe timeout, answered probe) finds nothing queued and no key down.
- `Newest`: outside a session a drained FIFO means that the newest report has no key
  down, which is how the host of the next session starts.

The refinement maps a changed report to `Queue`, a poll that retires to `Retire`, a
reception that is new to `Give`, `DiscardHid` to `Discard`, and the two bond clears to
`NewBond`; all else stutters (`Stutters`).

`RfLinkProofs` proves, for every set of dongles (`DonglesAssumption`), `NeverStranded`,
`CatchIsBonded`, `McuView`, `FlashNotStale`, `SleepsWithRadioOff`, the action property
`StaysDown` and `LinkTypes`. `LinkInv` adds to these properties what they lean on: a
session, a rest and a probe have a bond (`Bonded`); a probe is a bonded search or the
session it led to, and only a silent one asks for quiet (`Probes`); and a silent probe
leaves the rest it came from its timers (`Cadence`), without which going quiet would strand
stage 1. `McuView` is inductive only with them: a stale catch or a stale probe timeout
would part the last status from the link. There is one lemma per handler, callback and command, and lemmas for what TMOS's
serving order and `tmos_stop_task` leave (`Served`, `ServeLeaves`, `ShutLeaves`).

Its last part proves, for every set of LED bytes, `LedOnHostAlways` (`LedOnHost`) and
`LedTypes` of `LedRelay`, both of `RelaySpec`. `LedInv` follows one byte through its copies:
the callback's (`Callback`), the handler's between its steps (`Handler`), and, with no event
pending, their agreement with the slot or a loss on record (`Settled`, `Losses`).

`SleepCtlProofs` proves, for every holdoff and every set of frames (`HoldoffAssumption`,
`SentAssumption`), `RequestFindsLinkDown`, the action properties `LastCommandWins` and
`SilenceBeforeSleep`, and `SleepTypes`. The invariant follows the request through its
owners (`RequestIsNewest`: whoever holds it, no state-changing command has followed it),
ties the silence to the holdoff that measures it (`HoldoffCovers`), and carries both over
the gap between the gate and the boundary, where a byte may still come
(`BoundaryIsQuiet`: then the last look at the ring sees it).

`RtcTimeProofs` proves, for every modulus, word, tolerance, lag, window, margin and pass
that `ConstantsAssumption` allows (the firmware's day-long counter and 32-bit word among
them), `ClockIsNewest`, `WakesInTime` and `HoldoffMeasured`. It begins with the facts about
`%` that modular clocks need: two instants less than a turn apart with the same count are
the same instant (`SameCount`), and the code's compare-and-correct recovers the true
difference (`AdvanceIsTrue`, `ElapsedIsTrue`). The invariant bounds how far the newest
sample may lag behind the pass (`Lag`: by a stale read, and after a sleep by the longest
sleep as well) and names the instant an armed trigger stands for (`Armed`).

`UartRxProofs` proves, for every set of frames with their headers and lengths, and every
size of FIFO and ring that `UartRxAssumption` allows, `UartTypes`, `FrameChannelImplemented`
(`ImplementsFrameChannel`) and, about `NoFramePassedOver`, `FramesKept` and
`FramesKeptCleanLine`.

- The refinement rests on `RxInv`, an invariant about the stream: FIFO, ring and parser hold
  wire positions that rise (`Ordered`); the parser holds an unbroken stretch that begins
  with a header (`Run`); while Poll works on a byte, that byte follows the parser's last one
  (`Adjacent`, which holds with an overrun on record too, because the byte before a hole still found room);
  a parser at rest waits for more (`ParserWaits`); and with no overrun on record the three
  together are the wire's newest bytes without a hole (`Stream`). Any number of faults is
  allowed. `shift_rx_buf` and `resync_parser` are reduced to dropping a prefix of the buffer
  (`Drop`, `ShiftIs`, `ResyncIs`), after which one lemma serves every path through the parser.
- `NoFramePassedOver` needs a second invariant, about boundaries (`KeptInv`): the frames sent
  whole lie on the wire one after the other (`Layout`), one fault leaves at most one gap
  between them (`OneGap`), and either the parser stands at the boundary of a frame and holds
  no more than that frame (`Boundary`, `Tight`), or the gap is behind it, so that every
  frame ahead is followed by another (`Sound`).
- `FramesKept` assumes `MaxFaults <= 1`, since with two faults the property is false (see
  UartRx above), and that after a fault no stretch of the wire passes for a frame but the
  frames that were sent (`Genuine`), which is what the checksum of `frame_is_valid` is for:
  a parser that has lost the boundaries has nothing else to tell a frame from a payload that looks
  like one. On the instance of `uart_rx` it holds in every state. `FramesKeptCleanLine`
  needs no such assumption: without faults the parser never leaves the boundaries.

`HopProofs` proves, for everything `HopAssumption` allows, `HopTypes` and, where the timing
is that of `ParkTiming`, `MeetsInOneSweepAlways` (`MeetsInOneSweep`). `ParkTiming` asks for
reads that lag within the tolerance and not across the wrap, a seed within a tick of the
poll's slot, and no disturbance before two answered polls. The invariant says where the
dongle's sweep is: as long as the count is not void, a parked keyboard has stayed on its
channel and the dongle, which began at channel 0, has polled on exactly `swept` others
(`Sweep`); only a parked keyboard counts, and the dongle's patience bounds the count
(`Counts`). That a re-arm in time cuts off no poll (`CutIsOverdue`) needs the phase of a
parked anchor: it stays a whole number of slots behind the dongle's, but for the seed's
error, through every re-arm and every tick (`Parked`, `OnGrid`), so that a hop less than
`Lead - SeedError` ticks late comes before the poll of its slot. Four more theorems state what each
step does to the phase, anywhere on the counter: `ElapsedMeasured` (`rtc_delta_32k` is the
true elapsed time, less the lag of a read that stays on its side of the wrap),
`ServoApproaches` (a caught poll takes a tick off an error beyond the deadband, from either
side), `HopKeepsStep` (a hop of s slots, clamped or not, moves the index and the
phase by s together, and the rollback costs one tick) and `TickKeepsStep` (a tick moves neither,
and a new slot, drift included, moves the phase by at most one).

`IdleWaitProofs` proves, under `IdleWaitAssumption` (the slow heartbeat and two passes are
shorter than the watchdog's period), `TypeCorrect`, `NoLostWakeup` (`NotSleptPast`),
`FedInTime` (`WatchdogFed`) and `ProbesInTime` (`ProbesOnTime`: a sleep at rest lasts at
most one fast heartbeat). `WatchdogFed` is far from
inductive: `FedInv` adds that the drain always finds its event, that a pass which has
not slept was fed at its start, and that in a sleep without an event the heartbeat's counter
has run at least as long as since the feeding, so that its edge ends the sleep first.
`FollowInv` ties the period to the link's state from the idle condition on.

The last part of `SleepCtlProofs` proves about the crash record (`Crash`, an instance of
`Forensics`), under `ForensicsAssumption` (a refusal is shorter than a dump),
`RecordKept` (`RecordUntilRead`, through further watchdog resets; any other reset drops the
record by design) and `ThawedOnceRead` (`FrozenForRecord`). The invariant they need is
`FrozenIff`: a record waits exactly while the counters are frozen. Without it `Count` could disturb a record that nobody has read.

The inductive invariants hold under TLC too, on the instances of the components' runs.

Only model-checked: every liveness property (`NothingStarves`, `DeliveryProgress`,
`SearchListens`, `ProbeEnds`, `DrainResolves`, `RequestTaken`, `UpdateServed`, `Drains`,
`LoopGoesOn`; liveness is out of the prover's reach), and two safety properties of `Hop`:

- `StaysInStep`. The theorems of `HopProofs` say what each step does to phase and index. What
  is missing is the balance over many slots: that between two disturbances, `DriftGap`
  answered polls apart, the servo has undone what drift, the one-tick rollback and a stall
  have cost, so that the phase stays within `MaxEarly` and `MaxLate`. The two bounds are
  measured on the instance; for every instance they would first have to be derived from the
  other constants.
- `ReseedOnlyWhenGone`. It needs a count over several slots of how far the anchor can fall
  behind while polls are answered, since an answer after a stall resets the dongle's
  patience before the hop has caught up. For every instance it needs more than
  `HopAssumption` gives: no read across the wrap (see Findings), `Lag <= Tolerance`, and a
  `Desync` with a margin over `Patience` that grows with the drift.

## Not modelled

Radio configuration and register set-up, the layout of the diagnostic frame and the
counters outside the crash record, start-up, image identity, the build tools, the
bench hook (compiled only into a bench build), the build without `KBD_IDLE_WFI` and
the hardware design: they keep no state that the properties speak of. EEPROM errors
are left out of `RfLink`. TMOS, the BLE library, the dongle, the keyboard MCU and
the bootloader are external and appear as the code uses them.

## Plan

Every component that keeps state of its own is modelled. Its safety properties are proved,
except `StaysInStep` and `ReseedOnlyWhenGone` of `Hop`; liveness stays with TLC. What is left
is to derive the tolerances of the hop (`MaxEarly`, `MaxLate`, the margin of `Desync`) from the
interval, the drift and the dongle's patience, as assumptions the two proofs can start from.
