------------------------------ MODULE SleepCtl ------------------------------
(***************************************************************************)
(* Deep sleep: the sleep-protocol reducer (firmware/src/sleep_protocol.c),  *)
(* the frame dispatch and services of firmware/src/main.c that drive it, and *)
(* the power layer (firmware/src/power_sleep.c) up to the wait itself.       *)
(*                                                                         *)
(* `pc' is where the main loop is: TMOS_SystemProcess with its idle callback *)
(* CH59x_LowPower, KeyboardUart_Poll and _Service, OpenBoot_Service,         *)
(* Power_Service.  Bytes from the host arrive between any two steps.  The    *)
(* link (RfLink) is what the sleep gates see of it: IDLE, SHUT (the radio    *)
(* off in a rest or between two beacons) or LIVE.  Drain timeouts may come   *)
(* at any time.  pwr_autosleep mirrors autosleep within the dispatch.        *)
(***************************************************************************)
EXTENDS Naturals

CONSTANTS
  Holdoff,      \* KBD_AUTOSLEEP_HOLDOFF_MS, in ticks
  Sent          \* the frames the host sends

VARIABLES
  pc,
  unlocked, sleep_pending, autosleep,           \* sleep_proto
  svc_state,                                    \* of Power_Service
  openboot_entry_pending,
  ob_state,                                     \* of OpenBoot_Service
  pwr_explicit_request,
  pwr_holdoff_active, holdAge,                  \* now - pwr_holdoff_start
  rx,                           \* the ring and the parser: what they hold
  rx_activity_latch,
  fifoBusy, hostWakeBusy,       \* UART1 TX, host-wake frames (HostWake)
  rf,
  RTCTigFlag, pwr_gpio_woke,    \* what has ended the sleep
  lastAsked,    \* history: the newest command that decides about a sleep
  silence,      \* history: ticks since a byte was received or dispatched
  edge          \* history: ticks since a host edge met a sleeping module

protoVars == <<unlocked, sleep_pending, autosleep>>
bootVars == <<openboot_entry_pending, ob_state>>
holdVars == <<pwr_holdoff_active, holdAge>>
txVars == <<fifoBusy, hostWakeBusy>>
wakeVars == <<RTCTigFlag, pwr_gpio_woke>>
vars == <<pc, protoVars, svc_state, bootVars, pwr_explicit_request, holdVars, rx,
          rx_activity_latch, txVars, rf, wakeVars, lastAsked, silence, edge>>

\* Frames by what their dispatch does here.  "USB" stands for A6 11 and 31-33,
\* "pair" for A6 51 and 63, "query" for A6 53, 58 and the inert subcommands.
StateChanging == {"HID", "name", "USB", "2G4", "pair", "unpair", "update"}
Frame == StateChanging \cup {"unlock", "auto", "sleep", "query"}

ASSUME HoldoffAssumption == Holdoff \in Nat \ {0}
ASSUME SentAssumption == Sent \subseteq Frame

\* Nothing, an unfinished frame, a whole frame, or bytes that reach no handler
\* (a NULL preamble, the host's ACK, noise).
Rx == {"empty", "partial", "other"} \cup Frame
RxQuiet == rx = "empty"

TypeOK ==
  /\ pc \in {"tmos", "boundary", "prologue", "asleep", "woken", "poll", "boot",
             "power", "update"}
  /\ {unlocked, sleep_pending, autosleep, svc_state, openboot_entry_pending,
      ob_state, pwr_explicit_request, pwr_holdoff_active, rx_activity_latch,
      fifoBusy, hostWakeBusy, RTCTigFlag, pwr_gpio_woke} \subseteq BOOLEAN
  /\ rx \in Rx
  /\ rf \in {"IDLE", "SHUT", "LIVE"}
  /\ lastAsked \in {"none", "sleep", "reset", "wake", "other"}
  /\ {holdAge, silence, edge} \subseteq 0..Holdoff

Init ==
  /\ pc = "tmos" /\ rf \in {"IDLE", "LIVE"}
  /\ unlocked = FALSE /\ sleep_pending = FALSE /\ autosleep = FALSE
  /\ svc_state = FALSE /\ openboot_entry_pending = FALSE /\ ob_state = FALSE
  /\ pwr_explicit_request = FALSE /\ pwr_holdoff_active = FALSE
  /\ rx = "empty" /\ rx_activity_latch = FALSE
  /\ fifoBusy = FALSE /\ hostWakeBusy = FALSE
  /\ RTCTigFlag = FALSE /\ pwr_gpio_woke = FALSE
  /\ lastAsked = "none"
  /\ holdAge = Holdoff /\ silence = Holdoff /\ edge = Holdoff

TxIdle == ~fifoBusy /\ ~hostWakeBusy
-----------------------------------------------------------------------------
(***************************************************************************)
(* The host and the hardware (external).                                   *)
(***************************************************************************)

Running == pc \notin {"asleep", "woken", "update"}

\* A frame begins or ends, or a stray byte comes, while the UART is clocked.  In
\* the prologue of the sleep the edge is consumed by its handler.
HostByte(r) ==
  /\ Running
  /\ \/ rx = "empty" /\ r \in {"partial", "other"}
     \/ rx = "partial" /\ r \in Sent \cup {"other"}
  /\ rx' = r
  /\ rx_activity_latch' = TRUE
  /\ silence' = 0
  /\ pwr_gpio_woke' = (pwr_gpio_woke \/ pc = "prologue")
  /\ edge' = IF pc = "prologue" THEN 0 ELSE edge
  /\ UNCHANGED <<pc, protoVars, svc_state, bootVars, pwr_explicit_request, holdVars,
                 txVars, rf, RTCTigFlag, lastAsked>>

\* An edge at a sleeping module wakes it, and the byte is lost.  It may also come
\* while the module wakes for its deadline.
HostEdge ==
  /\ pc \in {"asleep", "woken"}
  /\ pc' = "woken"
  /\ pwr_gpio_woke' = TRUE
  /\ edge' = 0
  /\ UNCHANGED <<protoVars, svc_state, bootVars, pwr_explicit_request, holdVars, rx,
                 rx_activity_latch, txVars, rf, RTCTigFlag, lastAsked, silence>>

RtcDeadline ==
  /\ pc = "asleep"
  /\ pc' = "woken"
  /\ RTCTigFlag' = TRUE
  /\ UNCHANGED <<protoVars, svc_state, bootVars, pwr_explicit_request, holdVars, rx,
                 rx_activity_latch, txVars, rf, pwr_gpio_woke, lastAsked, silence,
                 edge>>

FifoDrains ==
  /\ fifoBusy
  /\ fifoBusy' = FALSE
  /\ UNCHANGED <<pc, protoVars, svc_state, bootVars, pwr_explicit_request, holdVars,
                 rx, rx_activity_latch, hostWakeBusy, rf, wakeVars, lastAsked,
                 silence, edge>>

Later(t) == IF t < Holdoff THEN t + 1 ELSE t

Tick ==
  /\ holdAge' = Later(holdAge) /\ silence' = Later(silence) /\ edge' = Later(edge)
  /\ UNCHANGED <<pc, protoVars, svc_state, bootVars, pwr_explicit_request,
                 pwr_holdoff_active, rx, rx_activity_latch, txVars, rf, wakeVars,
                 lastAsked>>
-----------------------------------------------------------------------------
(***************************************************************************)
(* The dispatch of one frame.                                              *)
(***************************************************************************)

\* SleepProtocol_OnFrame, a reducer over <<unlocked, sleep_pending, autosleep>>.
SleepProtocol_OnFrame(f) ==
  /\ unlocked' = (unlocked \/ f = "unlock")
  /\ autosleep' = CASE f \in {"unlock", "pair", "unpair"} -> FALSE
                    [] f = "auto" -> autosleep \/ unlocked
                    [] OTHER -> autosleep
  /\ sleep_pending' =
       CASE f = "sleep" ->
              sleep_pending \/ (unlocked /\ ~openboot_entry_pending)
         [] f \in StateChanging \cup {"unlock"} -> FALSE
         [] OTHER -> sleep_pending

pwr_note_activity == pwr_holdoff_active' = TRUE /\ holdAge' = 0

\* Mutant: the request handed to the power layer outlives the command.
CancelForgotten(f) == UNCHANGED pwr_explicit_request

PowerSleep_CancelExplicit(f) ==
  pwr_explicit_request' = (pwr_explicit_request /\ f \notin StateChanging)

\* What the dispatch makes of the link, as its calls in rf_task.c do: a select
\* without a bond and a pairing without 2.4 GHz leave it alone.
LinkAfter(f) ==
  CASE f \in {"USB", "unpair"} -> {"IDLE"}
    [] f \in {"2G4", "pair"} -> {rf, "LIVE"}
    [] f = "HID" -> IF rf = "IDLE" THEN {rf} ELSE {rf, "LIVE"}
    [] OTHER -> {rf}

\* The frames that are answered with a status or a battery frame.
Answered(f) == f \in {"unlock", "USB", "2G4", "pair", "unpair", "query"}

\* dispatch_frame and handle_uart_frame.
handle_uart_frame(f) ==
  /\ pc = "poll" /\ rx = f
  /\ rx' = "empty"
  /\ fifoBusy' = TRUE
  /\ SleepProtocol_OnFrame(f)
  /\ pwr_note_activity
  /\ PowerSleep_CancelExplicit(f)
  /\ rf' \in LinkAfter(f)
  /\ openboot_entry_pending' = (openboot_entry_pending \/ f = "update")
  /\ hostWakeBusy' \in {hostWakeBusy, hostWakeBusy \/ Answered(f)}
  /\ lastAsked' = CASE f = "sleep" /\ sleep_pending' -> "sleep"
                    [] f = "unlock" -> "reset"
                    [] f \in StateChanging -> "other"
                    [] OTHER -> lastAsked
  /\ silence' = 0
  /\ UNCHANGED <<pc, svc_state, ob_state, rx_activity_latch, wakeVars, edge>>

\* A NULL, noise, a bad checksum or the host's ACK.
DropBytes ==
  /\ pc = "poll" /\ rx = "other"
  /\ rx' = "empty"
  /\ UNCHANGED <<pc, protoVars, svc_state, bootVars, pwr_explicit_request, holdVars,
                 rx_activity_latch, txVars, rf, wakeVars, lastAsked, silence, edge>>

\* The ring is drained; KeyboardUart_Service advances host wake.
KeyboardUart_Service ==
  /\ pc = "poll" /\ rx \in {"empty", "partial"}
  /\ pc' = "boot"
  /\ \/ UNCHANGED txVars
     \/ /\ hostWakeBusy
        /\ hostWakeBusy' = FALSE /\ UNCHANGED fifoBusy
     \/ /\ hostWakeBusy
        /\ fifoBusy' = TRUE /\ UNCHANGED hostWakeBusy
  /\ UNCHANGED <<protoVars, svc_state, bootVars, pwr_explicit_request, holdVars, rx,
                 rx_activity_latch, rf, wakeVars, lastAsked, silence, edge>>
-----------------------------------------------------------------------------
(***************************************************************************)
(* The services of the main loop.                                          *)
(***************************************************************************)

\* Mutant: the drain has no bound.
OpenBootWaitsForever ==
  /\ pc = "boot"
  /\ \/ ~openboot_entry_pending /\ pc' = "power" /\ UNCHANGED <<ob_state, rf>>
     \/ /\ openboot_entry_pending /\ ~ob_state
        /\ ob_state' = TRUE /\ rf' = "IDLE" /\ pc' = "power"
     \/ ob_state /\ ~TxIdle /\ pc' = "power" /\ UNCHANGED <<ob_state, rf>>
     \/ ob_state /\ TxIdle /\ pc' = "update" /\ UNCHANGED <<ob_state, rf>>
  /\ UNCHANGED <<protoVars, svc_state, openboot_entry_pending,
                 pwr_explicit_request, holdVars, rx, rx_activity_latch, txVars,
                 wakeVars, lastAsked, silence, edge>>

\* Quiesce, then wait for the FIFO alone, for at most 20 ms.
OpenBoot_Service ==
  /\ pc = "boot"
  /\ \/ ~openboot_entry_pending /\ pc' = "power" /\ UNCHANGED <<ob_state, rf>>
     \/ /\ openboot_entry_pending /\ ~ob_state
        /\ ob_state' = TRUE /\ rf' = "IDLE" /\ pc' = "power"
     \/ ob_state /\ fifoBusy /\ pc' = "power" /\ UNCHANGED <<ob_state, rf>>
     \/ ob_state /\ pc' = "update" /\ UNCHANGED <<ob_state, rf>>
  /\ UNCHANGED <<protoVars, svc_state, openboot_entry_pending,
                 pwr_explicit_request, holdVars, rx, rx_activity_latch, txVars,
                 wakeVars, lastAsked, silence, edge>>

\* The bootloader's idle timeout boots the application again.
Reboot ==
  /\ pc = "update"
  /\ pc' = "tmos" /\ rf' \in {"IDLE", "LIVE"}
  /\ unlocked' = FALSE /\ sleep_pending' = FALSE /\ autosleep' = FALSE
  /\ svc_state' = FALSE /\ openboot_entry_pending' = FALSE /\ ob_state' = FALSE
  /\ pwr_explicit_request' = FALSE /\ pwr_holdoff_active' = FALSE
  /\ rx' = "empty" /\ rx_activity_latch' = FALSE
  /\ fifoBusy' = FALSE /\ hostWakeBusy' = FALSE
  /\ RTCTigFlag' = FALSE /\ pwr_gpio_woke' = FALSE
  /\ lastAsked' = "none"
  /\ holdAge' = Holdoff /\ silence' = Holdoff /\ edge' = Holdoff

PowerStart ==
  /\ ~svc_state
  /\ svc_state' = (sleep_pending /\ ~openboot_entry_pending)
  /\ sleep_pending' = (sleep_pending /\ ~openboot_entry_pending)
  /\ UNCHANGED <<pwr_explicit_request, rf>>

\* Mutant: the drain has no bound.
StandDownUnbounded ==
  /\ svc_state
  /\ ~sleep_pending \/ openboot_entry_pending
  /\ sleep_pending' = FALSE /\ svc_state' = FALSE
  /\ UNCHANGED <<pwr_explicit_request, rf>>

\* The request was cancelled, an update came in, or the drain took too long.
PowerStandDown ==
  /\ svc_state
  /\ ~sleep_pending \/ openboot_entry_pending \/ ~TxIdle
  /\ sleep_pending' = FALSE /\ svc_state' = FALSE
  /\ UNCHANGED <<pwr_explicit_request, rf>>

PowerDraining ==
  /\ svc_state /\ sleep_pending /\ ~openboot_entry_pending /\ ~TxIdle
  /\ UNCHANGED <<svc_state, sleep_pending, pwr_explicit_request, rf>>

\* Mutant: the link is left up.
PowerRequestLive ==
  /\ svc_state /\ sleep_pending /\ ~openboot_entry_pending /\ TxIdle
  /\ sleep_pending' = FALSE /\ svc_state' = FALSE
  /\ pwr_explicit_request' = TRUE
  /\ UNCHANGED rf

\* RF_FlushBondSave, RF_Disconnect, PowerSleep_RequestExplicit.
PowerRequest ==
  /\ svc_state /\ sleep_pending /\ ~openboot_entry_pending /\ TxIdle
  /\ sleep_pending' = FALSE /\ svc_state' = FALSE
  /\ rf' = "IDLE"
  /\ pwr_explicit_request' = TRUE

Power_Service ==
  /\ pc = "power"
  /\ PowerStart \/ PowerStandDown \/ PowerDraining \/ PowerRequest
  /\ pc' = "tmos"
  /\ UNCHANGED <<unlocked, autosleep, bootVars, holdVars, rx, rx_activity_latch,
                 txVars, wakeVars, lastAsked, silence, edge>>
-----------------------------------------------------------------------------
(***************************************************************************)
(* TMOS_SystemProcess: events, or the idle callback.                       *)
(***************************************************************************)

\* The link leaves IDLE only on a command.  An LED state or a status may be sent.
TmosEvents ==
  /\ pc = "tmos"
  /\ rf' \in (IF rf = "IDLE" THEN {"IDLE"} ELSE {"IDLE", "SHUT", "LIVE"})
  /\ hostWakeBusy' \in {hostWakeBusy, TRUE}
  /\ pc' = "poll"
  /\ UNCHANGED <<protoVars, svc_state, bootVars, pwr_explicit_request, holdVars, rx,
                 rx_activity_latch, fifoBusy, wakeVars, lastAsked, silence, edge>>

idleVars == <<protoVars, svc_state, bootVars, pwr_explicit_request, rx, txVars, rf,
              wakeVars, lastAsked, silence, edge>>

\* Mutant: the activity latch is looked at and never taken.
ExplicitGateLatched ==
  /\ pc = "tmos" /\ pwr_explicit_request
  /\ pc' = IF /\ rf = "IDLE" /\ ~openboot_entry_pending /\ TxIdle /\ RxQuiet
              /\ ~rx_activity_latch
             THEN "boundary" ELSE "poll"
  /\ UNCHANGED <<holdVars, rx_activity_latch, idleVars>>

\* CH59x_LowPower with an explicit request: no holdoff.
ExplicitGate ==
  /\ pc = "tmos" /\ pwr_explicit_request
  /\ pc' = IF rf = "IDLE" /\ ~openboot_entry_pending /\ TxIdle /\ RxQuiet
             THEN "boundary" ELSE "poll"
  /\ UNCHANGED <<holdVars, rx_activity_latch, idleVars>>

\* pwr_holdoff_expired: a byte since the last look restarts the holdoff.
HoldoffRestarts ==
  /\ rx_activity_latch
  /\ rx_activity_latch' = FALSE
  /\ pwr_note_activity
  /\ pc' = "poll"

HoldoffRuns ==
  /\ ~rx_activity_latch /\ pwr_holdoff_active /\ holdAge < Holdoff
  /\ pc' = "poll"
  /\ UNCHANGED <<holdVars, rx_activity_latch>>

HoldoffExpired ==
  /\ ~rx_activity_latch /\ (pwr_holdoff_active => holdAge >= Holdoff)
  /\ pwr_holdoff_active' = FALSE
  /\ pc' = IF TxIdle /\ RxQuiet /\ rf \in {"IDLE", "SHUT"}
             THEN "boundary" ELSE "poll"
  /\ UNCHANGED <<holdAge, rx_activity_latch>>

AutosleepGate ==
  /\ pc = "tmos" /\ ~pwr_explicit_request
  /\ \/ /\ ~autosleep \/ openboot_entry_pending
        /\ pc' = "poll"
        /\ UNCHANGED <<holdVars, rx_activity_latch>>
     \/ /\ autosleep /\ ~openboot_entry_pending
        /\ HoldoffRestarts \/ HoldoffRuns \/ HoldoffExpired
  /\ UNCHANGED idleVars

\* pwr_sleep_until returns without sleeping: the window is too short or too long,
\* a byte is in or on the line, or the deadline has passed.
SleepVetoed ==
  /\ pc = "boundary"
  /\ pc' = "poll"
  /\ UNCHANGED <<holdVars, rx_activity_latch, idleVars>>

\* Mutant: the ring is not looked at again with interrupts masked.
SleepUnchecked ==
  /\ pc = "boundary"
  /\ pc' = "prologue"
  /\ RTCTigFlag' = FALSE /\ pwr_gpio_woke' = FALSE
  /\ UNCHANGED <<protoVars, svc_state, bootVars, pwr_explicit_request, holdVars, rx,
                 rx_activity_latch, txVars, rf, lastAsked, silence, edge>>

\* Wakes armed, nothing asserted: interrupts are unmasked and LowPower_Sleep runs.
SleepEntered ==
  /\ pc = "boundary" /\ RxQuiet
  /\ pc' = "prologue"
  /\ RTCTigFlag' = FALSE /\ pwr_gpio_woke' = FALSE
  /\ UNCHANGED <<protoVars, svc_state, bootVars, pwr_explicit_request, holdVars, rx,
                 rx_activity_latch, txVars, rf, lastAsked, silence, edge>>

\* The wait begins, or falls through for an interrupt that is still pending.
Wfi ==
  /\ pc = "prologue"
  /\ pc' \in {"asleep", "woken"}
  /\ UNCHANGED <<holdVars, rx_activity_latch, idleVars>>

\* The wake reason, with interrupts masked: the module's own deadline is looked at
\* first.  `late': an edge after that, which only the disarm sees.
SleepReturns(late) ==
  /\ pc = "woken"
  /\ pc' = "poll"
  /\ IF ~RTCTigFlag /\ pwr_gpio_woke THEN pwr_note_activity ELSE UNCHANGED holdVars
  /\ pwr_gpio_woke' = (pwr_gpio_woke \/ late)
  /\ pwr_explicit_request' = (pwr_explicit_request /\ ~pwr_gpio_woke')
  /\ lastAsked' = IF pwr_explicit_request /\ pwr_gpio_woke' THEN "wake"
                                                           ELSE lastAsked
  /\ UNCHANGED <<protoVars, svc_state, bootVars, rx, rx_activity_latch, txVars, rf,
                 RTCTigFlag, silence, edge>>

\* The idle callback up to pwr_sleep_until.
CH59x_LowPower == ExplicitGate \/ AutosleepGate

Main_Circulation ==
  \/ TmosEvents \/ CH59x_LowPower \/ SleepVetoed \/ SleepEntered \/ Wfi
  \/ (\E late \in BOOLEAN : SleepReturns(late))
  \/ (\E f \in Sent : handle_uart_frame(f)) \/ DropBytes \/ KeyboardUart_Service
  \/ OpenBoot_Service \/ Power_Service

Next ==
  \/ Main_Circulation \/ Reboot
  \/ (\E r \in Rx : HostByte(r)) \/ HostEdge \/ RtcDeadline \/ FifoDrains \/ Tick

Spec == Init /\ [][Next]_vars

\* The main loop runs, the deadline comes, the FIFO drains.  Of infinitely many
\* passes one finds TMOS idle, one finds the deadline far enough, and one ends a
\* drain that is past its bound or a host-wake frame (bounded by HostWake).
HostWakeEnds == KeyboardUart_Service /\ ~hostWakeBusy'
DrainEnds == Power_Service /\ svc_state /\ ~svc_state'
UpdateStarts == OpenBoot_Service /\ pc' = "update"

Fairness ==
  /\ WF_vars(Main_Circulation) /\ WF_vars(RtcDeadline) /\ WF_vars(FifoDrains)
  /\ SF_vars(CH59x_LowPower) /\ SF_vars(SleepEntered)
  /\ SF_vars(HostWakeEnds) /\ SF_vars(DrainEnds) /\ SF_vars(UpdateStarts)

FairSpec == Spec /\ Fairness
-----------------------------------------------------------------------------
EntersSleep == pc = "boundary" /\ pc' = "prologue"

(***************************************************************************)
(* No explicit sleep is taken once a state-changing command has followed     *)
(* A6 54: the command withdraws it, whichever of the reducer, Power_Service  *)
(* and the power layer holds the request then (sleep_protocol.c, main.c and  *)
(* power_sleep.c together).                                                 *)
(***************************************************************************)
LastCommandWins ==
  [][EntersSleep /\ pwr_explicit_request => lastAsked \notin {"none", "other"}]_vars

(***************************************************************************)
(* Autonomous sleep begins only after a full holdoff without a byte from    *)
(* the host, and no sleep begins over bytes not yet handled, whenever they   *)
(* arrive between the checks (power_sleep.c, the holdoff and the boundary). *)
(***************************************************************************)
SilenceBeforeSleep ==
  [][EntersSleep => RxQuiet /\ (pwr_explicit_request \/ silence >= Holdoff)]_vars

(***************************************************************************)
(* An explicit request finds the link down, so that its idle callback can   *)
(* take it: the main loop will not idle while it is armed (main.c,          *)
(* Power_Service; power_sleep.c, CH59x_LowPower's veto).                    *)
(***************************************************************************)
RequestFindsLinkDown == pwr_explicit_request => rf = "IDLE"

(***************************************************************************)
(* A sleep the host asked for is resolved: Power_Service hands it on, or it  *)
(* is withdrawn or given up, although the host never stops sending           *)
(* (main.c, Power_Service's bound).                                         *)
(***************************************************************************)
DrainResolves == sleep_pending ~> ~sleep_pending

(***************************************************************************)
(* Once the host and the link fall silent an armed explicit request is taken *)
(* or withdrawn, unless the host stopped in the middle of a frame            *)
(* (power_sleep.c, CH59x_LowPower leaves a vetoed request armed).           *)
(***************************************************************************)
Chatter == rx' \notin {rx, "empty"} \/ (hostWakeBusy' /\ ~hostWakeBusy)

RequestTaken ==
  <>[][~Chatter]_vars =>
    (pwr_explicit_request ~>
       pc = "prologue" \/ ~pwr_explicit_request \/ rx = "partial")

(***************************************************************************)
(* An update request is always served: nothing the host sends and no sleep  *)
(* stands between it and the bootloader (main.c, OpenBoot_Service; OTA wins *)
(* in the reducer, in Power_Service and in the idle callback).              *)
(***************************************************************************)
UpdateServed == openboot_entry_pending ~> pc = "update"

(***************************************************************************)
(* sleep_protocol.c:20-22 says that A6 56 is a "RESET to the protocol        *)
(* baseline: unlocked, no pending sleep": no explicit sleep is taken after   *)
(* it without a new A6 54.  It does not hold of a request the power layer    *)
(* already has.                                                             *)
(***************************************************************************)
ResetWithdraws == [][EntersSleep /\ pwr_explicit_request => lastAsked # "reset"]_vars

(***************************************************************************)
(* sleep_protocol.c:46-47 says that "A duplicate A6 54 keeps the existing    *)
(* request (does not re-arm)": once the host has woken the module from an    *)
(* explicit sleep, none is taken again without a new A6 54.  It does not     *)
(* hold of a duplicate that comes after Power_Service took the first.        *)
(***************************************************************************)
WakeEndsRequest == [][EntersSleep /\ pwr_explicit_request => lastAsked # "wake"]_vars

(***************************************************************************)
(* power_sleep.c:193-196 says that "after a GPIO wake OR any accepted UART   *)
(* frame, autonomous sleep is refused" for the holdoff: no autonomous sleep   *)
(* begins within a holdoff of an edge that met a sleeping module.  It does    *)
(* not hold of an edge that coincides with the module's own deadline.         *)
(***************************************************************************)
HeldAfterWake == [][EntersSleep => pwr_explicit_request \/ edge >= Holdoff]_vars
=============================================================================
