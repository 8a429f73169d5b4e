--------------------------- MODULE SleepCtlProofs ---------------------------
(***************************************************************************)
(* The safety of deep sleep, for every holdoff and every set of frames the   *)
(* host sends: an explicit request finds the link down                       *)
(* (RequestFindsLinkDown), the last command wins (LastCommandWins), and no   *)
(* sleep begins over a byte or within the holdoff (SilenceBeforeSleep).  And *)
(* the power layer's crash record is kept until it is read (RecordKept).     *)
(***************************************************************************)
EXTENDS SleepCtl, TLAPS

\* Whoever holds the request, the reducer or the power layer, holds one that
\* no state-changing command has followed.
RequestIsNewest ==
  sleep_pending \/ pwr_explicit_request => lastAsked \notin {"none", "other"}

\* Without the latch, a silence shorter than the holdoff is covered by a running
\* holdoff that is no older than the silence.
HoldoffCovers ==
  rx_activity_latch \/ silence >= Holdoff
    \/ (pwr_holdoff_active /\ holdAge <= silence)

\* At the boundary: explicit, or silent for the holdoff, or a byte has come
\* since the gate and the last look at the ring will see it.
BoundaryIsQuiet ==
  pc = "boundary" =>
    rx # "empty" \/ pwr_explicit_request \/ silence >= Holdoff

SleepInv ==
  /\ TypeOK
  /\ RequestFindsLinkDown /\ RequestIsNewest
  /\ HoldoffCovers /\ BoundaryIsQuiet

Pc == {"tmos", "boundary", "prologue", "asleep", "woken", "poll", "boot",
       "power", "update"}
Asked == {"none", "sleep", "reset", "wake", "other"}

\* TypeOK, variable by variable.
LEMMA Types ==
  ASSUME TypeOK
  PROVE  /\ pc \in Pc /\ rx \in Rx /\ rf \in {"IDLE", "SHUT", "LIVE"}
         /\ lastAsked \in Asked
         /\ holdAge \in 0..Holdoff /\ silence \in 0..Holdoff
         /\ edge \in 0..Holdoff
         /\ unlocked \in BOOLEAN /\ sleep_pending \in BOOLEAN
         /\ autosleep \in BOOLEAN /\ svc_state \in BOOLEAN
         /\ openboot_entry_pending \in BOOLEAN /\ ob_state \in BOOLEAN
         /\ pwr_explicit_request \in BOOLEAN /\ pwr_holdoff_active \in BOOLEAN
         /\ rx_activity_latch \in BOOLEAN /\ fifoBusy \in BOOLEAN
         /\ hostWakeBusy \in BOOLEAN /\ RTCTigFlag \in BOOLEAN
         /\ pwr_gpio_woke \in BOOLEAN
BY Zenon DEF TypeOK, Pc, Asked

LEMMA TypesBack ==
  ASSUME pc' \in Pc, rx' \in Rx, rf' \in {"IDLE", "SHUT", "LIVE"},
         lastAsked' \in Asked,
         holdAge' \in 0..Holdoff, silence' \in 0..Holdoff, edge' \in 0..Holdoff,
         unlocked' \in BOOLEAN, sleep_pending' \in BOOLEAN,
         autosleep' \in BOOLEAN, svc_state' \in BOOLEAN,
         openboot_entry_pending' \in BOOLEAN, ob_state' \in BOOLEAN,
         pwr_explicit_request' \in BOOLEAN, pwr_holdoff_active' \in BOOLEAN,
         rx_activity_latch' \in BOOLEAN, fifoBusy' \in BOOLEAN,
         hostWakeBusy' \in BOOLEAN, RTCTigFlag' \in BOOLEAN,
         pwr_gpio_woke' \in BOOLEAN
  PROVE  TypeOK'
BY DEF TypeOK, Pc, Asked

\* The ages: zero and the holdoff are ages, a tick later is one, and ticks keep
\* their order.
LEMMA Ages ==
  /\ 0 \in 0..Holdoff /\ Holdoff \in 0..Holdoff /\ Holdoff >= Holdoff
  /\ \A t \in 0..Holdoff : /\ 0 <= t /\ Later(t) \in 0..Holdoff
                           /\ t >= Holdoff => Later(t) >= Holdoff
                           /\ t >= Holdoff \/ t < Holdoff
  /\ \A s, t \in 0..Holdoff : /\ s <= t => Later(s) <= Later(t)
                              /\ s <= t /\ s >= Holdoff => t >= Holdoff
BY HoldoffAssumption DEF Later

LEMMA SleepInit == Init => SleepInv
<1> SUFFICES ASSUME Init PROVE SleepInv
  OBVIOUS
<1>1. TypeOK
  BY Ages, Zenon DEF Init, TypeOK, Rx
<1>2. /\ RequestFindsLinkDown /\ RequestIsNewest
      /\ HoldoffCovers /\ BoundaryIsQuiet
  BY Ages, Zenon
     DEF Init, RequestFindsLinkDown, RequestIsNewest, HoldoffCovers,
         BoundaryIsQuiet
<1> QED
  BY <1>1, <1>2 DEF SleepInv

\* A byte: the latch is set, and at the boundary the ring is not empty.
LEMMA HostByteKeeps ==
  ASSUME SleepInv, NEW r \in Rx, HostByte(r)
  PROVE  SleepInv'
<1>f. r # "empty"
  BY SentAssumption DEF HostByte, Frame, StateChanging
<1>t. TypeOK /\ RequestFindsLinkDown /\ RequestIsNewest /\ HoldoffCovers
      /\ BoundaryIsQuiet
  BY DEF SleepInv
<1>u. UNCHANGED <<pc, unlocked, sleep_pending, autosleep, svc_state,
                  openboot_entry_pending, ob_state, pwr_explicit_request,
                  pwr_holdoff_active, holdAge, fifoBusy, hostWakeBusy, rf,
                  RTCTigFlag, lastAsked>>
  BY DEF HostByte, protoVars, bootVars, holdVars, txVars
<1>1. TypeOK'
  <2>1. /\ rx' \in Rx
        /\ rx_activity_latch' \in BOOLEAN
        /\ pwr_gpio_woke' \in BOOLEAN
        /\ silence' \in 0..Holdoff
        /\ edge' \in 0..Holdoff
    BY <1>t, Types, Ages DEF HostByte
  <2> QED
    BY <1>t, <1>u, <2>1, Types, TypesBack
<1>2. RequestFindsLinkDown' /\ RequestIsNewest'
  BY <1>t, <1>u DEF RequestFindsLinkDown, RequestIsNewest
<1>3. HoldoffCovers' /\ BoundaryIsQuiet'
  BY <1>f DEF HostByte, HoldoffCovers, BoundaryIsQuiet
<1> QED
  BY <1>1, <1>2, <1>3 DEF SleepInv

\* What ends a sleep, and the FIFO.
LEMMA WakesKeep ==
  ASSUME SleepInv, HostEdge \/ RtcDeadline \/ FifoDrains
  PROVE  SleepInv'
<1>t. TypeOK /\ RequestFindsLinkDown /\ RequestIsNewest /\ HoldoffCovers
      /\ BoundaryIsQuiet
  BY DEF SleepInv
<1>u. UNCHANGED <<unlocked, sleep_pending, autosleep, svc_state,
                  openboot_entry_pending, ob_state, pwr_explicit_request,
                  pwr_holdoff_active, holdAge, rx, rx_activity_latch,
                  hostWakeBusy, rf, lastAsked, silence>>
  BY DEF HostEdge, RtcDeadline, FifoDrains, protoVars, bootVars, holdVars,
         txVars
<1>1. TypeOK'
  <2>1. /\ pc' \in Pc
        /\ fifoBusy' \in BOOLEAN
        /\ RTCTigFlag' \in BOOLEAN
        /\ pwr_gpio_woke' \in BOOLEAN
        /\ edge' \in 0..Holdoff
    BY <1>t, Types, Ages
       DEF HostEdge, RtcDeadline, FifoDrains, Pc, txVars, wakeVars
  <2> QED
    BY <1>t, <1>u, <2>1, Types, TypesBack
<1>2. RequestFindsLinkDown' /\ RequestIsNewest'
  BY <1>t, <1>u DEF RequestFindsLinkDown, RequestIsNewest
<1>3. HoldoffCovers' /\ BoundaryIsQuiet'
  BY <1>t, <1>u
     DEF HostEdge, RtcDeadline, FifoDrains, HoldoffCovers, BoundaryIsQuiet
<1> QED
  BY <1>1, <1>2, <1>3 DEF SleepInv

\* A tick ages the silence and the holdoff together.
LEMMA TickKeeps ==
  ASSUME SleepInv, Tick
  PROVE  SleepInv'
<1>t. TypeOK /\ RequestFindsLinkDown /\ RequestIsNewest /\ HoldoffCovers
      /\ BoundaryIsQuiet
  BY DEF SleepInv
<1>u. UNCHANGED <<pc, unlocked, sleep_pending, autosleep, svc_state,
                  openboot_entry_pending, ob_state, pwr_explicit_request,
                  pwr_holdoff_active, rx, rx_activity_latch, fifoBusy,
                  hostWakeBusy, rf, RTCTigFlag, pwr_gpio_woke, lastAsked>>
  BY DEF Tick, protoVars, bootVars, txVars, wakeVars
<1>1. TypeOK'
  <2>1. /\ holdAge' \in 0..Holdoff
        /\ silence' \in 0..Holdoff
        /\ edge' \in 0..Holdoff
    BY <1>t, Types, Ages DEF Tick
  <2> QED
    BY <1>t, <1>u, <2>1, Types, TypesBack
<1>2. RequestFindsLinkDown' /\ RequestIsNewest'
  BY <1>t, <1>u DEF RequestFindsLinkDown, RequestIsNewest
<1>3. HoldoffCovers' /\ BoundaryIsQuiet'
  BY <1>t, Types, Ages DEF Tick, HoldoffCovers, BoundaryIsQuiet
<1> QED
  BY <1>1, <1>2, <1>3 DEF SleepInv

\* Bytes that reach no handler, and host wake's share of the pass.
LEMMA DropBytesKeeps ==
  ASSUME SleepInv, DropBytes \/ KeyboardUart_Service
  PROVE  SleepInv'
<1>t. TypeOK /\ RequestFindsLinkDown /\ RequestIsNewest /\ HoldoffCovers
      /\ BoundaryIsQuiet
  BY DEF SleepInv
<1>u. UNCHANGED <<unlocked, sleep_pending, autosleep, svc_state,
                  openboot_entry_pending, ob_state, pwr_explicit_request,
                  pwr_holdoff_active, holdAge, rx_activity_latch, rf,
                  RTCTigFlag, pwr_gpio_woke, lastAsked, silence, edge>>
  BY DEF DropBytes, KeyboardUart_Service, protoVars, bootVars, holdVars,
         wakeVars
<1>1. TypeOK'
  <2>1. /\ pc' \in Pc
        /\ rx' \in Rx
        /\ fifoBusy' \in BOOLEAN
        /\ hostWakeBusy' \in BOOLEAN
    BY <1>t, Types DEF DropBytes, KeyboardUart_Service, Pc, Rx, txVars
  <2> QED
    BY <1>t, <1>u, <2>1, Types, TypesBack
<1>2. RequestFindsLinkDown' /\ RequestIsNewest'
  BY <1>t, <1>u DEF RequestFindsLinkDown, RequestIsNewest
<1>3. HoldoffCovers' /\ BoundaryIsQuiet'
  BY <1>t, <1>u
     DEF DropBytes, KeyboardUart_Service, HoldoffCovers, BoundaryIsQuiet
<1> QED
  BY <1>1, <1>2, <1>3 DEF SleepInv

\* The update service only ever takes the link down.
LEMMA OpenBootKeeps ==
  ASSUME SleepInv, OpenBoot_Service
  PROVE  SleepInv'
<1>t. TypeOK /\ RequestFindsLinkDown /\ RequestIsNewest /\ HoldoffCovers
      /\ BoundaryIsQuiet
  BY DEF SleepInv
<1>u. UNCHANGED <<unlocked, sleep_pending, autosleep, svc_state,
                  openboot_entry_pending, pwr_explicit_request,
                  pwr_holdoff_active, holdAge, rx, rx_activity_latch, fifoBusy,
                  hostWakeBusy, RTCTigFlag, pwr_gpio_woke, lastAsked, silence,
                  edge>>
  BY DEF OpenBoot_Service, protoVars, holdVars, txVars, wakeVars
<1>1. TypeOK'
  <2>1. /\ pc' \in Pc
        /\ ob_state' \in BOOLEAN
        /\ rf' \in {"IDLE", "SHUT", "LIVE"}
    BY <1>t, Types DEF OpenBoot_Service, Pc
  <2> QED
    BY <1>t, <1>u, <2>1, Types, TypesBack
<1>2. RequestFindsLinkDown' /\ RequestIsNewest'
  BY <1>t, <1>u DEF OpenBoot_Service, RequestFindsLinkDown, RequestIsNewest
<1>3. HoldoffCovers' /\ BoundaryIsQuiet'
  BY <1>t, <1>u DEF OpenBoot_Service, HoldoffCovers, BoundaryIsQuiet
<1> QED
  BY <1>1, <1>2, <1>3 DEF SleepInv

\* A reboot withdraws everything.
LEMMA RebootKeeps ==
  ASSUME SleepInv, Reboot
  PROVE  SleepInv'
<1>1. TypeOK'
  <2>1. /\ pc' \in Pc
        /\ unlocked' \in BOOLEAN
        /\ sleep_pending' \in BOOLEAN
        /\ autosleep' \in BOOLEAN
        /\ svc_state' \in BOOLEAN
        /\ openboot_entry_pending' \in BOOLEAN
        /\ ob_state' \in BOOLEAN
        /\ pwr_explicit_request' \in BOOLEAN
        /\ pwr_holdoff_active' \in BOOLEAN
        /\ holdAge' \in 0..Holdoff
        /\ rx' \in Rx
        /\ rx_activity_latch' \in BOOLEAN
        /\ fifoBusy' \in BOOLEAN
        /\ hostWakeBusy' \in BOOLEAN
        /\ rf' \in {"IDLE", "SHUT", "LIVE"}
        /\ RTCTigFlag' \in BOOLEAN
        /\ pwr_gpio_woke' \in BOOLEAN
        /\ lastAsked' \in Asked
        /\ silence' \in 0..Holdoff
        /\ edge' \in 0..Holdoff
    BY Ages DEF Reboot, Pc, Asked, Rx
  <2> QED
    BY <2>1, TypesBack
<1>2. RequestFindsLinkDown' /\ RequestIsNewest'
  BY DEF Reboot, RequestFindsLinkDown, RequestIsNewest
<1>3. HoldoffCovers' /\ BoundaryIsQuiet'
  BY Ages DEF Reboot, HoldoffCovers, BoundaryIsQuiet
<1> QED
  BY <1>1, <1>2, <1>3 DEF SleepInv

\* Power_Service passes the request on, or drops it.
LEMMA PowerKeeps ==
  ASSUME SleepInv, Power_Service
  PROVE  SleepInv'
<1>t. TypeOK /\ RequestFindsLinkDown /\ RequestIsNewest /\ HoldoffCovers
      /\ BoundaryIsQuiet
  BY DEF SleepInv
<1>u. UNCHANGED <<unlocked, autosleep, openboot_entry_pending, ob_state,
                  pwr_holdoff_active, holdAge, rx, rx_activity_latch, fifoBusy,
                  hostWakeBusy, RTCTigFlag, pwr_gpio_woke, lastAsked, silence,
                  edge>>
  BY DEF Power_Service, bootVars, holdVars, txVars, wakeVars
<1>1. TypeOK'
  <2>1. /\ pc' \in Pc
        /\ sleep_pending' \in BOOLEAN
        /\ svc_state' \in BOOLEAN
        /\ pwr_explicit_request' \in BOOLEAN
        /\ rf' \in {"IDLE", "SHUT", "LIVE"}
    BY <1>t, Types
       DEF Power_Service, PowerStart, PowerStandDown, PowerDraining,
           PowerRequest, Pc
  <2> QED
    BY <1>t, <1>u, <2>1, Types, TypesBack
<1>2. RequestFindsLinkDown' /\ RequestIsNewest'
  BY <1>t, Types
     DEF Power_Service, PowerStart, PowerStandDown, PowerDraining,
         PowerRequest, RequestFindsLinkDown, RequestIsNewest
<1>3. HoldoffCovers' /\ BoundaryIsQuiet'
  BY <1>t, <1>u DEF Power_Service, HoldoffCovers, BoundaryIsQuiet
<1> QED
  BY <1>1, <1>2, <1>3 DEF SleepInv

\* Events never raise an idle link.
LEMMA TmosKeeps ==
  ASSUME SleepInv, TmosEvents
  PROVE  SleepInv'
<1>t. TypeOK /\ RequestFindsLinkDown /\ RequestIsNewest /\ HoldoffCovers
      /\ BoundaryIsQuiet
  BY DEF SleepInv
<1>u. UNCHANGED <<unlocked, sleep_pending, autosleep, svc_state,
                  openboot_entry_pending, ob_state, pwr_explicit_request,
                  pwr_holdoff_active, holdAge, rx, rx_activity_latch, fifoBusy,
                  RTCTigFlag, pwr_gpio_woke, lastAsked, silence, edge>>
  BY DEF TmosEvents, protoVars, bootVars, holdVars, wakeVars
<1>1. TypeOK'
  <2>1. /\ pc' \in Pc
        /\ hostWakeBusy' \in BOOLEAN
        /\ rf' \in {"IDLE", "SHUT", "LIVE"}
    BY <1>t, Types DEF TmosEvents, Pc
  <2> QED
    BY <1>t, <1>u, <2>1, Types, TypesBack
<1>2. RequestFindsLinkDown' /\ RequestIsNewest'
  BY <1>t, <1>u DEF TmosEvents, RequestFindsLinkDown, RequestIsNewest
<1>3. HoldoffCovers' /\ BoundaryIsQuiet'
  BY <1>t, <1>u DEF TmosEvents, HoldoffCovers, BoundaryIsQuiet
<1> QED
  BY <1>1, <1>2, <1>3 DEF SleepInv

\* The gates: past the autonomous one the silence has lasted a holdoff.
LEMMA GatesKeep ==
  ASSUME SleepInv, CH59x_LowPower
  PROVE  SleepInv'
<1>t. TypeOK /\ RequestFindsLinkDown /\ RequestIsNewest /\ HoldoffCovers
      /\ BoundaryIsQuiet
  BY DEF SleepInv
<1>u. UNCHANGED <<unlocked, sleep_pending, autosleep, svc_state,
                  openboot_entry_pending, ob_state, pwr_explicit_request, rx,
                  fifoBusy, hostWakeBusy, rf, RTCTigFlag, pwr_gpio_woke,
                  lastAsked, silence, edge>>
  BY DEF CH59x_LowPower, ExplicitGate, AutosleepGate, protoVars, bootVars,
         txVars, wakeVars, idleVars
<1>1. TypeOK'
  <2>1. /\ pc' \in Pc
        /\ pwr_holdoff_active' \in BOOLEAN
        /\ holdAge' \in 0..Holdoff
        /\ rx_activity_latch' \in BOOLEAN
    BY <1>t, Types, Ages
       DEF CH59x_LowPower, ExplicitGate, AutosleepGate, HoldoffRestarts,
           HoldoffRuns, HoldoffExpired, pwr_note_activity, Pc, holdVars
  <2> QED
    BY <1>t, <1>u, <2>1, Types, TypesBack
<1>2. RequestFindsLinkDown' /\ RequestIsNewest'
  BY <1>t, <1>u DEF RequestFindsLinkDown, RequestIsNewest
<1>3. HoldoffCovers' /\ BoundaryIsQuiet'
  BY <1>t, <1>u, Types, Ages
     DEF CH59x_LowPower, ExplicitGate, AutosleepGate, HoldoffRestarts,
         HoldoffRuns, HoldoffExpired, pwr_note_activity, HoldoffCovers,
         BoundaryIsQuiet, holdVars
<1> QED
  BY <1>1, <1>2, <1>3 DEF SleepInv

\* The entry into the wait, or not.
LEMMA EntryKeeps ==
  ASSUME SleepInv, SleepVetoed \/ SleepEntered \/ Wfi
  PROVE  SleepInv'
<1>t. TypeOK /\ RequestFindsLinkDown /\ RequestIsNewest /\ HoldoffCovers
      /\ BoundaryIsQuiet
  BY DEF SleepInv
<1>u. UNCHANGED <<unlocked, sleep_pending, autosleep, svc_state,
                  openboot_entry_pending, ob_state, pwr_explicit_request,
                  pwr_holdoff_active, holdAge, rx, rx_activity_latch, fifoBusy,
                  hostWakeBusy, rf, lastAsked, silence, edge>>
  BY DEF SleepVetoed, SleepEntered, Wfi, protoVars, bootVars, holdVars,
         txVars, idleVars
<1>1. TypeOK'
  <2>1. /\ pc' \in Pc
        /\ RTCTigFlag' \in BOOLEAN
        /\ pwr_gpio_woke' \in BOOLEAN
    BY <1>t, Types DEF SleepVetoed, SleepEntered, Wfi, Pc, wakeVars, idleVars
  <2> QED
    BY <1>t, <1>u, <2>1, Types, TypesBack
<1>2. RequestFindsLinkDown' /\ RequestIsNewest'
  BY <1>t, <1>u DEF RequestFindsLinkDown, RequestIsNewest
<1>3. HoldoffCovers' /\ BoundaryIsQuiet'
  BY <1>t, <1>u
     DEF SleepVetoed, SleepEntered, Wfi, HoldoffCovers, BoundaryIsQuiet
<1> QED
  BY <1>1, <1>2, <1>3 DEF SleepInv

\* The wake: an edge ends the request and starts a holdoff.
LEMMA ReturnKeeps ==
  ASSUME SleepInv, NEW late \in BOOLEAN, SleepReturns(late)
  PROVE  SleepInv'
<1>t. TypeOK /\ RequestFindsLinkDown /\ RequestIsNewest /\ HoldoffCovers
      /\ BoundaryIsQuiet
  BY DEF SleepInv
<1>u. UNCHANGED <<unlocked, sleep_pending, autosleep, svc_state,
                  openboot_entry_pending, ob_state, rx, rx_activity_latch,
                  fifoBusy, hostWakeBusy, rf, RTCTigFlag, silence, edge>>
  BY DEF SleepReturns, protoVars, bootVars, txVars
<1>1. TypeOK'
  <2>1. /\ pc' \in Pc
        /\ pwr_explicit_request' \in BOOLEAN
        /\ pwr_holdoff_active' \in BOOLEAN
        /\ holdAge' \in 0..Holdoff
        /\ pwr_gpio_woke' \in BOOLEAN
        /\ lastAsked' \in Asked
    BY <1>t, Types, Ages
       DEF SleepReturns, pwr_note_activity, Pc, Asked, holdVars
  <2> QED
    BY <1>t, <1>u, <2>1, Types, TypesBack
<1>2. RequestFindsLinkDown' /\ RequestIsNewest'
  BY <1>t, <1>u DEF SleepReturns, RequestFindsLinkDown, RequestIsNewest
<1>3. HoldoffCovers' /\ BoundaryIsQuiet'
  BY <1>t, Types
     DEF SleepReturns, pwr_note_activity, HoldoffCovers, BoundaryIsQuiet,
         holdVars
<1> QED
  BY <1>1, <1>2, <1>3 DEF SleepInv

\* A frame: a state-changing one withdraws the request wherever it is, and
\* only such a one may raise the link.
LEMMA FrameKeeps ==
  ASSUME SleepInv, NEW f \in Sent, handle_uart_frame(f)
  PROVE  SleepInv'
<1>t. TypeOK /\ RequestFindsLinkDown /\ RequestIsNewest /\ HoldoffCovers
      /\ BoundaryIsQuiet
  BY DEF SleepInv
<1>u. UNCHANGED <<pc, svc_state, ob_state, rx_activity_latch, RTCTigFlag,
                  pwr_gpio_woke, edge>>
  BY DEF handle_uart_frame, wakeVars
<1>1. TypeOK'
  <2>1. /\ unlocked' \in BOOLEAN
        /\ sleep_pending' \in BOOLEAN
        /\ autosleep' \in BOOLEAN
        /\ openboot_entry_pending' \in BOOLEAN
        /\ pwr_explicit_request' \in BOOLEAN
        /\ pwr_holdoff_active' \in BOOLEAN
        /\ holdAge' \in 0..Holdoff
        /\ rx' \in Rx
        /\ fifoBusy' \in BOOLEAN
        /\ hostWakeBusy' \in BOOLEAN
        /\ rf' \in {"IDLE", "SHUT", "LIVE"}
        /\ lastAsked' \in Asked
        /\ silence' \in 0..Holdoff
    BY <1>t, Types, Ages
       DEF handle_uart_frame, SleepProtocol_OnFrame, pwr_note_activity,
           PowerSleep_CancelExplicit, LinkAfter, Asked, Rx
  <2> QED
    BY <1>t, <1>u, <2>1, Types, TypesBack
<1>2. RequestFindsLinkDown' /\ RequestIsNewest'
  <2>1. f \in Frame
    BY SentAssumption
  <2>2. pwr_explicit_request' = (pwr_explicit_request /\ f \notin StateChanging)
    BY DEF handle_uart_frame, PowerSleep_CancelExplicit
  <2>3. CASE f \in StateChanging
    <3>1. sleep_pending' = FALSE
      BY <2>3 DEF handle_uart_frame, SleepProtocol_OnFrame
    <3> QED
      BY <2>2, <2>3, <3>1 DEF RequestFindsLinkDown, RequestIsNewest
  <2>4. CASE f \in {"unlock", "auto", "sleep", "query"}
    <3>1. rf' = rf /\ pwr_explicit_request' = pwr_explicit_request
      BY <1>t, <2>2, <2>4, Types
         DEF handle_uart_frame, LinkAfter, StateChanging
    <3>2. CASE f = "unlock"
      <4>1. lastAsked' = "reset"
        BY <3>2 DEF handle_uart_frame, StateChanging
      <4> QED
        BY <1>t, <3>1, <4>1 DEF RequestFindsLinkDown, RequestIsNewest
    <3>3. CASE f = "sleep"
      <4>1. lastAsked' = IF sleep_pending' THEN "sleep" ELSE lastAsked
        BY <3>3 DEF handle_uart_frame, StateChanging
      <4> QED
        BY <1>t, <3>1, <4>1 DEF RequestFindsLinkDown, RequestIsNewest
    <3>4. CASE f \in {"auto", "query"}
      <4>1. lastAsked' = lastAsked /\ sleep_pending' = sleep_pending
        BY <3>4 DEF handle_uart_frame, SleepProtocol_OnFrame, StateChanging
      <4> QED
        BY <1>t, <3>1, <4>1 DEF RequestFindsLinkDown, RequestIsNewest
    <3> QED
      BY <2>4, <3>2, <3>3, <3>4
  <2> QED
    BY <2>1, <2>3, <2>4 DEF Frame
<1>3. HoldoffCovers' /\ BoundaryIsQuiet'
  BY DEF handle_uart_frame, pwr_note_activity, HoldoffCovers, BoundaryIsQuiet
<1> QED
  BY <1>1, <1>2, <1>3 DEF SleepInv

LEMMA SleepStep == SleepInv /\ [Next]_vars => SleepInv'
<1> SUFFICES ASSUME SleepInv, [Next]_vars PROVE SleepInv'
  OBVIOUS
<1>1. CASE Next
  BY <1>1, HostByteKeeps, WakesKeep, TickKeeps, DropBytesKeeps, OpenBootKeeps,
     RebootKeeps, PowerKeeps, TmosKeeps, GatesKeep, EntryKeeps, ReturnKeeps,
     FrameKeeps
     DEF Next, Main_Circulation
<1>2. CASE UNCHANGED vars
  BY <1>2
     DEF vars, protoVars, bootVars, holdVars, txVars, wakeVars, SleepInv,
         TypeOK, RequestFindsLinkDown, RequestIsNewest, HoldoffCovers,
         BoundaryIsQuiet
<1> QED
  BY <1>1, <1>2

LEMMA SleepAlways == Spec => []SleepInv
BY SleepInit, SleepStep, PTL DEF Spec

(* The types of sleep control, for every holdoff and every set of frames.    *)
THEOREM SleepTypes == Spec => []TypeOK
<1>1. SleepInv => TypeOK
  BY DEF SleepInv
<1> QED
  BY <1>1, SleepAlways, PTL

(* A request that Power_Service has handed on finds the link down until it   *)
(* is taken or withdrawn.                                                    *)
THEOREM RequestFindsLinkDownAlways == Spec => []RequestFindsLinkDown
<1>1. SleepInv => RequestFindsLinkDown
  BY DEF SleepInv
<1> QED
  BY <1>1, SleepAlways, PTL

(* No explicit sleep is taken once a state-changing command has followed the *)
(* request.                                                                  *)
THEOREM LastCommandWinsAlways == Spec => LastCommandWins
<1>1. SleepInv /\ [Next]_vars =>
        [EntersSleep /\ pwr_explicit_request =>
           lastAsked \notin {"none", "other"}]_vars
  BY DEF SleepInv, RequestIsNewest
<1> QED
  BY <1>1, SleepAlways, PTL DEF Spec, LastCommandWins

(* No sleep begins over a byte not yet handled, and no autonomous one within *)
(* a holdoff of the last byte.                                               *)
THEOREM SilenceBeforeSleepAlways == Spec => SilenceBeforeSleep
<1>1. SleepInv /\ [Next]_vars =>
        [EntersSleep =>
           RxQuiet /\ (pwr_explicit_request \/ silence >= Holdoff)]_vars
  <2> SUFFICES ASSUME SleepInv, Next, EntersSleep
               PROVE  RxQuiet /\ (pwr_explicit_request \/ silence >= Holdoff)
    OBVIOUS
  <2>1. pc = "boundary" /\ pc' = "prologue"
    BY DEF EntersSleep
  <2>2. SleepEntered
    BY <2>1
       DEF Next, Main_Circulation, Reboot, HostByte, HostEdge, RtcDeadline,
           FifoDrains, Tick, TmosEvents, CH59x_LowPower, ExplicitGate,
           AutosleepGate, SleepVetoed, Wfi, SleepReturns, handle_uart_frame,
           DropBytes, KeyboardUart_Service, OpenBoot_Service, Power_Service
  <2>3. RxQuiet
    BY <2>2 DEF SleepEntered
  <2> QED
    BY <2>1, <2>3 DEF SleepInv, BoundaryIsQuiet, RxQuiet
<1> QED
  BY <1>1, SleepAlways, PTL DEF Spec, SilenceBeforeSleep
-----------------------------------------------------------------------------
(* The crash record of the power layer's counters (Forensics).               *)
CONSTANTS Width, Bytes, Refusal, NoRecord
VARIABLES counters, pwr_forensics_frozen, connected, frame, sent, record

Crash == INSTANCE Forensics

(* A record waits exactly while the counters are frozen.  This is what keeps *)
(* Count away from a record, and what neither property says alone.           *)
FrozenIff == pwr_forensics_frozen <=> record # NoRecord

CrashInv == Crash!TypeOK /\ FrozenIff /\ Crash!RecordUntilRead

LEMMA CrashInit ==
  ASSUME Crash!ForensicsAssumption
  PROVE  Crash!Init => CrashInv
<1> SUFFICES ASSUME Crash!Init PROVE CrashInv
  OBVIOUS
<1>1. Crash!TypeOK
  <2>1. pwr_forensics_frozen \in BOOLEAN /\ connected \in BOOLEAN
    BY Zenon DEF Crash!Init
  <2>2. /\ counters \in 0..(Width - 1) /\ sent \in 0..(Bytes + 1)
        /\ frame = NoRecord /\ record = NoRecord
    BY SMT DEF Crash!Init, Crash!ForensicsAssumption
  <2> QED
    BY <2>1, <2>2, Zenon DEF Crash!TypeOK
<1>2. FrozenIff
  BY Zenon DEF Crash!Init, FrozenIff
<1>3. Crash!RecordUntilRead
  BY Zenon DEF Crash!Init, Crash!RecordUntilRead
<1> QED
  BY <1>1, <1>2, <1>3 DEF CrashInv

LEMMA CrashNext ==
  ASSUME Crash!ForensicsAssumption
  PROVE  CrashInv /\ [Crash!Next]_(Crash!vars) => CrashInv'
<1> SUFFICES ASSUME CrashInv, [Crash!Next]_(Crash!vars) PROVE CrashInv'
  OBVIOUS
<1> USE DEF CrashInv, Crash!TypeOK, FrozenIff, Crash!RecordUntilRead,
            Crash!dumping, Crash!length, Crash!ForensicsAssumption
<1>1. CASE Crash!Count
  BY <1>1, SMT DEF Crash!Count
<1>2. CASE Crash!LinkChanges
  BY <1>2, SMT DEF Crash!LinkChanges
<1>3. CASE Crash!DumpStart
  <2>1. Crash!TypeOK'
    BY <1>3, SMT DEF Crash!DumpStart
  <2>2. FrozenIff'
    BY <1>3, SMT DEF Crash!DumpStart
  <2>3. Crash!RecordUntilRead'
    BY <1>3, SMT DEF Crash!DumpStart
  <2> QED
    BY <2>1, <2>2, <2>3 DEF CrashInv
<1>4. CASE Crash!KeyboardUart_SendRaw
  <2>1. Crash!TypeOK'
    BY <1>4, SMT DEF Crash!KeyboardUart_SendRaw
  <2>2. FrozenIff'
    BY <1>4, SMT DEF Crash!KeyboardUart_SendRaw
  <2>3. Crash!RecordUntilRead'
    BY <1>4, SMT DEF Crash!KeyboardUart_SendRaw
  <2> QED
    BY <2>1, <2>2, <2>3 DEF CrashInv
<1>5. CASE Crash!DumpEnd
  <2>1. Crash!TypeOK'
    BY <1>5, SMT DEF Crash!DumpEnd, Crash!NoDump
  <2>2. FrozenIff'
    BY <1>5, Zenon DEF Crash!DumpEnd
  <2>3. Crash!RecordUntilRead'
    BY <1>5, SMT DEF Crash!DumpEnd, Crash!NoDump
  <2> QED
    BY <2>1, <2>2, <2>3 DEF CrashInv
<1>6. CASE Crash!DiagDump_Zero
  <2>1. pwr_forensics_frozen' \in BOOLEAN /\ connected' \in BOOLEAN
    BY <1>6, Zenon DEF Crash!DiagDump_Zero
  <2>2. /\ counters' \in 0..(Width - 1) /\ sent' \in 0..(Bytes + 1)
        /\ frame' \in 0..(Width - 1) \cup {NoRecord}
        /\ record' \in 0..(Width - 1) \cup {NoRecord}
    BY <1>6, SMT DEF Crash!DiagDump_Zero
  <2>3. FrozenIff'
    BY <1>6, Zenon DEF Crash!DiagDump_Zero
  <2>4. Crash!RecordUntilRead'
    BY <1>6, SMT DEF Crash!DiagDump_Zero
  <2> QED
    BY <2>1, <2>2, <2>3, <2>4, Zenon DEF CrashInv, Crash!TypeOK
<1>7. ASSUME NEW watchdog \in BOOLEAN, Crash!Reset(watchdog) PROVE CrashInv'
  <2>1. pwr_forensics_frozen' \in BOOLEAN /\ connected' \in BOOLEAN
    BY <1>7, Zenon DEF Crash!Reset
  <2>2. /\ counters' \in 0..(Width - 1) /\ sent' \in 0..(Bytes + 1)
        /\ frame' \in 0..(Width - 1) \cup {NoRecord}
        /\ record' \in 0..(Width - 1) \cup {NoRecord}
    BY <1>7, SMT DEF Crash!Reset, Crash!NoDump
  <2>3. FrozenIff'
    <3>1. counters # NoRecord
      BY SMT
    <3>2. CASE watchdog
      BY <1>7, <3>1, <3>2, Zenon DEF Crash!Reset
    <3>3. CASE ~watchdog
      BY <1>7, <3>3, Zenon DEF Crash!Reset
    <3> QED
      BY <3>2, <3>3
  <2>4. Crash!RecordUntilRead'
    BY <1>7, SMT DEF Crash!Reset, Crash!NoDump
  <2> QED
    BY <2>1, <2>2, <2>3, <2>4, Zenon DEF CrashInv, Crash!TypeOK
<1>8. CASE UNCHANGED Crash!vars
  BY <1>8, SMT DEF Crash!vars
<1> QED
  BY <1>1, <1>2, <1>3, <1>4, <1>5, <1>6, <1>7, <1>8 DEF Crash!Next

(* The record of a crash stays intact until the host has read all of it,     *)
(* over refused, truncated and interrupted dumps and further watchdog resets;*)
(* any other reset drops it by design (diag_dump.c, DiagDump_Send, and       *)
(* power_sleep.c, HAL_SleepInit).                                            *)
THEOREM RecordKept ==
  ASSUME Crash!ForensicsAssumption
  PROVE  Crash!Spec => []Crash!RecordUntilRead
<1>1. CrashInv => Crash!RecordUntilRead
  BY DEF CrashInv
<1> QED
  BY <1>1, CrashInit, CrashNext, PTL DEF Crash!Spec

(* The counters stand still for nothing but an unread record (power_sleep.c, *)
(* HAL_SleepInit).                                                           *)
THEOREM ThawedOnceRead ==
  ASSUME Crash!ForensicsAssumption
  PROVE  Crash!Spec => [](Crash!TypeOK /\ Crash!FrozenForRecord)
<1>1. CrashInv => Crash!TypeOK /\ Crash!FrozenForRecord
  BY DEF CrashInv, FrozenIff, Crash!FrozenForRecord
<1> QED
  BY <1>1, CrashInit, CrashNext, PTL DEF Crash!Spec
=============================================================================
