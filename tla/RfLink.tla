------------------------------- MODULE RfLink -------------------------------
(***************************************************************************)
(* The 2.4 GHz link state machine of firmware/src/rf_task.c: pairing,       *)
(* bonded search with a duty-cycled receiver, the connected session, the    *)
(* resting policy and the bond in RAM and DataFlash, driven by TMOS events   *)
(* and timers, radio callbacks and the host's commands.                     *)
(*                                                                         *)
(* TMOS (external) keeps a set of posted events and a set of running timers; *)
(* RF_ProcessEvent serves the posted event it tests first.  Timers are      *)
(* untimed: one may expire at any time, except that a silent probe is over   *)
(* before the next is due and before supervision (640 against 1616 and      *)
(* 5000 ticks).  Reports, responses and hops are HidDelivery's: here a       *)
(* response is in flight from its poll to its completion.  The MAC is valid. *)
(***************************************************************************)
EXTENDS Naturals

CONSTANTS
  Dongles,      \* dongles in range
  NoBond        \* no bond in RAM, an erased or invalid record in flash

ASSUME DonglesAssumption == NoBond \notin Dongles

VARIABLES
  rf_state, pair_flavor, pair_rx_open, pair_rx_off_armed,
  radio,                        \* armed to receive, transmitting, or shut
  rest_stage, rest_probe, rest_probe_wake, rest_quiet_pending,
  supervision_kick,
  bond,                         \* stored_dongle_mac while has_bond
  pending,                      \* the dongle of the pending_* fields
  bond_save_pending,
  flash,                        \* the DataFlash bond record
  events, timers,               \* TMOS: posted events, running timers
  told,                         \* what the keyboard MCU was last sent of the link
  reselected,                   \* history: A6 30, whose answer names no connection,
                                \* came over the session the MCU had been told of
  unsaved                       \* history: the bonded dongle has polled us, and
                                \* its bond is not in flash

pairVars == <<pair_flavor, pair_rx_open, pair_rx_off_armed>>
restVars == <<rest_stage, rest_probe, rest_probe_wake, rest_quiet_pending>>
bondVars == <<bond, pending, bond_save_pending, flash, unsaved>>
tmosVars == <<events, timers>>
mcuVars == <<told, reselected>>
vars == <<rf_state, pairVars, radio, restVars, supervision_kick, bondVars, tmosVars,
          mcuVars>>

\* The events of RF_ProcessEvent in the order it tests them.
Order == <<"RX_RESTART", "PAIR_BCAST", "PAIR_RX_OFF", "PAIR_TIMEOUT",
           "ENTER_CONNECTED", "SAVE_BOND", "REST_IDLE", "REST_PROBE",
           "REST_PROBE_TIMEOUT", "REST_STAGE2", "DISCONNECT">>
Event == {Order[i] : i \in 1..11}
Rank == [e \in Event |-> CHOOSE i \in 1..11 : Order[i] = e]
RestEvents == {"REST_IDLE", "REST_PROBE", "REST_PROBE_TIMEOUT", "REST_STAGE2"}
live == events \cup timers

TypeOK ==
  /\ rf_state \in {"IDLE", "PAIRING", "CONNECTED", "RESTING"}
  /\ pair_flavor \in {"FRESH", "BONDED"}
  /\ {pair_rx_open, pair_rx_off_armed, rest_probe, rest_probe_wake,
      rest_quiet_pending, supervision_kick, bond_save_pending, unsaved, reselected}
       \subseteq BOOLEAN
  /\ radio \in {"off", "rx", "tx"}
  /\ rest_stage \in 0..2
  /\ {bond, pending, flash} \subseteq Dongles \cup {NoBond}
  /\ events \subseteq Event
  /\ timers \subseteq Event \ {"RX_RESTART", "ENTER_CONNECTED", "SAVE_BOND"}
  /\ told \in {"none", "selected", "pairing", "connected", "lost", "asked"}

\* RF_TaskInit after a reset that leaves record f in flash, and main's first
\* status frames: 34 and 35 with a bond, nothing without.
Boot(f) ==
  /\ rf_state' = IF f = NoBond THEN "IDLE" ELSE "PAIRING"
  /\ pair_flavor' = IF f = NoBond THEN "FRESH" ELSE "BONDED"
  /\ pair_rx_open' = (f # NoBond)
  /\ pair_rx_off_armed' = FALSE /\ radio' = "off"
  /\ rest_stage' = 0 /\ rest_probe' = FALSE /\ rest_probe_wake' = FALSE
  /\ rest_quiet_pending' = FALSE /\ supervision_kick' = FALSE
  /\ bond' = f /\ flash' = f /\ pending' = NoBond
  /\ bond_save_pending' = FALSE /\ unsaved' = FALSE
  /\ events' = IF f = NoBond THEN {} ELSE {"PAIR_BCAST"}
  /\ timers' = {} /\ reselected' = FALSE
  /\ told' = IF f = NoBond THEN "none" ELSE "selected"

Init ==
  /\ rf_state = "IDLE" /\ pair_flavor = "FRESH" /\ pair_rx_open = FALSE
  /\ pair_rx_off_armed = FALSE /\ radio = "off"
  /\ rest_stage = 0 /\ rest_probe = FALSE /\ rest_probe_wake = FALSE
  /\ rest_quiet_pending = FALSE /\ supervision_kick = FALSE
  /\ bond = NoBond /\ flash = NoBond /\ pending = NoBond
  /\ bond_save_pending = FALSE /\ unsaved = FALSE
  /\ events = {} /\ timers = {} /\ told = "none" /\ reselected = FALSE
-----------------------------------------------------------------------------
(***************************************************************************)
(* TMOS (external).  tmos_stop_task stops the timer and clears the posted   *)
(* bit; whether it also reaches the bits already handed to the running      *)
(* handler, which the handler returns, is left open.                        *)
(***************************************************************************)

Tmos(stopped, started, posted) ==
  /\ timers' = (timers \ stopped) \cup started
  /\ events' = (events \ stopped) \cup posted

Serve(e, stopped, started, posted) ==
  /\ e \in events
  /\ \A f \in events : Rank[e] <= Rank[f]
  /\ timers' = (timers \ stopped) \cup started
  /\ \E cleared \in {{}, stopped} :
       events' = ((events \ {e}) \ cleared) \cup posted

\* A handler that shuts the radio: a radio callback that lands within it, before
\* RF_Shut, leaves its RX_RESTART posted.
ServeShut(e, stopped, started, posted) ==
  \E late \in {{}, IF radio = "off" THEN {} ELSE {"RX_RESTART"}} :
    Serve(e, stopped, started, posted \cup late)

SilentProbe == rest_probe /\ ~rest_probe_wake

Expire(e) ==
  /\ e \in timers
  /\ SilentProbe => e \notin {"REST_PROBE", "DISCONNECT"}
  /\ timers' = timers \ {e}
  /\ events' = events \cup {e}
  /\ UNCHANGED <<rf_state, pairVars, radio, restVars, supervision_kick, bondVars,
                 mcuVars>>
-----------------------------------------------------------------------------
(***************************************************************************)
(* Pairing and the bonded search.                                          *)
(***************************************************************************)

\* Mutant: a stale RX_RESTART reopens a closed window.
RxRestartUngated ==
  LET close == /\ rf_state = "PAIRING"
               /\ pair_flavor = "BONDED" /\ ~pair_rx_off_armed
  IN  /\ Serve("RX_RESTART", {}, IF close THEN {"PAIR_RX_OFF"} ELSE {}, {})
      /\ radio' = IF rf_state \in {"CONNECTED", "PAIRING"} THEN "rx" ELSE radio
      /\ pair_rx_off_armed' = (pair_rx_off_armed \/ close)
      /\ UNCHANGED <<rf_state, pair_flavor, pair_rx_open, restVars,
                     supervision_kick, bondVars, mcuVars>>

\* The first restart after a beacon starts the close timer of a bonded search.
RxRestart ==
  LET rearm == rf_state = "CONNECTED" \/ (rf_state = "PAIRING" /\ pair_rx_open)
      close == /\ rf_state = "PAIRING" /\ pair_rx_open
               /\ pair_flavor = "BONDED" /\ ~pair_rx_off_armed
  IN  /\ Serve("RX_RESTART", {}, IF close THEN {"PAIR_RX_OFF"} ELSE {}, {})
      /\ radio' = IF rearm THEN "rx" ELSE radio
      /\ pair_rx_off_armed' = (pair_rx_off_armed \/ close)
      /\ UNCHANGED <<rf_state, pair_flavor, pair_rx_open, restVars,
                     supervision_kick, bondVars, mcuVars>>

\* Mutant: the window that RX_OFF closed is not opened again.
BroadcastKeepsClosed(started) ==
  /\ IF rf_state = "PAIRING"
       THEN /\ Serve("PAIR_BCAST", {"PAIR_RX_OFF"}, {"PAIR_BCAST"}, {})
            /\ radio' = IF started THEN "tx" ELSE "off"
       ELSE Serve("PAIR_BCAST", {}, {}, {}) /\ UNCHANGED radio
  /\ UNCHANGED <<rf_state, pairVars, restVars, supervision_kick, bondVars, mcuVars>>

rf_pair_broadcast(started) ==
  /\ IF rf_state = "PAIRING"
       THEN /\ ServeShut("PAIR_BCAST", {"PAIR_RX_OFF"}, {"PAIR_BCAST"}, {})
            /\ radio' = IF started THEN "tx" ELSE "off"
            /\ pair_rx_open' = TRUE /\ pair_rx_off_armed' = FALSE
       ELSE /\ Serve("PAIR_BCAST", {}, {}, {})
            /\ UNCHANGED <<radio, pair_rx_open, pair_rx_off_armed>>
  /\ UNCHANGED <<rf_state, pair_flavor, restVars, supervision_kick, bondVars, mcuVars>>

PairRxOff ==
  /\ IF rf_state = "PAIRING" /\ pair_flavor = "BONDED"
       THEN /\ ServeShut("PAIR_RX_OFF", {}, {}, {})
            /\ pair_rx_open' = FALSE /\ pair_rx_off_armed' = FALSE
            /\ radio' = "off"
       ELSE /\ Serve("PAIR_RX_OFF", {}, {}, {})
            /\ UNCHANGED <<pair_rx_open, pair_rx_off_armed, radio>>
  /\ UNCHANGED <<rf_state, pair_flavor, restVars, supervision_kick, bondVars, mcuVars>>

PairTimeout ==
  /\ IF rf_state = "PAIRING"
       THEN /\ ServeShut("PAIR_TIMEOUT", {"PAIR_RX_OFF"}, {}, {})
            /\ rf_state' = "IDLE" /\ radio' = "off"
       ELSE /\ Serve("PAIR_TIMEOUT", {}, {}, {})
            /\ UNCHANGED <<rf_state, radio>>
  /\ UNCHANGED <<pairVars, restVars, supervision_kick, bondVars, mcuVars>>

\* RF_2G4StatusCallBack, a pairing handshake frame from dongle d: the first one
\* makes the bond, the next one from the bonded dongle is a catch.  One with a
\* bad interval only restarts the receiver.
Handshake(d, valid) ==
  /\ rf_state = "PAIRING" /\ radio = "rx"
  /\ radio' = "off"
  /\ IF d = bond /\ valid
       THEN /\ pending' = d
            /\ Tmos({}, {}, {"ENTER_CONNECTED"})
            /\ UNCHANGED bond
       ELSE /\ bond' = IF bond = NoBond THEN d ELSE bond
            /\ Tmos({}, {}, {"RX_RESTART"})
            /\ UNCHANGED pending
  /\ UNCHANGED <<rf_state, pairVars, restVars, supervision_kick, bond_save_pending,
                 flash, unsaved, mcuVars>>

\* A beacon or a response ends, or fails; a garbled frame ends a reception.
\* The answer that completes a silent probe asks for quiet.
TxDone ==
  /\ radio = "tx"
  /\ radio' = "off"
  /\ Tmos({}, {}, {"RX_RESTART"})
  /\ \/ UNCHANGED rest_quiet_pending
     \/ /\ rf_state = "CONNECTED" /\ SilentProbe
        /\ rest_quiet_pending' = TRUE
  /\ UNCHANGED <<rf_state, pairVars, rest_stage, rest_probe, rest_probe_wake,
                 supervision_kick, bondVars, mcuVars>>

RxError ==
  /\ radio = "rx"
  /\ radio' = "off"
  /\ Tmos({}, {}, {"RX_RESTART"})
  /\ UNCHANGED <<rf_state, pairVars, restVars, supervision_kick, bondVars, mcuVars>>
-----------------------------------------------------------------------------
(***************************************************************************)
(* The connected session.                                                  *)
(***************************************************************************)

PromoteStops == {"REST_PROBE", "REST_PROBE_TIMEOUT", "REST_STAGE2", "DISCONNECT",
                 "REST_IDLE"}
PromoteStarts == {"DISCONNECT", "REST_IDLE"}

rest_reset ==
  /\ rest_stage' = 0 /\ rest_probe' = FALSE /\ rest_probe_wake' = FALSE
  /\ rest_quiet_pending' = FALSE

\* Mutant: a catch is served whatever the state.
EnterConnectedStale ==
  /\ Serve("ENTER_CONNECTED",
           {"PAIR_BCAST", "PAIR_TIMEOUT", "PAIR_RX_OFF", "DISCONNECT"},
           PromoteStarts, {})
  /\ rf_state' = "CONNECTED"
  /\ radio' = "rx"
  /\ bond_save_pending' = TRUE
  /\ told' = "connected" /\ reselected' = FALSE
  /\ UNCHANGED restVars

\* A catch served outside PAIRING is stale and ignored.  A silent probe tells
\* the MCU nothing and saves nothing; a woken one becomes the session.
rf_enter_connected ==
  IF rf_state # "PAIRING"
    THEN /\ Serve("ENTER_CONNECTED", {}, {}, {})
         /\ UNCHANGED <<rf_state, radio, restVars, bond_save_pending, mcuVars>>
    ELSE /\ Serve("ENTER_CONNECTED",
                  {"PAIR_BCAST", "PAIR_TIMEOUT", "PAIR_RX_OFF", "DISCONNECT"}
                    \cup (IF rest_probe_wake THEN PromoteStops ELSE {})
                    \cup (IF rest_probe THEN {} ELSE {"REST_IDLE"}),
                  IF SilentProbe THEN {"DISCONNECT"} ELSE PromoteStarts, {})
         /\ rf_state' = "CONNECTED"
         /\ radio' = "rx"
         /\ bond_save_pending' = ~SilentProbe
         /\ IF rest_probe_wake THEN rest_reset ELSE UNCHANGED restVars
         /\ IF rest_probe THEN UNCHANGED mcuVars
                          ELSE told' = "connected" /\ reselected' = FALSE

EnterConnected ==
  /\ rf_enter_connected
  /\ UNCHANGED <<pairVars, supervision_kick, bond, pending, flash, unsaved>>

Poll ==
  /\ rf_state = "CONNECTED" /\ radio = "rx"
  /\ supervision_kick' = TRUE
  /\ bond_save_pending' = FALSE
  /\ Tmos({}, {}, IF bond_save_pending THEN {"SAVE_BOND"} ELSE {})
  /\ radio' = "tx"
  /\ unsaved' = (flash # bond)
  /\ UNCHANGED <<rf_state, pairVars, restVars, bond, pending, flash, mcuVars>>

SaveBond ==
  /\ Serve("SAVE_BOND", {}, {}, {})
  /\ flash' = IF bond = NoBond THEN flash ELSE bond
  /\ unsaved' = FALSE
  /\ UNCHANGED <<rf_state, pairVars, radio, restVars, supervision_kick, bond,
                 pending, bond_save_pending, mcuVars>>

response_pending == rf_state = "CONNECTED" /\ radio = "tx"

GoQuietStops == {"DISCONNECT", "PAIR_BCAST", "PAIR_RX_OFF", "PAIR_TIMEOUT",
                 "ENTER_CONNECTED", "REST_PROBE_TIMEOUT"}

rest_go_quiet ==
  /\ supervision_kick' = FALSE
  /\ pair_rx_open' = FALSE /\ pair_rx_off_armed' = FALSE
  /\ rest_probe' = FALSE /\ rest_probe_wake' = FALSE
  /\ rest_quiet_pending' = FALSE
  /\ rf_state' = "RESTING"
  /\ radio' = "off"
  /\ UNCHANGED <<pair_flavor, bondVars, mcuVars>>

\* The main loop's tick: end an answered probe, re-arm supervision after a poll,
\* and retune unless a response is in flight (or two intervals late).
RF_ConnectedTick ==
  /\ rf_state = "CONNECTED"
  /\ IF rest_quiet_pending /\ ~response_pending
       THEN /\ rest_go_quiet
            /\ Tmos(GoQuietStops, {}, {})
            /\ UNCHANGED rest_stage
       ELSE /\ supervision_kick' = FALSE
            /\ IF supervision_kick
                 THEN Tmos({"DISCONNECT"}, {"DISCONNECT"}, {})
                 ELSE UNCHANGED tmosVars
            /\ radio' \in {radio, "rx"}
            /\ UNCHANGED <<rf_state, pairVars, restVars, bondVars, mcuVars>>

\* Mutant: the MCU is not told.
SupervisionSilent ==
  /\ IF rf_state = "CONNECTED"
       THEN /\ Serve("DISCONNECT", RestEvents, {}, {})
            /\ rest_reset
            /\ bond_save_pending' = FALSE
            /\ rf_state' = "IDLE" /\ radio' = "off"
       ELSE /\ Serve("DISCONNECT", {}, {}, {})
            /\ UNCHANGED <<restVars, bond_save_pending, rf_state, radio>>
  /\ UNCHANGED <<pairVars, supervision_kick, bond, pending, flash, unsaved, mcuVars>>

\* RF_EVT_DISCONNECT: the supervision timeout.
Supervision ==
  /\ IF rf_state = "CONNECTED"
       THEN /\ ServeShut("DISCONNECT", RestEvents, {}, {})
            /\ rest_reset
            /\ bond_save_pending' = FALSE
            /\ rf_state' = "IDLE" /\ radio' = "off"
            /\ told' = "lost" /\ reselected' = FALSE
       ELSE /\ Serve("DISCONNECT", {}, {}, {})
            /\ UNCHANGED <<restVars, bond_save_pending, rf_state, radio, mcuVars>>
  /\ UNCHANGED <<pairVars, supervision_kick, bond, pending, flash, unsaved>>
-----------------------------------------------------------------------------
(***************************************************************************)
(* The resting policy.                                                     *)
(***************************************************************************)

Ignore(e) ==
  /\ Serve(e, {}, {}, {})
  /\ UNCHANGED <<rf_state, pairVars, radio, restVars, supervision_kick, bondVars,
                 mcuVars>>

\* `quiet': nothing is queued and no key is held.  The outer guard is defensive:
\* REST_IDLE is served before every event that ends a session.
RestIdle(quiet) ==
  IF rf_state # "CONNECTED" \/ rest_probe
    THEN Ignore("REST_IDLE")
    ELSE IF quiet /\ ~response_pending
           THEN /\ ServeShut("REST_IDLE", GoQuietStops,
                             {"REST_PROBE", "REST_STAGE2"}, {})
                /\ rest_go_quiet
                /\ rest_stage' = 1
           ELSE /\ Serve("REST_IDLE", {}, {"REST_IDLE"}, {})
                /\ UNCHANGED <<rf_state, pairVars, radio, restVars,
                               supervision_kick, bondVars, mcuVars>>

ProbeStops == {"ENTER_CONNECTED", "PAIR_TIMEOUT", "PAIR_RX_OFF",
               "REST_PROBE_TIMEOUT"}

\* A bonded search flagged as a probe.
rest_probe_start ==
  /\ rest_probe' = TRUE /\ rest_quiet_pending' = FALSE
  /\ radio' = "off"
  /\ rf_state' = "PAIRING" /\ pair_flavor' = "BONDED"
  /\ pair_rx_open' = TRUE /\ pair_rx_off_armed' = FALSE
  /\ UNCHANGED <<supervision_kick, bondVars, mcuVars>>

\* Mutant: the cadence is not re-armed.
RestProbeOnce ==
  \/ /\ rf_state # "RESTING" \/ rest_stage # 1
     /\ Ignore("REST_PROBE")
  \/ /\ rf_state = "RESTING" /\ rest_stage = 1
     /\ Serve("REST_PROBE", ProbeStops, {"REST_PROBE_TIMEOUT"}, {"PAIR_BCAST"})
     /\ rest_probe_start
     /\ UNCHANGED <<rest_stage, rest_probe_wake>>

RestProbe ==
  \/ /\ rf_state # "RESTING" \/ rest_stage # 1
     /\ Ignore("REST_PROBE")
  \/ /\ rf_state = "RESTING" /\ rest_stage = 1
     /\ Serve("REST_PROBE", ProbeStops, {"REST_PROBE", "REST_PROBE_TIMEOUT"},
              {"PAIR_BCAST"})
     /\ rest_probe_start
     /\ UNCHANGED <<rest_stage, rest_probe_wake>>

\* Mutant: every probe keeps searching.
RestProbeForever ==
  \/ /\ ~rest_probe
     /\ Ignore("REST_PROBE_TIMEOUT")
  \/ /\ rest_probe
     /\ Serve("REST_PROBE_TIMEOUT", {}, {"REST_PROBE_TIMEOUT"}, {})
     /\ UNCHANGED <<rf_state, pairVars, radio, restVars, supervision_kick,
                    bondVars, mcuVars>>

\* A probe that a report woke keeps searching; a silent one ends.
RestProbeTimeout ==
  \/ /\ ~rest_probe
     /\ Ignore("REST_PROBE_TIMEOUT")
  \/ /\ rest_probe /\ rest_probe_wake
     /\ Serve("REST_PROBE_TIMEOUT", {}, {"REST_PROBE_TIMEOUT"}, {})
     /\ UNCHANGED <<rf_state, pairVars, radio, restVars, supervision_kick,
                    bondVars, mcuVars>>
  \/ /\ SilentProbe
     /\ ServeShut("REST_PROBE_TIMEOUT", GoQuietStops, {}, {})
     /\ rest_go_quiet
     /\ UNCHANGED rest_stage

RestStage2 ==
  /\ IF rest_stage = 1
       THEN Serve("REST_STAGE2", {"REST_PROBE"}, {}, {}) /\ rest_stage' = 2
       ELSE Serve("REST_STAGE2", {}, {}, {}) /\ UNCHANGED rest_stage
  /\ UNCHANGED <<rf_state, pairVars, radio, rest_probe, rest_probe_wake,
                 rest_quiet_pending, supervision_kick, bondVars, mcuVars>>

\* RF_QueueHIDReport as the link sees it: activity, whatever the payload.
RF_QueueHIDReport ==
  \/ /\ rf_state = "RESTING"
     /\ rest_probe_wake' = TRUE
     /\ Tmos(ProbeStops \cup {"REST_PROBE", "REST_STAGE2"}, {"REST_PROBE_TIMEOUT"},
             {"PAIR_BCAST"})
     /\ rest_probe_start
     /\ UNCHANGED rest_stage
  \/ /\ rf_state = "CONNECTED"
     /\ IF rest_probe
          THEN rest_reset /\ Tmos(PromoteStops, PromoteStarts, {})
          ELSE UNCHANGED restVars /\ Tmos({"REST_IDLE"}, {"REST_IDLE"}, {})
     /\ UNCHANGED <<rf_state, pairVars, radio, supervision_kick, bondVars, mcuVars>>
  \/ /\ rf_state \notin {"RESTING", "CONNECTED"} /\ rest_probe
     /\ rest_probe_wake' = TRUE /\ rest_quiet_pending' = FALSE
     /\ UNCHANGED <<rf_state, pairVars, radio, rest_stage, rest_probe,
                    supervision_kick, bondVars, tmosVars, mcuVars>>
-----------------------------------------------------------------------------
(***************************************************************************)
(* The host's commands.                                                    *)
(***************************************************************************)

DisconnectStops == {"PAIR_BCAST", "PAIR_TIMEOUT", "PAIR_RX_OFF",
                    "ENTER_CONNECTED", "DISCONNECT"} \cup RestEvents

\* RF_Disconnect.  The receiver is shut last: a catch may still be posted between
\* the sweep of ENTER_CONNECTED and RF_Shut.
RF_Disconnect(late) ==
  /\ late => rf_state = "PAIRING" /\ radio = "rx" /\ bond # NoBond
  /\ rest_reset
  /\ bond_save_pending' = FALSE
  /\ pending' = IF late THEN bond ELSE pending
  /\ radio' = "off"
  /\ UNCHANGED supervision_kick

LateCatch(late) == IF late THEN {"ENTER_CONNECTED"} ELSE {}

\* A6 11, 31-33, answered with 34 and 36.
SelectOther(late) ==
  /\ RF_Disconnect(late)
  /\ Tmos(DisconnectStops, {}, LateCatch(late))
  /\ rf_state' = "IDLE" /\ told' = "selected" /\ reselected' = FALSE
  /\ UNCHANGED <<pairVars, bond, flash, unsaved>>

\* Explicit sleep and the update path: RF_FlushBondSave, then RF_Disconnect.  The
\* MCU has asked for it and is sent no status.
SleepOrUpdate(late) ==
  /\ flash' = IF bond_save_pending /\ bond # NoBond THEN bond ELSE flash
  /\ RF_Disconnect(late)
  /\ Tmos(DisconnectStops, {}, LateCatch(late))
  /\ unsaved' = (unsaved /\ flash' # bond)
  /\ rf_state' = "IDLE" /\ told' = "asked" /\ reselected' = FALSE
  /\ UNCHANGED <<pairVars, bond>>

\* Mutant: the record stays in flash.
ClearBondRam == bond' = NoBond /\ unsaved' = FALSE /\ UNCHANGED flash

RF_ClearBond == bond' = NoBond /\ unsaved' = FALSE /\ flash' = NoBond

\* A6 52
Unpair(late) ==
  /\ RF_Disconnect(late)
  /\ RF_ClearBond
  /\ Tmos(DisconnectStops, {}, LateCatch(late))
  /\ rf_state' = "IDLE" /\ told' = "lost" /\ reselected' = FALSE
  /\ UNCHANGED pairVars

EnterPairingStops == {"ENTER_CONNECTED", "PAIR_RX_OFF"} \cup RestEvents

fresh_search ==
  /\ rf_state' = "PAIRING" /\ pair_flavor' = "FRESH"
  /\ pair_rx_open' = TRUE /\ pair_rx_off_armed' = FALSE
  /\ told' = "pairing" /\ reselected' = FALSE

\* A6 63: RF_Disconnect, RF_ClearBond, RF_EnterPairing.
FactoryPair(late) ==
  /\ RF_Disconnect(late)
  /\ RF_ClearBond
  /\ Tmos(DisconnectStops, {"PAIR_TIMEOUT"}, {"PAIR_BCAST"})
  /\ fresh_search

\* Mutant: a catch posted before the command survives it.
EnterPairingNoSweep ==
  /\ rf_state # "CONNECTED"
  /\ rest_reset
  /\ radio' = "off"
  /\ Tmos(EnterPairingStops \ {"ENTER_CONNECTED"}, {"PAIR_TIMEOUT"}, {"PAIR_BCAST"})
  /\ fresh_search
  /\ UNCHANGED <<supervision_kick, bondVars>>

\* RF_EnterPairing (A6 51): shut, then sweep.  On a live link, a probe's included,
\* it does nothing and the answer is CONNECTED.
RF_EnterPairing ==
  \/ /\ rf_state # "CONNECTED"
     /\ rest_reset
     /\ radio' = "off"
     /\ Tmos(EnterPairingStops, {"PAIR_TIMEOUT"}, {"PAIR_BCAST"})
     /\ fresh_search
     /\ UNCHANGED <<supervision_kick, bondVars>>
  \/ /\ rf_state = "CONNECTED"
     /\ told' = "connected" /\ reselected' = FALSE
     /\ UNCHANGED <<rf_state, pairVars, radio, restVars, supervision_kick, bondVars,
                    tmosVars>>

\* RF_Select2G4 (A6 30), answered in every state with 34 and then 35 or 36, by the
\* bond.  A probe becomes the session; a live session goes on as it is.
RF_Select2G4 ==
  /\ told' = "selected" /\ reselected' = (rf_state = "CONNECTED")
  /\ \/ /\ rf_state = "CONNECTED"
        /\ IF rest_probe THEN rest_reset /\ Tmos(PromoteStops, PromoteStarts, {})
                         ELSE UNCHANGED <<restVars, tmosVars>>
        /\ UNCHANGED <<rf_state, pairVars, radio>>
     \/ /\ rf_state # "CONNECTED" /\ bond # NoBond
        /\ rest_reset
        /\ Tmos(RestEvents \cup {"ENTER_CONNECTED", "PAIR_TIMEOUT", "PAIR_RX_OFF"},
                {}, {"PAIR_BCAST"})
        /\ radio' = "off" /\ rf_state' = "PAIRING"
        /\ pair_flavor' = "BONDED" /\ pair_rx_open' = TRUE
        /\ pair_rx_off_armed' = FALSE
     \/ /\ rf_state # "CONNECTED" /\ bond = NoBond
        /\ rest_reset
        /\ Tmos(RestEvents, {}, {})
        /\ UNCHANGED <<radio, rf_state, pairVars>>
  /\ UNCHANGED <<supervision_kick, bondVars>>

\* Power loss or a watchdog reset, between any two steps or within a save, which
\* erases before it writes.
Reset ==
  \/ Boot(flash)
  \/ "SAVE_BOND" \in events /\ bond # NoBond /\ flash # bond /\ Boot(NoBond)
-----------------------------------------------------------------------------
Tmos_Expire == \E e \in timers : Expire(e)

RF_ProcessEvent ==
  \/ RxRestart \/ (\E started \in BOOLEAN : rf_pair_broadcast(started))
  \/ PairRxOff \/ PairTimeout \/ EnterConnected \/ SaveBond
  \/ (\E quiet \in BOOLEAN : RestIdle(quiet)) \/ RestProbe \/ RestProbeTimeout
  \/ RestStage2 \/ Supervision

Radio ==
  \/ \E d \in Dongles, valid \in BOOLEAN : Handshake(d, valid)
  \/ TxDone \/ RxError \/ Poll

Command ==
  \/ RF_QueueHIDReport \/ RF_EnterPairing \/ RF_Select2G4
  \/ \E late \in BOOLEAN :
       SelectOther(late) \/ SleepOrUpdate(late) \/ Unpair(late) \/ FactoryPair(late)

Next ==
  \/ Tmos_Expire \/ RF_ProcessEvent \/ Radio \/ RF_ConnectedTick \/ Command \/ Reset

Spec == Init /\ [][Next]_vars

\* The beacon's and the probe's timers expire, and of infinitely many beacons some
\* are sent and end.  Nothing is assumed of the dongles, the host or the other
\* timers.
Fairness ==
  /\ WF_vars(RF_ProcessEvent)
  /\ WF_vars(Expire("PAIR_BCAST")) /\ WF_vars(Expire("REST_PROBE_TIMEOUT"))
  /\ SF_vars(rf_pair_broadcast(TRUE)) /\ SF_vars(TxDone)

\* A pass of the main loop is shorter than a tick or a frame: TMOS keeps catching
\* up, so that the events tested first do not starve the others.
CatchesUp == []<>(events = {})

FairSpec == Spec /\ Fairness

RF_CanDeepSleep ==
  \/ rf_state \in {"IDLE", "RESTING"}
  \/ rf_state = "PAIRING" /\ pair_flavor = "BONDED" /\ ~pair_rx_open
-----------------------------------------------------------------------------
(***************************************************************************)
(* No state is left without the timer that leaves it: a session is          *)
(* supervised and will rest, a search beacons, a fresh pairing and a probe   *)
(* end, stage 1 of the rest probes and reaches stage 2; and no pairing       *)
(* window is left over to cut a bonded search short (rf_task.c, every        *)
(* rf_start_task_atomic / rf_stop_task_atomic pair).                        *)
(***************************************************************************)
NeverStranded ==
  /\ rf_state = "CONNECTED" =>
       "DISCONNECT" \in live /\ (~rest_probe => "REST_IDLE" \in live)
  /\ rf_state = "PAIRING" =>
       "PAIR_BCAST" \in live /\ (pair_flavor = "FRESH" <=> "PAIR_TIMEOUT" \in live)
  /\ rest_probe => "REST_PROBE_TIMEOUT" \in live
  /\ rf_state = "RESTING" /\ rest_stage = 1 =>
       {"REST_PROBE", "REST_STAGE2"} \subseteq live

(***************************************************************************)
(* A catch that is about to be served in PAIRING is the bonded dongle's:    *)
(* none posted before a disconnect, an unpair or a new pairing connects      *)
(* afterwards (rf_task.c, the stale-catch sweeps of RF_EVT_ENTER_CONNECTED). *)
(***************************************************************************)
CatchIsBonded ==
  rf_state = "PAIRING" /\ "ENTER_CONNECTED" \in events =>
    bond # NoBond /\ pending = bond

(***************************************************************************)
(* The keyboard MCU's view is right although rests and probes are hidden     *)
(* from it: since the module booted, the last status it was sent says        *)
(* CONNECTED exactly while there is a session, a rest or a probe, except     *)
(* that after an A6 30 over a session the last frames are those that answer  *)
(* the command (main.c:158-163), for as long as that session, its rests and  *)
(* its probes last; a loss was reported, or a sleep asked for, of a link     *)
(* that is down; and PAIRING was the answer to a fresh search, under way or  *)
(* over (every KeyboardUart_SendStatus of main.c and rf_task.c).             *)
(***************************************************************************)
McuView ==
  /\ told = "connected" \/ reselected
       <=> rf_state \in {"CONNECTED", "RESTING"} \/ rest_probe
  /\ reselected => told = "selected"
  /\ told \in {"lost", "asked"} => rf_state = "IDLE"
  /\ told = "pairing" => rf_state # "PAIRING" \/ pair_flavor = "FRESH"

(***************************************************************************)
(* Flash never holds a bond that RAM does not: an unpaired dongle does not   *)
(* come back after a reset, whatever save was queued when the bond was       *)
(* cleared (rf_task.c, RF_ClearBond and rf_save_bond_to_flash).             *)
(***************************************************************************)
FlashNotStale == flash \in {NoBond, bond}

(***************************************************************************)
(* Whenever the deep-sleep gate opens the radio is shut, whichever late      *)
(* callback or restart was in flight (rf_task.c, RF_CanDeepSleep and         *)
(* pair_rx_open).                                                           *)
(***************************************************************************)
SleepsWithRadioOff == RF_CanDeepSleep => radio = "off"

(***************************************************************************)
(* A link that is down stays down until a command brings it up: no timer,    *)
(* probe, catch or beacon that was under way at the teardown revives it.     *)
(* Sleep control (SleepCtl) takes this for granted when it sleeps on an      *)
(* IDLE link (rf_task.c, RF_Disconnect, RF_EVT_DISCONNECT and the state      *)
(* tests of RF_ProcessEvent).                                                *)
(***************************************************************************)
StaysDown ==
  [][rf_state = "IDLE" /\ rf_state' # "IDLE" =>
       \/ RF_EnterPairing \/ RF_Select2G4 \/ Reset
       \/ \E late \in BOOLEAN : FactoryPair(late)]_vars

(***************************************************************************)
(* A search that goes on without a reset listens again and again, although   *)
(* beacons fail, windows close and stale events are served (rf_task.c,       *)
(* rf_pair_broadcast and the RX window).                                    *)
(***************************************************************************)
SearchListens ==
  <>[](rf_state = "PAIRING") /\ <>[][~Reset]_vars /\ CatchesUp
    => []<>(radio = "rx")

(***************************************************************************)
(* Every silent probe ends: it rests again, or a report, a select or a       *)
(* teardown makes it something else (rf_task.c, RF_EVT_REST_PROBE_TIMEOUT).  *)
(***************************************************************************)
ProbeEnds == CatchesUp => (SilentProbe ~> ~SilentProbe)

(***************************************************************************)
(* firmware/README.md:8 promises "persistent bonding in DataFlash": once     *)
(* the bonded dongle has polled us, the bond is in flash or a save is due.   *)
(***************************************************************************)
BondPersisted == unsaved => bond_save_pending \/ "SAVE_BOND" \in events
=============================================================================
