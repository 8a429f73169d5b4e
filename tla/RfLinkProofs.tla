---------------------------- MODULE RfLinkProofs ----------------------------
(***************************************************************************)
(* The safety of the 2.4 GHz link state machine for every set of dongles:    *)
(* no state is left without its timer (NeverStranded), a catch that is       *)
(* served is the bonded dongle's (CatchIsBonded), the keyboard MCU is told   *)
(* the truth (McuView), flash holds no bond that RAM has lost                *)
(* (FlashNotStale), the module sleeps only with the radio off                *)
(* (SleepsWithRadioOff), and a link that is down stays down (StaysDown).     *)
(* Then the relay of LED bytes that runs over the link (LedRelay), for every *)
(* set of LED bytes: the newest one reaches the host (LedOnHost).            *)
(***************************************************************************)
EXTENDS RfLink, LedRelay, TLAPS

-----------------------------------------------------------------------------
(* The inductive invariant: what ties the resting policy to the bond and to  *)
(* its timers while a probe hides behind PAIRING or CONNECTED.               *)

\* A session, a rest and a probe have a bond: a select cannot find a rest
\* without one.
Bonded ==
  rf_state \in {"CONNECTED", "RESTING"} \/ rest_probe => bond # NoBond

\* A probe is a bonded search or the session it led to; only a silent one asks
\* for quiet.
Probes ==
  /\ rest_probe_wake => rest_probe
  /\ rest_probe => /\ rf_state \in {"PAIRING", "CONNECTED"}
                   /\ pair_flavor = "BONDED"
  /\ rest_quiet_pending => SilentProbe

\* A silent probe goes back to the rest it came from: the cadence and the
\* stage-2 timer run on, and the next probe is not yet due.
Cadence ==
  SilentProbe =>
    /\ "REST_PROBE" \notin events
    /\ rest_stage = 1 => "REST_PROBE" \in live /\ "REST_STAGE2" \in live

\* NeverStranded, event by event.
Supervised ==
  rf_state = "CONNECTED" =>
    "DISCONNECT" \in live /\ (~rest_probe => "REST_IDLE" \in live)

Beaconing ==
  rf_state = "PAIRING" =>
    "PAIR_BCAST" \in live /\ (pair_flavor = "FRESH" <=> "PAIR_TIMEOUT" \in live)

ProbeTimed == rest_probe => "REST_PROBE_TIMEOUT" \in live

RestTimed ==
  rf_state = "RESTING" /\ rest_stage = 1 =>
    "REST_PROBE" \in live /\ "REST_STAGE2" \in live

Control == McuView /\ FlashNotStale /\ SleepsWithRadioOff /\ Bonded /\ Probes
Timing ==
  CatchIsBonded /\ Supervised /\ Beaconing /\ ProbeTimed /\ RestTimed /\ Cadence

LinkInv == TypeOK /\ Control /\ Timing

-----------------------------------------------------------------------------
(* TMOS.                                                                     *)

\* The names of the events.
LEMMA Names ==
  /\ "RX_RESTART" \in Event /\ "PAIR_BCAST" \in Event
  /\ "PAIR_RX_OFF" \in Event /\ "PAIR_TIMEOUT" \in Event
  /\ "ENTER_CONNECTED" \in Event /\ "SAVE_BOND" \in Event
  /\ "REST_IDLE" \in Event /\ "REST_PROBE" \in Event
  /\ "REST_PROBE_TIMEOUT" \in Event /\ "REST_STAGE2" \in Event
  /\ "DISCONNECT" \in Event
BY DEF Event, Order

\* A probe is served only when no catch and no pairing timeout is posted.
LEMMA Served ==
  /\ Rank["PAIR_TIMEOUT"] = 4 /\ Rank["ENTER_CONNECTED"] = 5
  /\ Rank["REST_PROBE"] = 8
<1>1. \A i \in 1..11 : Order[i] = "PAIR_TIMEOUT" <=> i = 4
  BY DEF Order
<1>2. \A i \in 1..11 : Order[i] = "ENTER_CONNECTED" <=> i = 5
  BY DEF Order
<1>3. \A i \in 1..11 : Order[i] = "REST_PROBE" <=> i = 8
  BY DEF Order
<1> QED
  BY <1>1, <1>2, <1>3, Names DEF Rank

\* What serving event e leaves: the timers exactly, the events up to whether
\* the stop reached them.
LEMMA ServeLeaves ==
  ASSUME NEW e, NEW stopped, NEW started, NEW posted,
         Serve(e, stopped, started, posted)
  PROVE  /\ e \in events /\ \A f \in events : Rank[e] <= Rank[f]
         /\ timers' = (timers \ stopped) \cup started
         /\ events' \subseteq (events \ {e}) \cup posted
         /\ ((events \ {e}) \ stopped) \cup posted \subseteq events'
BY DEF Serve

\* ... and shutting the radio may post a restart besides.
LEMMA ShutLeaves ==
  ASSUME NEW e, NEW stopped, NEW started, NEW posted,
         ServeShut(e, stopped, started, posted)
  PROVE  /\ e \in events /\ \A f \in events : Rank[e] <= Rank[f]
         /\ timers' = (timers \ stopped) \cup started
         /\ events' \subseteq (events \ {e}) \cup posted \cup {"RX_RESTART"}
         /\ ((events \ {e}) \ stopped) \cup posted \subseteq events'
<1>1. PICK late \in {{}, {"RX_RESTART"}} :
        Serve(e, stopped, started, posted \cup late)
  BY DEF ServeShut
<1> HIDE DEF Serve
<1>2. /\ e \in events /\ \A f \in events : Rank[e] <= Rank[f]
      /\ timers' = (timers \ stopped) \cup started
      /\ events' \subseteq (events \ {e}) \cup (posted \cup late)
      /\ ((events \ {e}) \ stopped) \cup (posted \cup late) \subseteq events'
  BY <1>1, ServeLeaves
<1> QED
  BY <1>2

-----------------------------------------------------------------------------
(* Types.                                                                    *)
TimerEvents == Event \ {"RX_RESTART", "ENTER_CONNECTED", "SAVE_BOND"}
Status == {"none", "selected", "pairing", "connected", "lost", "asked"}

LEMMA Types ==
  ASSUME TypeOK
  PROVE  /\ rf_state \in {"IDLE", "PAIRING", "CONNECTED", "RESTING"}
         /\ pair_flavor \in {"FRESH", "BONDED"}
         /\ pair_rx_open \in BOOLEAN /\ pair_rx_off_armed \in BOOLEAN
         /\ radio \in {"off", "rx", "tx"} /\ rest_stage \in 0..2
         /\ rest_probe \in BOOLEAN /\ rest_probe_wake \in BOOLEAN
         /\ rest_quiet_pending \in BOOLEAN /\ supervision_kick \in BOOLEAN
         /\ bond_save_pending \in BOOLEAN /\ unsaved \in BOOLEAN
         /\ bond \in Dongles \cup {NoBond} /\ pending \in Dongles \cup {NoBond}
         /\ flash \in Dongles \cup {NoBond}
         /\ events \subseteq Event /\ timers \subseteq TimerEvents
         /\ told \in Status /\ reselected \in BOOLEAN
BY DEF TypeOK, TimerEvents, Status

LEMMA TypesBack ==
  ASSUME rf_state' \in {"IDLE", "PAIRING", "CONNECTED", "RESTING"},
         pair_flavor' \in {"FRESH", "BONDED"},
         pair_rx_open' \in BOOLEAN, pair_rx_off_armed' \in BOOLEAN,
         radio' \in {"off", "rx", "tx"}, rest_stage' \in 0..2,
         rest_probe' \in BOOLEAN, rest_probe_wake' \in BOOLEAN,
         rest_quiet_pending' \in BOOLEAN, supervision_kick' \in BOOLEAN,
         bond_save_pending' \in BOOLEAN, unsaved' \in BOOLEAN,
         bond' \in Dongles \cup {NoBond}, pending' \in Dongles \cup {NoBond},
         flash' \in Dongles \cup {NoBond},
         events' \subseteq Event, timers' \subseteq TimerEvents,
         told' \in Status, reselected' \in BOOLEAN
  PROVE  TypeOK'
BY DEF TypeOK, TimerEvents, Status

LEMMA LinkInit == Init => LinkInv
<1> SUFFICES ASSUME Init PROVE LinkInv
  OBVIOUS
<1>1. TypeOK
  <2>1. {pair_rx_open, pair_rx_off_armed, rest_probe, rest_probe_wake,
         rest_quiet_pending, supervision_kick, bond_save_pending, unsaved,
         reselected}
          \subseteq BOOLEAN
    BY Zenon DEF Init
  <2> QED
    BY <2>1 DEF Init, TypeOK
<1>2. Control
  BY DEF Init, Control, McuView, FlashNotStale, SleepsWithRadioOff, Bonded,
         Probes
<1>3. Timing
  BY DEF Init, Timing, CatchIsBonded, Supervised, Beaconing, ProbeTimed,
         RestTimed, Cadence
<1> QED
  BY <1>1, <1>2, <1>3 DEF LinkInv

-----------------------------------------------------------------------------
(* The steps.                                                                *)

\* A timer runs out: it is posted.
LEMMA ExpireKeeps ==
  ASSUME LinkInv, NEW e \in timers, Expire(e)
  PROVE  LinkInv'
<1>t. TypeOK /\ Control /\ Timing
  BY DEF LinkInv
<1>1. TypeOK'
  <2>1. /\ rf_state' \in {"IDLE", "PAIRING", "CONNECTED", "RESTING"}
        /\ pair_flavor' \in {"FRESH", "BONDED"}
        /\ radio' \in {"off", "rx", "tx"} /\ rest_stage' \in 0..2
        /\ bond' \in Dongles \cup {NoBond} /\ pending' \in Dongles \cup {NoBond}
        /\ flash' \in Dongles \cup {NoBond}
        /\ told' \in Status
    BY <1>t, Types DEF Status, mcuVars, Expire, pairVars, restVars, bondVars
  <2>2. /\ pair_rx_open' \in BOOLEAN /\ pair_rx_off_armed' \in BOOLEAN
        /\ rest_probe' \in BOOLEAN /\ rest_probe_wake' \in BOOLEAN
        /\ rest_quiet_pending' \in BOOLEAN /\ supervision_kick' \in BOOLEAN
        /\ bond_save_pending' \in BOOLEAN /\ unsaved' \in BOOLEAN
        /\ reselected' \in BOOLEAN
    BY <1>t, Types DEF mcuVars, Expire, pairVars, restVars, bondVars
  <2>3. events' \subseteq Event /\ timers' \subseteq TimerEvents
    BY <1>t, Types DEF Expire, TimerEvents
  <2> QED
    BY <2>1, <2>2, <2>3, TypesBack
<1>2. Control'
  BY <1>t
     DEF mcuVars, Expire, SilentProbe, pairVars, restVars, bondVars, Control,
         McuView, FlashNotStale, SleepsWithRadioOff, RF_CanDeepSleep, Bonded,
         Probes
<1>3. Timing'
  BY <1>t, Types
     DEF Expire, SilentProbe, pairVars, restVars, bondVars, Timing,
         CatchIsBonded, Supervised, Beaconing, ProbeTimed, RestTimed, Cadence,
         live, TimerEvents
<1> QED
  BY <1>1, <1>2, <1>3 DEF LinkInv

\* The receiver restarts.
LEMMA RxRestartKeeps ==
  ASSUME LinkInv, RxRestart
  PROVE  LinkInv'
<1>t. TypeOK /\ Control /\ Timing
  BY DEF LinkInv
<1>1. TypeOK'
  <2>1. /\ rf_state' \in {"IDLE", "PAIRING", "CONNECTED", "RESTING"}
        /\ pair_flavor' \in {"FRESH", "BONDED"}
        /\ radio' \in {"off", "rx", "tx"} /\ rest_stage' \in 0..2
        /\ bond' \in Dongles \cup {NoBond} /\ pending' \in Dongles \cup {NoBond}
        /\ flash' \in Dongles \cup {NoBond}
        /\ told' \in Status
    BY <1>t, Types DEF Status, mcuVars, RxRestart, restVars, bondVars
  <2>2. /\ pair_rx_open' \in BOOLEAN /\ pair_rx_off_armed' \in BOOLEAN
        /\ rest_probe' \in BOOLEAN /\ rest_probe_wake' \in BOOLEAN
        /\ rest_quiet_pending' \in BOOLEAN /\ supervision_kick' \in BOOLEAN
        /\ bond_save_pending' \in BOOLEAN /\ unsaved' \in BOOLEAN
        /\ reselected' \in BOOLEAN
    BY <1>t, Types DEF mcuVars, RxRestart, restVars, bondVars
  <2>3. events' \subseteq Event /\ timers' \subseteq TimerEvents
    BY <1>t, Types, Names, ServeLeaves DEF RxRestart, TimerEvents
  <2> QED
    BY <2>1, <2>2, <2>3, TypesBack
<1>2. Control'
  BY <1>t
     DEF mcuVars, RxRestart, restVars, bondVars, Control, McuView,
         FlashNotStale, SleepsWithRadioOff, RF_CanDeepSleep, Bonded, Probes,
         SilentProbe
<1>3. Timing'
  BY <1>t, ServeLeaves
     DEF RxRestart, restVars, bondVars, Timing, CatchIsBonded, Supervised,
         Beaconing, ProbeTimed, RestTimed, Cadence, SilentProbe, live
<1> QED
  BY <1>1, <1>2, <1>3 DEF LinkInv

\* A beacon.
LEMMA BroadcastKeeps ==
  ASSUME LinkInv, NEW started \in BOOLEAN, rf_pair_broadcast(started)
  PROVE  LinkInv'
<1>t. TypeOK /\ Control /\ Timing
  BY DEF LinkInv
<1>1. TypeOK'
  <2>1. /\ rf_state' \in {"IDLE", "PAIRING", "CONNECTED", "RESTING"}
        /\ pair_flavor' \in {"FRESH", "BONDED"}
        /\ radio' \in {"off", "rx", "tx"} /\ rest_stage' \in 0..2
        /\ bond' \in Dongles \cup {NoBond} /\ pending' \in Dongles \cup {NoBond}
        /\ flash' \in Dongles \cup {NoBond}
        /\ told' \in Status
    BY <1>t, Types DEF Status, mcuVars, rf_pair_broadcast, restVars, bondVars
  <2>2. /\ pair_rx_open' \in BOOLEAN /\ pair_rx_off_armed' \in BOOLEAN
        /\ rest_probe' \in BOOLEAN /\ rest_probe_wake' \in BOOLEAN
        /\ rest_quiet_pending' \in BOOLEAN /\ supervision_kick' \in BOOLEAN
        /\ bond_save_pending' \in BOOLEAN /\ unsaved' \in BOOLEAN
        /\ reselected' \in BOOLEAN
    BY <1>t, Types DEF mcuVars, rf_pair_broadcast, restVars, bondVars
  <2>3. events' \subseteq Event /\ timers' \subseteq TimerEvents
    BY <1>t, Types, Names, ServeLeaves, ShutLeaves
       DEF rf_pair_broadcast, TimerEvents
  <2> QED
    BY <2>1, <2>2, <2>3, TypesBack
<1>2. Control'
  BY <1>t
     DEF mcuVars, rf_pair_broadcast, restVars, bondVars, Control, McuView,
         FlashNotStale, SleepsWithRadioOff, RF_CanDeepSleep, Bonded, Probes,
         SilentProbe
<1>3. Timing'
  BY <1>t, ServeLeaves, ShutLeaves
     DEF rf_pair_broadcast, restVars, bondVars, Timing, CatchIsBonded,
         Supervised, Beaconing, ProbeTimed, RestTimed, Cadence, SilentProbe,
         live
<1> QED
  BY <1>1, <1>2, <1>3 DEF LinkInv

\* The window closes.
LEMMA PairRxOffKeeps ==
  ASSUME LinkInv, PairRxOff
  PROVE  LinkInv'
<1>t. TypeOK /\ Control /\ Timing
  BY DEF LinkInv
<1>1. TypeOK'
  <2>1. /\ rf_state' \in {"IDLE", "PAIRING", "CONNECTED", "RESTING"}
        /\ pair_flavor' \in {"FRESH", "BONDED"}
        /\ radio' \in {"off", "rx", "tx"} /\ rest_stage' \in 0..2
        /\ bond' \in Dongles \cup {NoBond} /\ pending' \in Dongles \cup {NoBond}
        /\ flash' \in Dongles \cup {NoBond}
        /\ told' \in Status
    BY <1>t, Types DEF Status, mcuVars, PairRxOff, restVars, bondVars
  <2>2. /\ pair_rx_open' \in BOOLEAN /\ pair_rx_off_armed' \in BOOLEAN
        /\ rest_probe' \in BOOLEAN /\ rest_probe_wake' \in BOOLEAN
        /\ rest_quiet_pending' \in BOOLEAN /\ supervision_kick' \in BOOLEAN
        /\ bond_save_pending' \in BOOLEAN /\ unsaved' \in BOOLEAN
        /\ reselected' \in BOOLEAN
    BY <1>t, Types DEF mcuVars, PairRxOff, restVars, bondVars
  <2>3. events' \subseteq Event /\ timers' \subseteq TimerEvents
    BY <1>t, Types, Names, ServeLeaves, ShutLeaves DEF PairRxOff
  <2> QED
    BY <2>1, <2>2, <2>3, TypesBack
<1>2. Control'
  BY <1>t
     DEF mcuVars, PairRxOff, restVars, bondVars, Control, McuView,
         FlashNotStale, SleepsWithRadioOff, RF_CanDeepSleep, Bonded, Probes,
         SilentProbe
<1>3. Timing'
  BY <1>t, ServeLeaves, ShutLeaves
     DEF PairRxOff, restVars, bondVars, Timing, CatchIsBonded, Supervised,
         Beaconing, ProbeTimed, RestTimed, Cadence, SilentProbe, live
<1> QED
  BY <1>1, <1>2, <1>3 DEF LinkInv

\* The pairing window ends: it is a fresh pairing, never a probe.
LEMMA PairTimeoutKeeps ==
  ASSUME LinkInv, PairTimeout
  PROVE  LinkInv'
<1>t. TypeOK /\ Control /\ Timing
  BY DEF LinkInv
<1>1. TypeOK'
  <2>1. /\ rf_state' \in {"IDLE", "PAIRING", "CONNECTED", "RESTING"}
        /\ pair_flavor' \in {"FRESH", "BONDED"}
        /\ radio' \in {"off", "rx", "tx"} /\ rest_stage' \in 0..2
        /\ bond' \in Dongles \cup {NoBond} /\ pending' \in Dongles \cup {NoBond}
        /\ flash' \in Dongles \cup {NoBond}
        /\ told' \in Status
    BY <1>t, Types
       DEF Status, mcuVars, PairTimeout, pairVars, restVars, bondVars
  <2>2. /\ pair_rx_open' \in BOOLEAN /\ pair_rx_off_armed' \in BOOLEAN
        /\ rest_probe' \in BOOLEAN /\ rest_probe_wake' \in BOOLEAN
        /\ rest_quiet_pending' \in BOOLEAN /\ supervision_kick' \in BOOLEAN
        /\ bond_save_pending' \in BOOLEAN /\ unsaved' \in BOOLEAN
        /\ reselected' \in BOOLEAN
    BY <1>t, Types DEF mcuVars, PairTimeout, pairVars, restVars, bondVars
  <2>3. events' \subseteq Event /\ timers' \subseteq TimerEvents
    BY <1>t, Types, Names, ServeLeaves, ShutLeaves DEF PairTimeout
  <2> QED
    BY <2>1, <2>2, <2>3, TypesBack
<1>2. Control'
  BY <1>t, ShutLeaves
     DEF mcuVars, PairTimeout, pairVars, restVars, bondVars, Control, McuView,
         FlashNotStale, SleepsWithRadioOff, RF_CanDeepSleep, Bonded, Probes,
         SilentProbe, Timing, Beaconing, live
<1>3. Timing'
  BY <1>t, ServeLeaves, ShutLeaves
     DEF PairTimeout, restVars, Timing, CatchIsBonded, Supervised, Beaconing,
         ProbeTimed, RestTimed, Cadence, SilentProbe, live
<1> QED
  BY <1>1, <1>2, <1>3 DEF LinkInv

\* A handshake makes the bond, or a catch of the bonded dongle.
LEMMA HandshakeKeeps ==
  ASSUME LinkInv, NEW d \in Dongles, NEW valid \in BOOLEAN, Handshake(d, valid)
  PROVE  LinkInv'
<1>t. TypeOK /\ Control /\ Timing
  BY DEF LinkInv
<1>1. TypeOK'
  <2>1. /\ rf_state' \in {"IDLE", "PAIRING", "CONNECTED", "RESTING"}
        /\ pair_flavor' \in {"FRESH", "BONDED"}
        /\ radio' \in {"off", "rx", "tx"} /\ rest_stage' \in 0..2
        /\ bond' \in Dongles \cup {NoBond} /\ pending' \in Dongles \cup {NoBond}
        /\ flash' \in Dongles \cup {NoBond}
        /\ told' \in Status
    BY <1>t, Types DEF Status, mcuVars, Handshake, pairVars, restVars
  <2>2. /\ pair_rx_open' \in BOOLEAN /\ pair_rx_off_armed' \in BOOLEAN
        /\ rest_probe' \in BOOLEAN /\ rest_probe_wake' \in BOOLEAN
        /\ rest_quiet_pending' \in BOOLEAN /\ supervision_kick' \in BOOLEAN
        /\ bond_save_pending' \in BOOLEAN /\ unsaved' \in BOOLEAN
        /\ reselected' \in BOOLEAN
    BY <1>t, Types DEF mcuVars, Handshake, pairVars, restVars
  <2>3. events' \subseteq Event /\ timers' \subseteq TimerEvents
    BY <1>t, Types, Names DEF Handshake, Tmos
  <2> QED
    BY <2>1, <2>2, <2>3, TypesBack
<1>2. Control'
  BY <1>t
     DEF mcuVars, Handshake, pairVars, restVars, Control, McuView,
         FlashNotStale, SleepsWithRadioOff, Bonded, Probes, SilentProbe
<1>3. Timing'
  BY <1>t, DonglesAssumption
     DEF Handshake, Tmos, pairVars, restVars, Timing, CatchIsBonded,
         Supervised, Beaconing, ProbeTimed, RestTimed, Cadence, SilentProbe,
         live
<1> QED
  BY <1>1, <1>2, <1>3 DEF LinkInv

\* A transmission ends; a silent probe asks for quiet.
LEMMA TxDoneKeeps ==
  ASSUME LinkInv, TxDone
  PROVE  LinkInv'
<1>t. TypeOK /\ Control /\ Timing
  BY DEF LinkInv
<1>1. TypeOK'
  <2>1. /\ rf_state' \in {"IDLE", "PAIRING", "CONNECTED", "RESTING"}
        /\ pair_flavor' \in {"FRESH", "BONDED"}
        /\ radio' \in {"off", "rx", "tx"} /\ rest_stage' \in 0..2
        /\ bond' \in Dongles \cup {NoBond} /\ pending' \in Dongles \cup {NoBond}
        /\ flash' \in Dongles \cup {NoBond}
        /\ told' \in Status
    BY <1>t, Types DEF Status, mcuVars, TxDone, pairVars, bondVars
  <2>2. /\ pair_rx_open' \in BOOLEAN /\ pair_rx_off_armed' \in BOOLEAN
        /\ rest_probe' \in BOOLEAN /\ rest_probe_wake' \in BOOLEAN
        /\ rest_quiet_pending' \in BOOLEAN /\ supervision_kick' \in BOOLEAN
        /\ bond_save_pending' \in BOOLEAN /\ unsaved' \in BOOLEAN
        /\ reselected' \in BOOLEAN
    BY <1>t, Types DEF mcuVars, TxDone, pairVars, bondVars
  <2>3. events' \subseteq Event /\ timers' \subseteq TimerEvents
    BY <1>t, Types, Names DEF TxDone, Tmos
  <2> QED
    BY <2>1, <2>2, <2>3, TypesBack
<1>2. Control'
  BY <1>t
     DEF mcuVars, TxDone, SilentProbe, pairVars, bondVars, Control, McuView,
         FlashNotStale, SleepsWithRadioOff, Bonded, Probes
<1>3. Timing'
  BY <1>t
     DEF TxDone, Tmos, SilentProbe, pairVars, bondVars, Timing, CatchIsBonded,
         Supervised, Beaconing, ProbeTimed, RestTimed, Cadence, live
<1> QED
  BY <1>1, <1>2, <1>3 DEF LinkInv

\* A reception ends.
LEMMA RxErrorKeeps ==
  ASSUME LinkInv, RxError
  PROVE  LinkInv'
<1>t. TypeOK /\ Control /\ Timing
  BY DEF LinkInv
<1>1. TypeOK'
  <2>1. /\ rf_state' \in {"IDLE", "PAIRING", "CONNECTED", "RESTING"}
        /\ pair_flavor' \in {"FRESH", "BONDED"}
        /\ radio' \in {"off", "rx", "tx"} /\ rest_stage' \in 0..2
        /\ bond' \in Dongles \cup {NoBond} /\ pending' \in Dongles \cup {NoBond}
        /\ flash' \in Dongles \cup {NoBond}
        /\ told' \in Status
    BY <1>t, Types DEF Status, mcuVars, RxError, pairVars, restVars, bondVars
  <2>2. /\ pair_rx_open' \in BOOLEAN /\ pair_rx_off_armed' \in BOOLEAN
        /\ rest_probe' \in BOOLEAN /\ rest_probe_wake' \in BOOLEAN
        /\ rest_quiet_pending' \in BOOLEAN /\ supervision_kick' \in BOOLEAN
        /\ bond_save_pending' \in BOOLEAN /\ unsaved' \in BOOLEAN
        /\ reselected' \in BOOLEAN
    BY <1>t, Types DEF mcuVars, RxError, pairVars, restVars, bondVars
  <2>3. events' \subseteq Event /\ timers' \subseteq TimerEvents
    BY <1>t, Types, Names DEF RxError, Tmos
  <2> QED
    BY <2>1, <2>2, <2>3, TypesBack
<1>2. Control'
  BY <1>t
     DEF mcuVars, RxError, pairVars, restVars, bondVars, Control, McuView,
         FlashNotStale, SleepsWithRadioOff, Bonded, Probes, SilentProbe
<1>3. Timing'
  BY <1>t
     DEF RxError, Tmos, pairVars, restVars, bondVars, Timing, CatchIsBonded,
         Supervised, Beaconing, ProbeTimed, RestTimed, Cadence, SilentProbe,
         live
<1> QED
  BY <1>1, <1>2, <1>3 DEF LinkInv

\* A catch is served.
LEMMA EnterConnectedKeeps ==
  ASSUME LinkInv, EnterConnected
  PROVE  LinkInv'
<1>t. TypeOK /\ Control /\ Timing
  BY DEF LinkInv
<1>1. TypeOK'
  <2>1. /\ rf_state' \in {"IDLE", "PAIRING", "CONNECTED", "RESTING"}
        /\ pair_flavor' \in {"FRESH", "BONDED"}
        /\ radio' \in {"off", "rx", "tx"} /\ rest_stage' \in 0..2
        /\ bond' \in Dongles \cup {NoBond} /\ pending' \in Dongles \cup {NoBond}
        /\ flash' \in Dongles \cup {NoBond}
        /\ told' \in Status
    BY <1>t, Types
       DEF Status, mcuVars, EnterConnected, rf_enter_connected, pairVars,
           restVars, rest_reset
  <2>2. /\ pair_rx_open' \in BOOLEAN /\ pair_rx_off_armed' \in BOOLEAN
        /\ rest_probe' \in BOOLEAN /\ rest_probe_wake' \in BOOLEAN
        /\ rest_quiet_pending' \in BOOLEAN /\ supervision_kick' \in BOOLEAN
        /\ bond_save_pending' \in BOOLEAN /\ unsaved' \in BOOLEAN
        /\ reselected' \in BOOLEAN
    BY <1>t, Types
       DEF mcuVars, EnterConnected, rf_enter_connected, pairVars, restVars,
           rest_reset
  <2>3. events' \subseteq Event /\ timers' \subseteq TimerEvents
    BY <1>t, Types, Names, ServeLeaves
       DEF EnterConnected, rf_enter_connected, PromoteStarts, TimerEvents
  <2> QED
    BY <2>1, <2>2, <2>3, TypesBack
<1>2. Control'
  BY <1>t, ServeLeaves
     DEF mcuVars, EnterConnected, rf_enter_connected, pairVars, restVars,
         SilentProbe, rest_reset, Control, McuView, FlashNotStale,
         SleepsWithRadioOff, RF_CanDeepSleep, Bonded, Probes, Timing,
         CatchIsBonded
<1>3. Timing'
  BY <1>t, ServeLeaves
     DEF EnterConnected, rf_enter_connected, restVars, SilentProbe,
         PromoteStarts, rest_reset, Timing, CatchIsBonded, Supervised,
         Beaconing, ProbeTimed, RestTimed, Cadence, live
<1> QED
  BY <1>1, <1>2, <1>3 DEF LinkInv

\* A poll.
LEMMA PollKeeps ==
  ASSUME LinkInv, Poll
  PROVE  LinkInv'
<1>t. TypeOK /\ Control /\ Timing
  BY DEF LinkInv
<1>1. TypeOK'
  <2>1. /\ rf_state' \in {"IDLE", "PAIRING", "CONNECTED", "RESTING"}
        /\ pair_flavor' \in {"FRESH", "BONDED"}
        /\ radio' \in {"off", "rx", "tx"} /\ rest_stage' \in 0..2
        /\ bond' \in Dongles \cup {NoBond} /\ pending' \in Dongles \cup {NoBond}
        /\ flash' \in Dongles \cup {NoBond}
        /\ told' \in Status
    BY <1>t, Types DEF Status, mcuVars, Poll, pairVars, restVars
  <2>2. /\ pair_rx_open' \in BOOLEAN /\ pair_rx_off_armed' \in BOOLEAN
        /\ rest_probe' \in BOOLEAN /\ rest_probe_wake' \in BOOLEAN
        /\ rest_quiet_pending' \in BOOLEAN /\ supervision_kick' \in BOOLEAN
        /\ bond_save_pending' \in BOOLEAN /\ unsaved' \in BOOLEAN
        /\ reselected' \in BOOLEAN
    BY <1>t, Types DEF mcuVars, Poll, pairVars, restVars
  <2>3. events' \subseteq Event /\ timers' \subseteq TimerEvents
    BY <1>t, Types, Names DEF Poll, Tmos
  <2> QED
    BY <2>1, <2>2, <2>3, TypesBack
<1>2. Control'
  BY <1>t
     DEF mcuVars, Poll, pairVars, restVars, Control, McuView, FlashNotStale,
         SleepsWithRadioOff, RF_CanDeepSleep, Bonded, Probes, SilentProbe
<1>3. Timing'
  BY <1>t
     DEF Poll, Tmos, restVars, Timing, CatchIsBonded, Supervised, Beaconing,
         ProbeTimed, RestTimed, Cadence, SilentProbe, live
<1> QED
  BY <1>1, <1>2, <1>3 DEF LinkInv

\* The bond is saved.
LEMMA SaveBondKeeps ==
  ASSUME LinkInv, SaveBond
  PROVE  LinkInv'
<1>t. TypeOK /\ Control /\ Timing
  BY DEF LinkInv
<1>1. TypeOK'
  <2>1. /\ rf_state' \in {"IDLE", "PAIRING", "CONNECTED", "RESTING"}
        /\ pair_flavor' \in {"FRESH", "BONDED"}
        /\ radio' \in {"off", "rx", "tx"} /\ rest_stage' \in 0..2
        /\ bond' \in Dongles \cup {NoBond} /\ pending' \in Dongles \cup {NoBond}
        /\ flash' \in Dongles \cup {NoBond}
        /\ told' \in Status
    BY <1>t, Types DEF Status, mcuVars, SaveBond, pairVars, restVars
  <2>2. /\ pair_rx_open' \in BOOLEAN /\ pair_rx_off_armed' \in BOOLEAN
        /\ rest_probe' \in BOOLEAN /\ rest_probe_wake' \in BOOLEAN
        /\ rest_quiet_pending' \in BOOLEAN /\ supervision_kick' \in BOOLEAN
        /\ bond_save_pending' \in BOOLEAN /\ unsaved' \in BOOLEAN
        /\ reselected' \in BOOLEAN
    BY <1>t, Types DEF mcuVars, SaveBond, pairVars, restVars
  <2>3. events' \subseteq Event /\ timers' \subseteq TimerEvents
    BY <1>t, Types, ServeLeaves DEF SaveBond
  <2> QED
    BY <2>1, <2>2, <2>3, TypesBack
<1>2. Control'
  BY <1>t
     DEF mcuVars, SaveBond, pairVars, restVars, Control, McuView,
         FlashNotStale, SleepsWithRadioOff, RF_CanDeepSleep, Bonded, Probes,
         SilentProbe
<1>3. Timing'
  BY <1>t, ServeLeaves
     DEF SaveBond, pairVars, restVars, Timing, CatchIsBonded, Supervised,
         Beaconing, ProbeTimed, RestTimed, Cadence, SilentProbe, live
<1> QED
  BY <1>1, <1>2, <1>3 DEF LinkInv

\* The connected tick: a silent probe goes back to its rest.
LEMMA TickKeeps ==
  ASSUME LinkInv, RF_ConnectedTick
  PROVE  LinkInv'
<1>t. TypeOK /\ Control /\ Timing
  BY DEF LinkInv
<1>1. TypeOK'
  <2>1. /\ rf_state' \in {"IDLE", "PAIRING", "CONNECTED", "RESTING"}
        /\ pair_flavor' \in {"FRESH", "BONDED"}
        /\ radio' \in {"off", "rx", "tx"} /\ rest_stage' \in 0..2
        /\ bond' \in Dongles \cup {NoBond} /\ pending' \in Dongles \cup {NoBond}
        /\ flash' \in Dongles \cup {NoBond}
        /\ told' \in Status
    BY <1>t, Types
       DEF Status, mcuVars, RF_ConnectedTick, rest_go_quiet, pairVars,
           restVars, bondVars
  <2>2. /\ pair_rx_open' \in BOOLEAN /\ pair_rx_off_armed' \in BOOLEAN
        /\ rest_probe' \in BOOLEAN /\ rest_probe_wake' \in BOOLEAN
        /\ rest_quiet_pending' \in BOOLEAN /\ supervision_kick' \in BOOLEAN
        /\ bond_save_pending' \in BOOLEAN /\ unsaved' \in BOOLEAN
        /\ reselected' \in BOOLEAN
    BY <1>t, Types
       DEF mcuVars, RF_ConnectedTick, rest_go_quiet, pairVars, restVars,
           bondVars
  <2>3. events' \subseteq Event /\ timers' \subseteq TimerEvents
    BY <1>t, Types, Names DEF RF_ConnectedTick, Tmos, tmosVars, TimerEvents
  <2> QED
    BY <2>1, <2>2, <2>3, TypesBack
<1>2. Control'
  BY <1>t
     DEF mcuVars, RF_ConnectedTick, rest_go_quiet, pairVars, restVars,
         bondVars, Control, McuView, FlashNotStale, SleepsWithRadioOff,
         RF_CanDeepSleep, Bonded, Probes, SilentProbe
<1>3. Timing'
  BY <1>t
     DEF RF_ConnectedTick, rest_go_quiet, Tmos, GoQuietStops, tmosVars,
         restVars, Control, Probes, Timing, CatchIsBonded, Supervised,
         Beaconing, ProbeTimed, RestTimed, Cadence, SilentProbe, live
<1> QED
  BY <1>1, <1>2, <1>3 DEF LinkInv

\* The supervision timeout.
LEMMA SupervisionKeeps ==
  ASSUME LinkInv, Supervision
  PROVE  LinkInv'
<1>t. TypeOK /\ Control /\ Timing
  BY DEF LinkInv
<1>1. TypeOK'
  <2>1. /\ rf_state' \in {"IDLE", "PAIRING", "CONNECTED", "RESTING"}
        /\ pair_flavor' \in {"FRESH", "BONDED"}
        /\ radio' \in {"off", "rx", "tx"} /\ rest_stage' \in 0..2
        /\ bond' \in Dongles \cup {NoBond} /\ pending' \in Dongles \cup {NoBond}
        /\ flash' \in Dongles \cup {NoBond}
        /\ told' \in Status
    BY <1>t, Types
       DEF Status, mcuVars, Supervision, rest_reset, restVars, pairVars
  <2>2. /\ pair_rx_open' \in BOOLEAN /\ pair_rx_off_armed' \in BOOLEAN
        /\ rest_probe' \in BOOLEAN /\ rest_probe_wake' \in BOOLEAN
        /\ rest_quiet_pending' \in BOOLEAN /\ supervision_kick' \in BOOLEAN
        /\ bond_save_pending' \in BOOLEAN /\ unsaved' \in BOOLEAN
        /\ reselected' \in BOOLEAN
    BY <1>t, Types DEF mcuVars, Supervision, rest_reset, restVars, pairVars
  <2>3. events' \subseteq Event /\ timers' \subseteq TimerEvents
    BY <1>t, Types, Names, ServeLeaves, ShutLeaves DEF Supervision
  <2> QED
    BY <2>1, <2>2, <2>3, TypesBack
<1>2. Control'
  BY <1>t
     DEF mcuVars, Supervision, rest_reset, restVars, pairVars, Control,
         McuView, FlashNotStale, SleepsWithRadioOff, RF_CanDeepSleep, Bonded,
         Probes, SilentProbe
<1>3. Timing'
  BY <1>t, ServeLeaves
     DEF Supervision, rest_reset, restVars, pairVars, Timing, CatchIsBonded,
         Supervised, Beaconing, ProbeTimed, RestTimed, Cadence, SilentProbe,
         live
<1> QED
  BY <1>1, <1>2, <1>3 DEF LinkInv

\* The rest begins.
LEMMA RestIdleKeeps ==
  ASSUME LinkInv, NEW quiet \in BOOLEAN, RestIdle(quiet)
  PROVE  LinkInv'
<1>t. TypeOK /\ Control /\ Timing
  BY DEF LinkInv
<1>1. TypeOK'
  <2>1. /\ rf_state' \in {"IDLE", "PAIRING", "CONNECTED", "RESTING"}
        /\ pair_flavor' \in {"FRESH", "BONDED"}
        /\ radio' \in {"off", "rx", "tx"} /\ rest_stage' \in 0..2
        /\ bond' \in Dongles \cup {NoBond} /\ pending' \in Dongles \cup {NoBond}
        /\ flash' \in Dongles \cup {NoBond}
        /\ told' \in Status
    BY <1>t, Types
       DEF Status, mcuVars, RestIdle, Ignore, rest_go_quiet, pairVars,
           restVars, bondVars
  <2>2. /\ pair_rx_open' \in BOOLEAN /\ pair_rx_off_armed' \in BOOLEAN
        /\ rest_probe' \in BOOLEAN /\ rest_probe_wake' \in BOOLEAN
        /\ rest_quiet_pending' \in BOOLEAN /\ supervision_kick' \in BOOLEAN
        /\ bond_save_pending' \in BOOLEAN /\ unsaved' \in BOOLEAN
        /\ reselected' \in BOOLEAN
    <3>1. UNCHANGED <<bond_save_pending, unsaved, reselected>>
      BY DEF mcuVars, RestIdle, Ignore, rest_go_quiet, bondVars
    <3>2. /\ pair_rx_open' \in BOOLEAN /\ pair_rx_off_armed' \in BOOLEAN
          /\ supervision_kick' \in BOOLEAN
      BY <1>t, Types DEF RestIdle, Ignore, rest_go_quiet, pairVars
    <3>3. /\ rest_probe' \in BOOLEAN /\ rest_probe_wake' \in BOOLEAN
          /\ rest_quiet_pending' \in BOOLEAN
      BY <1>t, Types DEF RestIdle, Ignore, rest_go_quiet, restVars
    <3> QED
      BY <1>t, <3>1, <3>2, <3>3, Types
  <2>3. events' \subseteq Event /\ timers' \subseteq TimerEvents
    BY <1>t, Types, Names, ServeLeaves, ShutLeaves
       DEF RestIdle, Ignore, TimerEvents
  <2> QED
    BY <2>1, <2>2, <2>3, TypesBack
<1>2. Control'
  BY <1>t
     DEF mcuVars, RestIdle, Ignore, rest_go_quiet, pairVars, restVars,
         bondVars, Control, McuView, FlashNotStale, SleepsWithRadioOff,
         RF_CanDeepSleep, Bonded, Probes, SilentProbe
<1>3. Timing'
  BY <1>t, ServeLeaves, ShutLeaves
     DEF RestIdle, Ignore, rest_go_quiet, pairVars, restVars, bondVars,
         Timing, CatchIsBonded, Supervised, Beaconing, ProbeTimed, RestTimed,
         Cadence, SilentProbe, live
<1> QED
  BY <1>1, <1>2, <1>3 DEF LinkInv

\* A probe begins: nothing of an earlier search is posted.
LEMMA RestProbeKeeps ==
  ASSUME LinkInv, RestProbe
  PROVE  LinkInv'
<1>t. TypeOK /\ Control /\ Timing
  BY DEF LinkInv
<1>1. TypeOK'
  <2>1. /\ rf_state' \in {"IDLE", "PAIRING", "CONNECTED", "RESTING"}
        /\ pair_flavor' \in {"FRESH", "BONDED"}
        /\ radio' \in {"off", "rx", "tx"} /\ rest_stage' \in 0..2
        /\ bond' \in Dongles \cup {NoBond} /\ pending' \in Dongles \cup {NoBond}
        /\ flash' \in Dongles \cup {NoBond}
        /\ told' \in Status
    BY <1>t, Types
       DEF Status, mcuVars, RestProbe, Ignore, rest_probe_start, pairVars,
           restVars, bondVars
  <2>2. /\ pair_rx_open' \in BOOLEAN /\ pair_rx_off_armed' \in BOOLEAN
        /\ rest_probe' \in BOOLEAN /\ rest_probe_wake' \in BOOLEAN
        /\ rest_quiet_pending' \in BOOLEAN /\ supervision_kick' \in BOOLEAN
        /\ bond_save_pending' \in BOOLEAN /\ unsaved' \in BOOLEAN
        /\ reselected' \in BOOLEAN
    BY <1>t, Types
       DEF mcuVars, RestProbe, Ignore, rest_probe_start, pairVars, restVars,
           bondVars
  <2>3. events' \subseteq Event /\ timers' \subseteq TimerEvents
    BY <1>t, Types, Names, ServeLeaves DEF RestProbe, Ignore, TimerEvents
  <2> QED
    BY <2>1, <2>2, <2>3, TypesBack
<1>2. Control'
  BY <1>t
     DEF mcuVars, RestProbe, Ignore, rest_probe_start, pairVars, restVars,
         bondVars, Control, McuView, FlashNotStale, SleepsWithRadioOff,
         RF_CanDeepSleep, Bonded, Probes, SilentProbe
<1>3. Timing'
  BY <1>t, ServeLeaves, Served
     DEF RestProbe, Ignore, ProbeStops, rest_probe_start, pairVars, restVars,
         Timing, CatchIsBonded, Supervised, Beaconing, ProbeTimed, RestTimed,
         Cadence, SilentProbe, live
<1> QED
  BY <1>1, <1>2, <1>3 DEF LinkInv

\* A probe ends, or goes on if a report woke it.
LEMMA RestProbeTimeoutKeeps ==
  ASSUME LinkInv, RestProbeTimeout
  PROVE  LinkInv'
<1>t. TypeOK /\ Control /\ Timing
  BY DEF LinkInv
<1>1. TypeOK'
  <2>1. /\ rf_state' \in {"IDLE", "PAIRING", "CONNECTED", "RESTING"}
        /\ pair_flavor' \in {"FRESH", "BONDED"}
        /\ radio' \in {"off", "rx", "tx"} /\ rest_stage' \in 0..2
        /\ bond' \in Dongles \cup {NoBond} /\ pending' \in Dongles \cup {NoBond}
        /\ flash' \in Dongles \cup {NoBond}
        /\ told' \in Status
    BY <1>t, Types
       DEF Status, mcuVars, RestProbeTimeout, Ignore, pairVars, restVars,
           bondVars, rest_go_quiet
  <2>2. /\ pair_rx_open' \in BOOLEAN /\ pair_rx_off_armed' \in BOOLEAN
        /\ rest_probe' \in BOOLEAN /\ rest_probe_wake' \in BOOLEAN
        /\ rest_quiet_pending' \in BOOLEAN /\ supervision_kick' \in BOOLEAN
        /\ bond_save_pending' \in BOOLEAN /\ unsaved' \in BOOLEAN
        /\ reselected' \in BOOLEAN
    BY <1>t, Types
       DEF mcuVars, RestProbeTimeout, Ignore, pairVars, restVars, bondVars,
           rest_go_quiet
  <2>3. events' \subseteq Event /\ timers' \subseteq TimerEvents
    BY <1>t, Types, Names, ServeLeaves, ShutLeaves
       DEF RestProbeTimeout, Ignore, TimerEvents
  <2> QED
    BY <2>1, <2>2, <2>3, TypesBack
<1>2. Control'
  BY <1>t
     DEF mcuVars, RestProbeTimeout, Ignore, pairVars, restVars, bondVars,
         SilentProbe, rest_go_quiet, Control, McuView, FlashNotStale,
         SleepsWithRadioOff, RF_CanDeepSleep, Bonded, Probes
<1>3. Timing'
  BY <1>t, ServeLeaves, ShutLeaves
     DEF RestProbeTimeout, Ignore, pairVars, restVars, bondVars, SilentProbe,
         GoQuietStops, rest_go_quiet, Timing, CatchIsBonded, Supervised,
         Beaconing, ProbeTimed, RestTimed, Cadence, live
<1> QED
  BY <1>1, <1>2, <1>3 DEF LinkInv

\* Stage 2 of the rest.
LEMMA RestStage2Keeps ==
  ASSUME LinkInv, RestStage2
  PROVE  LinkInv'
<1>t. TypeOK /\ Control /\ Timing
  BY DEF LinkInv
<1>1. TypeOK'
  <2>1. /\ rf_state' \in {"IDLE", "PAIRING", "CONNECTED", "RESTING"}
        /\ pair_flavor' \in {"FRESH", "BONDED"}
        /\ radio' \in {"off", "rx", "tx"} /\ rest_stage' \in 0..2
        /\ bond' \in Dongles \cup {NoBond} /\ pending' \in Dongles \cup {NoBond}
        /\ flash' \in Dongles \cup {NoBond}
        /\ told' \in Status
    BY <1>t, Types DEF Status, mcuVars, RestStage2, pairVars, bondVars
  <2>2. /\ pair_rx_open' \in BOOLEAN /\ pair_rx_off_armed' \in BOOLEAN
        /\ rest_probe' \in BOOLEAN /\ rest_probe_wake' \in BOOLEAN
        /\ rest_quiet_pending' \in BOOLEAN /\ supervision_kick' \in BOOLEAN
        /\ bond_save_pending' \in BOOLEAN /\ unsaved' \in BOOLEAN
        /\ reselected' \in BOOLEAN
    BY <1>t, Types DEF mcuVars, RestStage2, pairVars, bondVars
  <2>3. events' \subseteq Event /\ timers' \subseteq TimerEvents
    BY <1>t, Types, ServeLeaves DEF RestStage2
  <2> QED
    BY <2>1, <2>2, <2>3, TypesBack
<1>2. Control'
  BY <1>t
     DEF mcuVars, RestStage2, pairVars, bondVars, Control, McuView,
         FlashNotStale, SleepsWithRadioOff, RF_CanDeepSleep, Bonded, Probes,
         SilentProbe
<1>3. Timing'
  BY <1>t, ServeLeaves
     DEF RestStage2, pairVars, bondVars, Timing, CatchIsBonded, Supervised,
         Beaconing, ProbeTimed, RestTimed, Cadence, SilentProbe, live
<1> QED
  BY <1>1, <1>2, <1>3 DEF LinkInv

\* A report wakes the link.
LEMMA ReportKeeps ==
  ASSUME LinkInv, RF_QueueHIDReport
  PROVE  LinkInv'
<1>t. TypeOK /\ Control /\ Timing
  BY DEF LinkInv
<1>1. TypeOK'
  <2>1. /\ rf_state' \in {"IDLE", "PAIRING", "CONNECTED", "RESTING"}
        /\ pair_flavor' \in {"FRESH", "BONDED"}
        /\ radio' \in {"off", "rx", "tx"} /\ rest_stage' \in 0..2
        /\ bond' \in Dongles \cup {NoBond} /\ pending' \in Dongles \cup {NoBond}
        /\ flash' \in Dongles \cup {NoBond}
        /\ told' \in Status
    BY <1>t, Types
       DEF Status, mcuVars, RF_QueueHIDReport, rest_probe_start, rest_reset,
           restVars, pairVars, bondVars
  <2>2. /\ pair_rx_open' \in BOOLEAN /\ pair_rx_off_armed' \in BOOLEAN
        /\ rest_probe' \in BOOLEAN /\ rest_probe_wake' \in BOOLEAN
        /\ rest_quiet_pending' \in BOOLEAN /\ supervision_kick' \in BOOLEAN
        /\ bond_save_pending' \in BOOLEAN /\ unsaved' \in BOOLEAN
        /\ reselected' \in BOOLEAN
    BY <1>t, Types
       DEF mcuVars, RF_QueueHIDReport, rest_probe_start, rest_reset, restVars,
           pairVars, bondVars
  <2>3. events' \subseteq Event /\ timers' \subseteq TimerEvents
    BY <1>t, Types, Names
       DEF RF_QueueHIDReport, Tmos, PromoteStarts, tmosVars, TimerEvents
  <2> QED
    BY <2>1, <2>2, <2>3, TypesBack
<1>2. Control'
  BY <1>t
     DEF mcuVars, RF_QueueHIDReport, rest_probe_start, rest_reset, restVars,
         pairVars, bondVars, Control, McuView, FlashNotStale,
         SleepsWithRadioOff, RF_CanDeepSleep, Bonded, Probes, SilentProbe
<1>3. Timing'
  BY <1>t
     DEF RF_QueueHIDReport, Tmos, ProbeStops, rest_probe_start, rest_reset,
         PromoteStarts, restVars, pairVars, bondVars, tmosVars, Timing,
         CatchIsBonded, Supervised, Beaconing, ProbeTimed, RestTimed, Cadence,
         SilentProbe, live
<1> QED
  BY <1>1, <1>2, <1>3 DEF LinkInv

\* The commands that take the link down.
LEMMA TeardownKeeps ==
  ASSUME LinkInv, NEW late \in BOOLEAN,
         SelectOther(late) \/ SleepOrUpdate(late) \/ Unpair(late)
  PROVE  LinkInv'
<1>t. TypeOK /\ Control /\ Timing
  BY DEF LinkInv
<1>1. TypeOK'
  <2>1. /\ rf_state' \in {"IDLE", "PAIRING", "CONNECTED", "RESTING"}
        /\ pair_flavor' \in {"FRESH", "BONDED"}
        /\ radio' \in {"off", "rx", "tx"} /\ rest_stage' \in 0..2
        /\ bond' \in Dongles \cup {NoBond} /\ pending' \in Dongles \cup {NoBond}
        /\ flash' \in Dongles \cup {NoBond}
        /\ told' \in Status
    BY <1>t, Types
       DEF Status, mcuVars, SelectOther, SleepOrUpdate, Unpair, RF_Disconnect,
           pairVars, RF_ClearBond, rest_reset
  <2>2. /\ pair_rx_open' \in BOOLEAN /\ pair_rx_off_armed' \in BOOLEAN
        /\ rest_probe' \in BOOLEAN /\ rest_probe_wake' \in BOOLEAN
        /\ rest_quiet_pending' \in BOOLEAN /\ supervision_kick' \in BOOLEAN
        /\ bond_save_pending' \in BOOLEAN /\ unsaved' \in BOOLEAN
        /\ reselected' \in BOOLEAN
    BY <1>t, Types
       DEF mcuVars, SelectOther, SleepOrUpdate, Unpair, RF_Disconnect,
           pairVars, RF_ClearBond, rest_reset
  <2>3. events' \subseteq Event /\ timers' \subseteq TimerEvents
    BY <1>t, Types, Names
       DEF SelectOther, SleepOrUpdate, Unpair, Tmos, LateCatch
  <2> QED
    BY <2>1, <2>2, <2>3, TypesBack
<1>2. Control'
  BY <1>t
     DEF mcuVars, SelectOther, SleepOrUpdate, Unpair, RF_Disconnect,
         RF_ClearBond, rest_reset, Control, McuView, FlashNotStale,
         SleepsWithRadioOff, Bonded, Probes
<1>3. Timing'
  BY DEF SelectOther, SleepOrUpdate, Unpair, RF_Disconnect, rest_reset,
         Timing, CatchIsBonded, Supervised, Beaconing, ProbeTimed, RestTimed,
         Cadence, SilentProbe
<1> QED
  BY <1>1, <1>2, <1>3 DEF LinkInv

\* A factory pairing.
LEMMA FactoryPairKeeps ==
  ASSUME LinkInv, NEW late \in BOOLEAN, FactoryPair(late)
  PROVE  LinkInv'
<1>t. TypeOK /\ Control /\ Timing
  BY DEF LinkInv
<1>1. TypeOK'
  <2>1. /\ rf_state' \in {"IDLE", "PAIRING", "CONNECTED", "RESTING"}
        /\ pair_flavor' \in {"FRESH", "BONDED"}
        /\ radio' \in {"off", "rx", "tx"} /\ rest_stage' \in 0..2
        /\ bond' \in Dongles \cup {NoBond} /\ pending' \in Dongles \cup {NoBond}
        /\ flash' \in Dongles \cup {NoBond}
        /\ told' \in Status
    BY <1>t, Types
       DEF Status, FactoryPair, RF_Disconnect, RF_ClearBond,
           fresh_search, rest_reset
  <2>2. /\ pair_rx_open' \in BOOLEAN /\ pair_rx_off_armed' \in BOOLEAN
        /\ rest_probe' \in BOOLEAN /\ rest_probe_wake' \in BOOLEAN
        /\ rest_quiet_pending' \in BOOLEAN /\ supervision_kick' \in BOOLEAN
        /\ bond_save_pending' \in BOOLEAN /\ unsaved' \in BOOLEAN
        /\ reselected' \in BOOLEAN
    BY <1>t, Types
       DEF FactoryPair, RF_Disconnect, RF_ClearBond, fresh_search,
           rest_reset
  <2>3. events' \subseteq Event /\ timers' \subseteq TimerEvents
    BY <1>t, Types, Names DEF FactoryPair, Tmos, TimerEvents
  <2> QED
    BY <2>1, <2>2, <2>3, TypesBack
<1>2. Control'
  BY DEF FactoryPair, RF_Disconnect, RF_ClearBond, fresh_search, rest_reset,
         Control, McuView, FlashNotStale, SleepsWithRadioOff, Bonded, Probes
<1>3. Timing'
  BY DEF FactoryPair, RF_Disconnect, Tmos, DisconnectStops, fresh_search,
         rest_reset, Timing, CatchIsBonded, Supervised, Beaconing, ProbeTimed,
         RestTimed, Cadence, SilentProbe, live
<1> QED
  BY <1>1, <1>2, <1>3 DEF LinkInv

\* A pairing.
LEMMA EnterPairingKeeps ==
  ASSUME LinkInv, RF_EnterPairing
  PROVE  LinkInv'
<1>t. TypeOK /\ Control /\ Timing
  BY DEF LinkInv
<1>1. TypeOK'
  <2>1. /\ rf_state' \in {"IDLE", "PAIRING", "CONNECTED", "RESTING"}
        /\ pair_flavor' \in {"FRESH", "BONDED"}
        /\ radio' \in {"off", "rx", "tx"} /\ rest_stage' \in 0..2
        /\ bond' \in Dongles \cup {NoBond} /\ pending' \in Dongles \cup {NoBond}
        /\ flash' \in Dongles \cup {NoBond}
        /\ told' \in Status
    BY <1>t, Types
       DEF Status, RF_EnterPairing, rest_reset, fresh_search,
           bondVars, pairVars, restVars
  <2>2. /\ pair_rx_open' \in BOOLEAN /\ pair_rx_off_armed' \in BOOLEAN
        /\ rest_probe' \in BOOLEAN /\ rest_probe_wake' \in BOOLEAN
        /\ rest_quiet_pending' \in BOOLEAN /\ supervision_kick' \in BOOLEAN
        /\ bond_save_pending' \in BOOLEAN /\ unsaved' \in BOOLEAN
        /\ reselected' \in BOOLEAN
    BY <1>t, Types
       DEF RF_EnterPairing, rest_reset, fresh_search, bondVars,
           pairVars, restVars
  <2>3. events' \subseteq Event /\ timers' \subseteq TimerEvents
    BY <1>t, Types, Names DEF RF_EnterPairing, Tmos, tmosVars, TimerEvents
  <2> QED
    BY <2>1, <2>2, <2>3, TypesBack
<1>2. Control'
  <2>1. CASE rf_state = "CONNECTED"
    BY <1>t, <2>1
       DEF RF_EnterPairing, fresh_search, bondVars, pairVars, restVars, Control,
           McuView, FlashNotStale, SleepsWithRadioOff, RF_CanDeepSleep, Bonded,
           Probes, SilentProbe
  <2>2. CASE rf_state # "CONNECTED"
    BY <1>t, <2>2
       DEF RF_EnterPairing, rest_reset, fresh_search, bondVars, Control, McuView,
           FlashNotStale, SleepsWithRadioOff, RF_CanDeepSleep, Bonded, Probes
  <2> QED
    BY <2>1, <2>2
<1>3. Timing'
  BY <1>t
     DEF RF_EnterPairing, rest_reset, Tmos, EnterPairingStops, fresh_search,
         pairVars, restVars, bondVars, tmosVars, Timing, CatchIsBonded, Supervised, Beaconing, ProbeTimed, RestTimed,
         Cadence, SilentProbe, live
<1> QED
  BY <1>1, <1>2, <1>3 DEF LinkInv

\* A select.
LEMMA Select2G4Keeps ==
  ASSUME LinkInv, RF_Select2G4
  PROVE  LinkInv'
<1>t. TypeOK /\ Control /\ Timing
  BY DEF LinkInv
<1>1. TypeOK'
  <2>1. /\ rf_state' \in {"IDLE", "PAIRING", "CONNECTED", "RESTING"}
        /\ pair_flavor' \in {"FRESH", "BONDED"}
        /\ radio' \in {"off", "rx", "tx"} /\ rest_stage' \in 0..2
        /\ bond' \in Dongles \cup {NoBond} /\ pending' \in Dongles \cup {NoBond}
        /\ flash' \in Dongles \cup {NoBond}
        /\ told' \in Status
    BY <1>t, Types
       DEF Status, RF_Select2G4, rest_reset, pairVars, restVars,
           bondVars
  <2>2. /\ pair_rx_open' \in BOOLEAN /\ pair_rx_off_armed' \in BOOLEAN
        /\ rest_probe' \in BOOLEAN /\ rest_probe_wake' \in BOOLEAN
        /\ rest_quiet_pending' \in BOOLEAN /\ supervision_kick' \in BOOLEAN
        /\ bond_save_pending' \in BOOLEAN /\ unsaved' \in BOOLEAN
        /\ reselected' \in BOOLEAN
    BY <1>t, Types
       DEF RF_Select2G4, rest_reset, pairVars, restVars, bondVars
  <2>3. events' \subseteq Event /\ timers' \subseteq TimerEvents
    BY <1>t, Types, Names
       DEF RF_Select2G4, Tmos, tmosVars, PromoteStarts, TimerEvents
  <2> QED
    BY <2>1, <2>2, <2>3, TypesBack
<1>2. Control'
  <2>1. CASE rf_state = "CONNECTED"
    <3>1. /\ UNCHANGED <<rf_state, pair_flavor, pair_rx_open, pair_rx_off_armed,
                         radio, supervision_kick, bond, pending,
                         bond_save_pending, flash, unsaved>>
          /\ told' = "selected" /\ reselected'
          /\ \/ ~rest_probe /\ UNCHANGED restVars
             \/ rest_probe /\ rest_reset
      BY <2>1 DEF RF_Select2G4, bondVars, pairVars
    <3> QED
      BY <1>t, <2>1, <3>1
         DEF rest_reset, restVars, Control, McuView, FlashNotStale,
             SleepsWithRadioOff, RF_CanDeepSleep, Bonded, Probes, SilentProbe
  <2>2. CASE rf_state # "CONNECTED"
    <3>1. ~reselected'
      BY <2>2 DEF RF_Select2G4
    <3> QED
      BY <1>t, <2>2, <3>1
         DEF RF_Select2G4, rest_reset, bondVars, pairVars, Control, McuView,
             FlashNotStale, SleepsWithRadioOff, RF_CanDeepSleep, Bonded, Probes
  <2> QED
    BY <2>1, <2>2
<1>3. Timing'
  BY <1>t
     DEF RF_Select2G4, rest_reset, Tmos, PromoteStarts, RestEvents, pairVars,
         restVars, bondVars, tmosVars, Timing, CatchIsBonded, Supervised, Beaconing, ProbeTimed, RestTimed,
         Cadence, SilentProbe, live
<1> QED
  BY <1>1, <1>2, <1>3 DEF LinkInv

\* A reset.
LEMMA ResetKeeps ==
  ASSUME LinkInv, Reset
  PROVE  LinkInv'
<1>t. TypeOK /\ Control /\ Timing
  BY DEF LinkInv
<1>1. TypeOK'
  <2>1. /\ rf_state' \in {"IDLE", "PAIRING", "CONNECTED", "RESTING"}
        /\ pair_flavor' \in {"FRESH", "BONDED"}
        /\ radio' \in {"off", "rx", "tx"} /\ rest_stage' \in 0..2
        /\ bond' \in Dongles \cup {NoBond} /\ pending' \in Dongles \cup {NoBond}
        /\ flash' \in Dongles \cup {NoBond}
        /\ told' \in Status
    BY <1>t, Types DEF Status, Reset, Boot
  <2>2. /\ pair_rx_open' \in BOOLEAN /\ pair_rx_off_armed' \in BOOLEAN
        /\ rest_probe' \in BOOLEAN /\ rest_probe_wake' \in BOOLEAN
        /\ rest_quiet_pending' \in BOOLEAN /\ supervision_kick' \in BOOLEAN
        /\ bond_save_pending' \in BOOLEAN /\ unsaved' \in BOOLEAN
        /\ reselected' \in BOOLEAN
    BY DEF Reset, Boot
  <2>3. events' \subseteq Event /\ timers' \subseteq TimerEvents
    BY Names DEF Reset, Boot
  <2> QED
    BY <2>1, <2>2, <2>3, TypesBack
<1>2. Control'
  BY DEF Reset, Boot, Control, McuView, FlashNotStale, SleepsWithRadioOff,
         Bonded, Probes
<1>3. Timing'
  BY DEF Reset, Boot, Timing, CatchIsBonded, Supervised, Beaconing,
         ProbeTimed, RestTimed, Cadence, live
<1> QED
  BY <1>1, <1>2, <1>3 DEF LinkInv

LEMMA LinkStep == LinkInv /\ [Next]_vars => LinkInv'
<1> SUFFICES ASSUME LinkInv, [Next]_vars PROVE LinkInv'
  OBVIOUS
<1>1. CASE Tmos_Expire
  BY <1>1, ExpireKeeps DEF Tmos_Expire
<1>2. CASE RF_ProcessEvent
  BY <1>2, RxRestartKeeps, BroadcastKeeps, PairRxOffKeeps, PairTimeoutKeeps,
     EnterConnectedKeeps, SaveBondKeeps, RestIdleKeeps, RestProbeKeeps,
     RestProbeTimeoutKeeps, RestStage2Keeps, SupervisionKeeps
     DEF RF_ProcessEvent
<1>3. CASE Radio
  BY <1>3, HandshakeKeeps, TxDoneKeeps, RxErrorKeeps, PollKeeps DEF Radio
<1>4. CASE RF_ConnectedTick
  BY <1>4, TickKeeps
<1>5. CASE Command
  BY <1>5, ReportKeeps, EnterPairingKeeps, Select2G4Keeps, TeardownKeeps,
     FactoryPairKeeps DEF Command
<1>6. CASE Reset
  BY <1>6, ResetKeeps
<1>7. CASE UNCHANGED vars
  <2>0. UNCHANGED <<rf_state, pair_flavor, pair_rx_open, pair_rx_off_armed,
                    radio, rest_stage, rest_probe, rest_probe_wake,
                    rest_quiet_pending, supervision_kick, bond, pending,
                    bond_save_pending, flash, unsaved, events, timers, told,
                    reselected>>
    BY <1>7 DEF vars, pairVars, restVars, bondVars, tmosVars, mcuVars
  <2>1. TypeOK'
    BY <2>0 DEF LinkInv, TypeOK
  <2>2. Control'
    BY <2>0 DEF LinkInv, Control, McuView, FlashNotStale, SleepsWithRadioOff,
                RF_CanDeepSleep, Bonded, Probes, SilentProbe
  <2>3. Timing'
    BY <2>0 DEF LinkInv, Timing, CatchIsBonded, Supervised, Beaconing,
                ProbeTimed, RestTimed, Cadence, SilentProbe, live
  <2> QED
    BY <2>1, <2>2, <2>3 DEF LinkInv
<1> QED
  BY <1>1, <1>2, <1>3, <1>4, <1>5, <1>6, <1>7 DEF Next

LEMMA LinkAlways == Spec => []LinkInv
BY LinkInit, LinkStep, PTL DEF Spec

-----------------------------------------------------------------------------
(* The types of the link, for every set of dongles.                          *)
THEOREM LinkTypes == Spec => []TypeOK
<1>1. LinkInv => TypeOK
  BY DEF LinkInv
<1> QED
  BY <1>1, LinkAlways, PTL

(* No state of the link is left without the timer that leaves it.            *)
THEOREM NeverStrandedAlways == Spec => []NeverStranded
<1>1. LinkInv => NeverStranded
  BY DEF LinkInv, Timing, Supervised, Beaconing, ProbeTimed, RestTimed,
         NeverStranded
<1> QED
  BY <1>1, LinkAlways, PTL

(* A catch that is about to be served in PAIRING is the bonded dongle's.     *)
THEOREM CatchIsBondedAlways == Spec => []CatchIsBonded
<1>1. LinkInv => CatchIsBonded
  BY DEF LinkInv, Timing
<1> QED
  BY <1>1, LinkAlways, PTL

(* Since the module booted, the status the keyboard MCU was last sent says   *)
(* CONNECTED exactly while there is a session, a rest or a probe, but for a  *)
(* session over which it has selected 2.4 GHz again; and a loss, a sleep or  *)
(* a pairing it knows of is what the link went through.                      *)
THEOREM McuViewAlways == Spec => []McuView
<1>1. LinkInv => McuView
  BY DEF LinkInv, Control
<1> QED
  BY <1>1, LinkAlways, PTL

(* Flash never holds a bond that RAM does not.                               *)
THEOREM FlashNotStaleAlways == Spec => []FlashNotStale
<1>1. LinkInv => FlashNotStale
  BY DEF LinkInv, Control
<1> QED
  BY <1>1, LinkAlways, PTL

(* Whenever the deep-sleep gate opens, the radio is shut.                    *)
THEOREM SleepsWithRadioOffAlways == Spec => []SleepsWithRadioOff
<1>1. LinkInv => SleepsWithRadioOff
  BY DEF LinkInv, Control
<1> QED
  BY <1>1, LinkAlways, PTL

(* A link that is down stays down until a command or a reset brings it up:   *)
(* a probe, the one thing a timer could revive, has ended by then.           *)
THEOREM StaysDownAlways == Spec => StaysDown
<1>1. LinkInv /\ [Next]_vars =>
        [rf_state = "IDLE" /\ rf_state' # "IDLE" =>
           \/ RF_EnterPairing \/ RF_Select2G4 \/ Reset
           \/ \E late \in BOOLEAN : FactoryPair(late)]_vars
  <2> SUFFICES ASSUME LinkInv, Next, rf_state = "IDLE", rf_state' # "IDLE"
               PROVE  \/ RF_EnterPairing \/ RF_Select2G4 \/ Reset
                      \/ \E late \in BOOLEAN : FactoryPair(late)
    OBVIOUS
  <2>1. ~rest_probe
    BY DEF LinkInv, Control, Probes
  <2>2. ~Tmos_Expire /\ ~Radio /\ ~RF_ConnectedTick
    BY DEF Tmos_Expire, Expire, Radio, Handshake, TxDone, RxError, Poll,
           RF_ConnectedTick
  <2>3. ~RF_ProcessEvent
    BY <2>1 DEF RF_ProcessEvent, RxRestart, rf_pair_broadcast, PairRxOff,
                PairTimeout, EnterConnected, rf_enter_connected, SaveBond,
                RestIdle, RestProbe, RestProbeTimeout, RestStage2, Supervision,
                Ignore, SilentProbe
  <2>4. ~RF_QueueHIDReport
    BY DEF RF_QueueHIDReport
  <2>5. \A late \in BOOLEAN :
          ~SelectOther(late) /\ ~SleepOrUpdate(late) /\ ~Unpair(late)
    BY DEF SelectOther, SleepOrUpdate, Unpair
  <2> QED
    BY <2>2, <2>3, <2>4, <2>5 DEF Next, Command
<1> QED
  BY <1>1, LinkAlways, PTL DEF Spec, StaysDown
-----------------------------------------------------------------------------
(* The LED relay.  The invariant follows one byte through the three places   *)
(* that remember it: pending_led (what the dongle said last), last_led_sent  *)
(* (what the handler believes host wake holds) and the slot itself.          *)

\* The callback's copy is the newest byte; no handler runs while a session is
\* being entered.
Callback ==
  /\ newest # NoFrame => pending_led = newest
  /\ session = "entering" => pc = "out"

\* Between its steps the handler's three copies agree as far as it has come.
Handler ==
  /\ pc = "record" => val = led /\ ~owed
  /\ pc = "look" => last_led_sent = led
  /\ pc # "record" /\ last_led_sent # NoFrame => val = last_led_sent

\* With no event pending, what the handler believes it sent is what the
\* callback holds, and the slot holds it or a loss is on record.
Settled ==
  pc = "out" /\ ~notify =>
    /\ last_led_sent # NoFrame => last_led_sent = pending_led
    /\ newest # NoFrame => val = newest \/ lost \/ owed

\* Host wake's promise, and the resync that answers a loss.
Losses ==
  /\ ~busy => host = val \/ lost \/ owed
  /\ owed => last_led_sent = NoFrame

LedInv == RelayTypeOK /\ Callback /\ Handler /\ Settled /\ Losses

\* RelayTypeOK, variable by variable.
LEMMA RelayTypes ==
  ASSUME RelayTypeOK
  PROVE  /\ pending_led \in Led /\ led \in Led
         /\ last_led_sent \in Led \cup {NoFrame}
         /\ newest \in Led \cup {NoFrame}
         /\ val \in Led \cup {NoFrame}
         /\ host \in Led \cup {NoFrame}
         /\ notify \in BOOLEAN /\ forwarded \in BOOLEAN
         /\ busy \in BOOLEAN /\ lost \in BOOLEAN /\ owed \in BOOLEAN
BY Zenon DEF RelayTypeOK

LEMMA RelayTypesBack ==
  ASSUME pending_led' \in Led, led' \in Led,
         last_led_sent' \in Led \cup {NoFrame},
         newest' \in Led \cup {NoFrame},
         val' \in Led \cup {NoFrame},
         host' \in Led \cup {NoFrame},
         notify' \in BOOLEAN, forwarded' \in BOOLEAN,
         busy' \in BOOLEAN, lost' \in BOOLEAN, owed' \in BOOLEAN,
         pc' \in {"out", "send", "record", "look"},
         session' \in {"down", "resting", "entering", "up"}
  PROVE  RelayTypeOK'
BY Zenon DEF RelayTypeOK

LEMMA LedInit == RelayInit => LedInv
<1> SUFFICES ASSUME RelayInit PROVE LedInv
  OBVIOUS
<1>1. RelayTypeOK
  BY Zenon DEF RelayInit, Slot!Init, RelayTypeOK
<1>2. Callback /\ Handler /\ Settled /\ Losses
  BY DEF RelayInit, Slot!Init, Callback, Handler, Settled, Losses
<1> QED
  BY <1>1, <1>2 DEF LedInv

(* Every step of the callback, the handler, the session and host wake keeps  *)
(* LedInv.                                                                   *)
LEMMA LedStep == LedInv /\ [RelayNext]_relay_vars => LedInv'
<1> SUFFICES ASSUME LedInv, [RelayNext]_relay_vars PROVE LedInv'
  OBVIOUS
<1> USE LedRelayAssumption
<1>t. RelayTypeOK /\ Callback /\ Handler /\ Settled /\ Losses
  BY DEF LedInv
<1>1. ASSUME NEW v \in Led, Relay(v)
      PROVE  RelayTypeOK' /\ Callback' /\ Handler' /\ Settled' /\ Losses'
  <2>0. UNCHANGED <<last_led_sent, pc, led, session, forwarded, val, busy,
                    host, lost, owed>>
    BY <1>1 DEF Relay, handler, slot
  <2>1. RelayTypeOK'
    BY <1>1, <1>t, <2>0, RelayTypes, RelayTypesBack, Zenon
       DEF Relay, RelayTypeOK
  <2>2. Callback' /\ Handler' /\ Settled' /\ Losses'
    BY <1>1, <1>t, <2>0, RelayTypes, Zenon
       DEF Relay, Callback, Handler, Settled, Losses
  <2> QED
    BY <2>1, <2>2
<1>2. ASSUME ReadPending
      PROVE  RelayTypeOK' /\ Callback' /\ Handler' /\ Settled' /\ Losses'
  <2>0. UNCHANGED <<pending_led, last_led_sent, session, newest, forwarded, val,
                    busy, host, lost, owed>>
    BY <1>2 DEF ReadPending, slot
  <2>1. RelayTypeOK'
    BY <1>2, <1>t, <2>0, RelayTypes, RelayTypesBack, Zenon
       DEF ReadPending, RelayTypeOK
  <2>2. Callback' /\ Handler' /\ Settled' /\ Losses'
    BY <1>2, <1>t, <2>0, RelayTypes, Zenon
       DEF ReadPending, Callback, Handler, Settled, Losses
  <2> QED
    BY <2>1, <2>2
<1>3. ASSUME SendLed
      PROVE  RelayTypeOK' /\ Callback' /\ Handler' /\ Settled' /\ Losses'
  <2>0. UNCHANGED <<pending_led, last_led_sent, notify, led, session, newest,
                    host, lost>>
    BY <1>3 DEF SendLed, Slot!Set
  <2>1. RelayTypeOK'
    BY <1>3, <1>t, <2>0, RelayTypes, RelayTypesBack, Zenon
       DEF SendLed, Slot!Set, RelayTypeOK
  <2>2. Callback' /\ Handler' /\ Settled' /\ Losses'
    BY <1>3, <1>t, <2>0, RelayTypes, Zenon
       DEF SendLed, Slot!Set, Callback, Handler, Settled, Losses
  <2> QED
    BY <2>1, <2>2
<1>4. ASSUME Record
      PROVE  RelayTypeOK' /\ Callback' /\ Handler' /\ Settled' /\ Losses'
  <2>0. UNCHANGED <<pending_led, notify, led, session, newest, forwarded, val,
                    busy, host, lost, owed>>
    BY <1>4 DEF Record, slot
  <2>1. RelayTypeOK'
    BY <1>4, <1>t, <2>0, RelayTypes, RelayTypesBack, Zenon
       DEF Record, RelayTypeOK
  <2>2. Callback' /\ Handler' /\ Settled' /\ Losses'
    BY <1>4, <1>t, <2>0, RelayTypes, Zenon
       DEF Record, Callback, Handler, Settled, Losses
  <2> QED
    BY <2>1, <2>2
<1>5. ASSUME LookAgain
      PROVE  RelayTypeOK' /\ Callback' /\ Handler' /\ Settled' /\ Losses'
  <2>0. UNCHANGED <<pending_led, last_led_sent, led, session, newest, forwarded,
                    val, busy, host, lost, owed>>
    BY <1>5 DEF LookAgain, slot
  <2>1. RelayTypeOK'
    BY <1>5, <1>t, <2>0, RelayTypes, RelayTypesBack, Zenon
       DEF LookAgain, RelayTypeOK
  <2>2. Callback' /\ Handler' /\ Settled' /\ Losses'
    BY <1>5, <1>t, <2>0, RelayTypes, Zenon
       DEF LookAgain, Callback, Handler, Settled, Losses
  <2> QED
    BY <2>1, <2>2
<1>6. ASSUME EnterSession \/ Announced \/ Disconnect
      PROVE  RelayTypeOK' /\ Callback' /\ Handler' /\ Settled' /\ Losses'
  <2>0. UNCHANGED <<pending_led, notify, pc, led, val, busy, host, lost, owed>>
    BY <1>6 DEF EnterSession, Announced, Disconnect, handler, slot
  <2>1. RelayTypeOK'
    <3>1. session' \in {"down", "resting", "entering", "up"}
      BY <1>6 DEF EnterSession, Announced, Disconnect
    <3>2. /\ last_led_sent' \in {last_led_sent, NoFrame}
          /\ newest' \in {newest, NoFrame}
          /\ forwarded' = forwarded \/ forwarded' = FALSE
      BY <1>6 DEF EnterSession, Announced, Disconnect
    <3>3. pc' \in {"out", "send", "record", "look"}
      BY <1>t, <2>0 DEF RelayTypeOK
    <3>4. /\ last_led_sent' \in Led \cup {NoFrame}
          /\ newest' \in Led \cup {NoFrame} /\ forwarded' \in BOOLEAN
      BY <1>t, <3>2, RelayTypes, Zenon
    <3> QED
      BY <1>t, <2>0, <3>1, <3>3, <3>4, RelayTypes, RelayTypesBack, Zenon
  <2>2. Callback' /\ Handler' /\ Settled' /\ Losses'
    BY <1>6, <1>t, <2>0, RelayTypes, Zenon
       DEF EnterSession, Announced, Disconnect, Callback, Handler, Settled,
           Losses
  <2> QED
    BY <2>1, <2>2
<1>7. ASSUME RF_LedResync
      PROVE  RelayTypeOK' /\ Callback' /\ Handler' /\ Settled' /\ Losses'
  <2>0. UNCHANGED <<pending_led, notify, pc, led, session, newest, forwarded,
                    val, busy, host>>
    BY <1>7 DEF RF_LedResync, Slot!Take, handler
  <2>1. RelayTypeOK'
    BY <1>7, <1>t, <2>0, RelayTypes, RelayTypesBack, Zenon
       DEF RF_LedResync, Slot!Take, RelayTypeOK
  <2>2. Callback' /\ Handler' /\ Settled' /\ Losses'
    BY <1>7, <1>t, <2>0, RelayTypes, Zenon
       DEF RF_LedResync, Slot!Take, Callback, Handler, Settled, Losses
  <2> QED
    BY <2>1, <2>2
<1>8. ASSUME HostWake
      PROVE  RelayTypeOK' /\ Callback' /\ Handler' /\ Settled' /\ Losses'
  <2>0. UNCHANGED <<pending_led, last_led_sent, notify, pc, led, session, newest,
                    forwarded, val, owed>>
    BY <1>8 DEF HostWake, Slot!HostGets, Slot!Finish, handler
  <2>1. RelayTypeOK'
    <3>1. /\ host' = host \/ host' \in Led
          /\ busy' = busy \/ busy' = FALSE
          /\ lost' \in BOOLEAN
      BY <1>8, <1>t, RelayTypes, Zenon DEF HostWake, Slot!HostGets, Slot!Finish
    <3>2. host' \in Led \cup {NoFrame} /\ busy' \in BOOLEAN
      BY <1>t, <3>1, RelayTypes, Zenon
    <3>3. /\ pc' \in {"out", "send", "record", "look"}
          /\ session' \in {"down", "resting", "entering", "up"}
      BY <1>t, <2>0 DEF RelayTypeOK
    <3> QED
      BY <1>t, <2>0, <3>1, <3>2, <3>3, RelayTypes, RelayTypesBack, Zenon
  <2>2. busy' \in BOOLEAN /\ lost' \in BOOLEAN
    BY <2>1, Zenon DEF RelayTypeOK
  <2>3. lost => lost'
    BY <1>8, <1>t, RelayTypes, Zenon DEF HostWake, Slot!HostGets, Slot!Finish
  <2>4. ~busy' => host' = val' \/ lost' \/ owed'
    <3>1. CASE Slot!HostGets
      <4>1. busy' = busy /\ lost' = lost /\ owed' = owed
        BY <3>1 DEF Slot!HostGets
      <4>2. busy \/ lost \/ owed
        BY <3>1, Zenon DEF Slot!HostGets
      <4> QED
        BY <4>1, <4>2, Zenon
    <3>2. CASE Slot!Finish
      <4>1. host' = host /\ val' = val
        BY <3>2 DEF Slot!Finish
      <4>2. host = val \/ lost'
        BY <3>2, Zenon DEF Slot!Finish
      <4> QED
        BY <4>1, <4>2
    <3> QED
      BY <1>8, <3>1, <3>2 DEF HostWake
  <2>5. Callback' /\ Handler' /\ Settled' /\ Losses'
    BY <1>t, <2>0, <2>2, <2>3, <2>4, Zenon
       DEF Callback, Handler, Settled, Losses
  <2> QED
    BY <2>1, <2>5
<1>9. ASSUME UNCHANGED relay_vars
      PROVE  RelayTypeOK' /\ Callback' /\ Handler' /\ Settled' /\ Losses'
  <2>0. UNCHANGED <<pending_led, last_led_sent, notify, pc, led, session, newest,
                    forwarded, val, busy, host, lost, owed>>
    BY <1>9 DEF relay_vars, handler, slot
  <2>1. RelayTypeOK'
    BY <1>t, <2>0, RelayTypes, RelayTypesBack, Zenon DEF RelayTypeOK
  <2>2. Callback' /\ Handler' /\ Settled' /\ Losses'
    BY <1>t, <2>0, Zenon DEF Callback, Handler, Settled, Losses
  <2> QED
    BY <2>1, <2>2
<1> QED
  BY <1>1, <1>2, <1>3, <1>4, <1>5, <1>6, <1>7, <1>8, <1>9
     DEF RelayNext, NotifyLed, LedInv

(* The types of the relay, for every set of LED bytes.                       *)
THEOREM LedTypes == RelaySpec => []RelayTypeOK
<1>1. LedInv => RelayTypeOK
  BY DEF LedInv
<1> QED
  BY <1>1, LedInit, LedStep, PTL DEF RelaySpec

(* With nothing under way the host shows the newest byte the dongle relayed, *)
(* or the loss is on record and the next relay is forwarded whatever it is.  *)
THEOREM LedOnHostAlways == RelaySpec => []LedOnHost
<1>1. LedInv => LedOnHost
  BY Zenon DEF LedInv, Callback, Settled, Handler, Losses, Quiet, LedOnHost
<1> QED
  BY <1>1, LedInit, LedStep, PTL DEF RelaySpec
=============================================================================
