------------------------------ MODULE LedRelay ------------------------------
(***************************************************************************)
(* The LED relay of firmware/src/rf_task.c: the RX callback keeps the newest *)
(* LED byte of the dongle and posts RF_EVT_NOTIFY_LED, whose handler hands   *)
(* the byte to host wake (module LatestSlot, which HostWake implements).     *)
(*                                                                         *)
(* The callback is an interrupt: it may come between any two steps of the    *)
(* handler and of rf_enter_connected, which run in the main loop.            *)
(***************************************************************************)
CONSTANTS Led,     \* LED bytes
          NoFrame  \* 0xFF in last_led_sent: not an LED byte

ASSUME LedRelayAssumption == NoFrame \notin Led

VARIABLES
  pending_led, last_led_sent,
  notify,      \* RF_EVT_NOTIFY_LED
  pc, led,     \* the handler's next step and its local variable
  session,     \* "down", "resting", "entering" (the receiver is on,
               \* rf_enter_connected has not returned) or "up"
  newest,        \* the newest byte received this session, or NoFrame (history)
  forwarded,   \* the handler handed one over since then (history)
  val, busy, host, lost, owed   \* host wake's slot

slot == <<val, busy, host, lost, owed>>
handler == <<pc, led>>
relay_vars == <<pending_led, last_led_sent, notify, handler, session, newest,
          forwarded, slot>>

Slot == INSTANCE LatestSlot WITH val <- val, busy <- busy, host <- host,
                                 lost <- lost, owed <- owed

\* RF_TaskInit; pending_led is 0, one of the LED bytes.
RelayInit ==
  /\ pending_led \in Led /\ last_led_sent = NoFrame
  /\ notify = FALSE /\ pc = "out" /\ led = pending_led
  /\ session = "down" /\ newest = NoFrame /\ forwarded = FALSE
  /\ Slot!Init
-----------------------------------------------------------------------------
(* A LEN-3 relay in RF_2G4StatusCallBack.                                    *)

\* Mutant: a byte the host already has is not kept.
RelayOfNews(v) ==
  /\ session \in {"entering", "up"}
  /\ IF v # last_led_sent THEN pending_led' = v /\ notify' = TRUE
                          ELSE UNCHANGED <<pending_led, notify>>
  /\ newest' = v
  /\ UNCHANGED <<last_led_sent, handler, session, forwarded, slot>>

Relay(v) ==
  /\ session \in {"entering", "up"}
  /\ pending_led' = v
  /\ notify' = (notify \/ v # last_led_sent)
  /\ newest' = v
  /\ UNCHANGED <<last_led_sent, handler, session, forwarded, slot>>
-----------------------------------------------------------------------------
(* The handler of RF_EVT_NOTIFY_LED; TMOS has cleared the event.             *)
ReadPending ==
  /\ pc = "out" /\ notify /\ session # "entering"
  /\ notify' = FALSE
  /\ led' = pending_led
  /\ pc' = IF led' = last_led_sent THEN "out" ELSE "send"
  /\ UNCHANGED <<pending_led, last_led_sent, session, newest, forwarded, slot>>

SendLed ==
  /\ pc = "send"
  /\ Slot!Set(led)
  /\ forwarded' = TRUE /\ pc' = "record"
  /\ UNCHANGED <<pending_led, last_led_sent, notify, led, session, newest>>

Record ==
  /\ pc = "record"
  /\ last_led_sent' = led /\ pc' = "look"
  /\ UNCHANGED <<pending_led, notify, led, session, newest, forwarded, slot>>

LookAgain ==
  /\ pc = "look"
  /\ notify' = (notify \/ pending_led # led)
  /\ pc' = "out"
  /\ UNCHANGED <<pending_led, last_led_sent, led, session, newest, forwarded,
                 slot>>
-----------------------------------------------------------------------------
(* rf_enter_connected from rf_start_rx on: a probe out of a rest keeps       *)
(* last_led_sent, a session forgets it once it has been announced.           *)
EnterSession ==
  /\ session \in {"down", "resting"} /\ pc = "out" /\ ~notify
  /\ session' \in IF session = "resting" THEN {"entering", "up"} ELSE {"entering"}
  /\ newest' = NoFrame /\ forwarded' = FALSE
  /\ UNCHANGED <<pending_led, last_led_sent, notify, handler, slot>>

Announced ==
  /\ session = "entering"
  /\ session' = "up"
  /\ last_led_sent' = NoFrame
  /\ UNCHANGED <<pending_led, notify, handler, newest, forwarded, slot>>

(* A teardown, or a rest.                                                    *)
Disconnect ==
  /\ session = "up" /\ pc = "out"
  /\ session' \in {"down", "resting"}
  /\ UNCHANGED <<pending_led, last_led_sent, notify, handler, newest, forwarded,
                 slot>>

(* The main loop takes latest_lost and calls RF_LedResync.                   *)
RF_LedResync ==
  /\ pc = "out" /\ session # "entering"
  /\ Slot!Take
  /\ last_led_sent' = NoFrame
  /\ UNCHANGED <<pending_led, notify, handler, session, newest, forwarded>>

(* Host wake sends, the host receives, and the slot is done with.            *)
HostWake ==
  /\ \/ Slot!HostGets
     \/ pc = "out" /\ Slot!Finish
  /\ UNCHANGED <<pending_led, last_led_sent, notify, handler, session, newest,
                 forwarded>>
-----------------------------------------------------------------------------
NotifyLed == ReadPending \/ SendLed \/ Record \/ LookAgain

RelayNext ==
  \/ \E v \in Led : Relay(v)
  \/ NotifyLed
  \/ EnterSession \/ Announced \/ Disconnect
  \/ RF_LedResync
  \/ HostWake

RelaySpec == RelayInit /\ [][RelayNext]_relay_vars
-----------------------------------------------------------------------------
RelayTypeOK ==
  /\ pending_led \in Led /\ led \in Led
  /\ {last_led_sent, newest, val, host} \subseteq Led \cup {NoFrame}
  /\ {notify, forwarded, busy, lost, owed} \subseteq BOOLEAN
  /\ pc \in {"out", "send", "record", "look"}
  /\ session \in {"down", "resting", "entering", "up"}

Quiet == pc = "out" /\ ~notify /\ session = "up" /\ newest # NoFrame

(* With nothing under way the host shows the newest byte the dongle relayed, *)
(* however changes, changes back, sessions and probes interleave with the    *)
(* handler, unless host wake gave a byte up and has had none since: then     *)
(* the loss waits for the main loop, or last_led_sent has been forgotten so  *)
(* that the next relay is forwarded whatever its value.  Even while the slot  *)
(* is busy, a byte handed over is the newest relayed, or the handler is told  *)
(* to look again.                                                             *)
LedOnHost ==
  Quiet =>
    /\ last_led_sent # NoFrame => last_led_sent = newest /\ val = newest
    /\ ~busy /\ host # newest => lost \/ (owed /\ last_led_sent = NoFrame)

(* The comment in rf_enter_connected: the relay of a new session is          *)
(* forwarded whatever its value.                                             *)
RelayForwarded ==
  Quiet /\ last_led_sent = NoFrame => forwarded \/ owed
=============================================================================
