----------------------------- MODULE HidDelivery -----------------------------
(***************************************************************************)
(* Delivery of keyboard reports over the 2.4 GHz link                       *)
(* (firmware/src/rf_task.c): the report FIFO, the control-bit ARQ that      *)
(* retires its head, and what every link transition does to them.           *)
(*                                                                         *)
(* Each main-loop handler and each radio callback is one action; the RX     *)
(* callback interleaves with all of them.  TMOS timers are abstracted: a    *)
(* timer that may be running may expire at any time.  Hopping, LEDs and     *)
(* bond storage do not touch this state and are left to other modules; a    *)
(* poll or a response missed for any reason is one that is not heard.       *)
(*                                                                         *)
(* The dongle (external) polls with a control bit that it flips when it     *)
(* accepts a response whose own bit is new; when it stops hearing answers   *)
(* it lapses and releases every key on the host.                            *)
(***************************************************************************)
EXTENDS Naturals, Sequences

CONSTANTS
  Keys,         \* reports with a key or a modifier down
  Released,     \* the all-zero report
  Slots,        \* HID_FIFO_SLOTS
  MaxReports,   \* bound: reports queued in a behaviour
  MaxUnpairs    \* bound: bond clears in a behaviour

ASSUME ReportsAssumption == Released \notin Keys
ASSUME SlotsAssumption == Slots \in Nat /\ Slots >= 2
ASSUME BoundsAssumption == MaxReports \in Nat /\ MaxUnpairs \in Nat

VARIABLES
  rf_state, rest_probe, rest_probe_wake, rest_quiet_pending, has_bond,
  discard_hid,          \* the RF_EVT_DISCARD_HID timer runs or has fired
  radio,                \* what the radio is armed for
  hid_fifo, hid_head_sent, hid_last_queued, hid_last_queued_valid,
  tx_ctrl, response_pending, response_ctrl,
  respond,              \* TMR0 is armed or has posted RF_EVT_RESPOND
  air,                  \* the response being transmitted, if radio = "tx"
  dongle,               \* the dongle's side of the session (external)
  hostKeys,             \* the report the host last got (external)
  queued, bondGen,      \* history: reports queued, bonds cleared
  sessionAcc, lastAcc,  \* history: newest report accepted, this session / ever
  discarded             \* history: a queued report was discarded since

restVars == <<rest_probe, rest_probe_wake, rest_quiet_pending>>
linkVars == <<rf_state, restVars, has_bond>>
fifoVars == <<hid_fifo, hid_head_sent, hid_last_queued, hid_last_queued_valid>>
arqVars == <<tx_ctrl, response_pending, response_ctrl, respond>>
dongleVars == <<dongle, hostKeys, sessionAcc, lastAcc>>
histVars == <<queued, bondGen, discarded>>
vars == <<linkVars, discard_hid, radio, fifoVars, arqVars, air, dongleVars,
          histVars>>

Report == Keys \cup {Released}
Bit == {0, 1}
Entry == [id : 1..MaxReports, report : Report, gen : 0..MaxUnpairs]
NoEntry == [id |-> 0, report |-> Released, gen |-> 0]
Ctrl == [ack : Bit, seq : Bit]            \* tx_ctrl bits 0 and 1
NoAir == [seq |-> 0, entry |-> NoEntry, heard |-> TRUE]

TypeOK ==
  /\ rf_state \in {"IDLE", "PAIRING", "CONNECTED", "RESTING"}
  /\ {rest_probe, rest_probe_wake, rest_quiet_pending, has_bond, discard_hid,
      hid_head_sent, hid_last_queued_valid, response_pending, respond, discarded}
       \subseteq BOOLEAN
  /\ radio \in {"off", "rx", "tx"}
  /\ hid_fifo \in Seq(Entry) /\ Len(hid_fifo) <= Slots
  /\ hid_last_queued \in Report /\ hostKeys \in Report
  /\ tx_ctrl \in Ctrl /\ response_ctrl \in Ctrl
  /\ air \in [seq : Bit, entry : Entry \cup {NoEntry}, heard : BOOLEAN]
  /\ dongle \in [up : BOOLEAN, bit : Bit, last : Bit]
  /\ queued \in 0..MaxReports /\ bondGen \in 0..MaxUnpairs
  /\ sessionAcc \in 0..MaxReports /\ lastAcc \in 0..MaxReports

\* RF_TaskInit: without a bond the link is IDLE, with one it searches at once.
Init ==
  /\ has_bond \in BOOLEAN
  /\ rf_state = IF has_bond THEN "PAIRING" ELSE "IDLE"
  /\ rest_probe = FALSE /\ rest_probe_wake = FALSE /\ rest_quiet_pending = FALSE
  /\ discard_hid = FALSE /\ radio = "off"
  /\ hid_fifo = <<>> /\ hid_head_sent = FALSE
  /\ hid_last_queued = Released /\ hid_last_queued_valid = FALSE
  /\ tx_ctrl = [ack |-> 0, seq |-> 0] /\ response_ctrl = [ack |-> 0, seq |-> 0]
  /\ response_pending = FALSE /\ respond = FALSE /\ air = NoAir
  /\ dongle = [up |-> FALSE, bit |-> 0, last |-> 0] /\ hostKeys = Released
  /\ queued = 0 /\ bondGen = 0 /\ sessionAcc = 0 /\ lastAcc = 0
  /\ discarded = FALSE

hid_key_held == hid_last_queued_valid /\ hid_last_queued # Released

\* RF_Shut: an unfinished transmission is cut short.
RF_Shut == radio' = "off" /\ air' = NoAir

rest_cancel ==
  /\ rest_probe' = FALSE /\ rest_probe_wake' = FALSE
  /\ rest_quiet_pending' = FALSE
-----------------------------------------------------------------------------
(***************************************************************************)
(* Reports from the keyboard MCU.                                          *)
(***************************************************************************)

\* A changed report is appended; onto a full FIFO it replaces the newest entry.
enqueue(r) ==
  LET entry == [id |-> queued + 1, report |-> r, gen |-> bondGen]
  IN  /\ hid_fifo' = IF Len(hid_fifo) < Slots
                       THEN Append(hid_fifo, entry)
                       ELSE [hid_fifo EXCEPT ![Len(hid_fifo)] = entry]
      /\ hid_last_queued' = r
      /\ hid_last_queued_valid' = TRUE
      /\ queued' = queued + 1
      /\ discarded' = FALSE

\* A validated report wakes a resting link and turns a probe into the session,
\* changed or not.
wake_link ==
  CASE rf_state = "RESTING" ->
         /\ rest_probe' = TRUE /\ rest_probe_wake' = TRUE
         /\ rest_quiet_pending' = FALSE
         /\ rf_state' = "PAIRING"
    [] rf_state # "RESTING" /\ rest_probe ->
         /\ IF rf_state = "CONNECTED"
              THEN rest_probe' = FALSE /\ rest_probe_wake' = FALSE
              ELSE rest_probe_wake' = TRUE /\ UNCHANGED rest_probe
         /\ rest_quiet_pending' = FALSE
         /\ UNCHANGED rf_state
    [] OTHER -> UNCHANGED <<rf_state, restVars>>

changed(r) == ~hid_last_queued_valid \/ hid_last_queued # r

RF_QueueHIDReport(r) ==
  /\ IF changed(r)
       THEN queued < MaxReports /\ enqueue(r)
       ELSE UNCHANGED <<hid_fifo, hid_last_queued, hid_last_queued_valid, queued,
                        discarded>>
  /\ wake_link
  /\ UNCHANGED <<has_bond, discard_hid, radio, hid_head_sent, arqVars, air,
                 dongleVars, bondGen>>
-----------------------------------------------------------------------------
(***************************************************************************)
(* The connected exchange: poll, response, acknowledgement.                *)
(***************************************************************************)

\* A connected poll: a flipped control bit acknowledges the response in flight
\* and retires the head if `ack' holds.
PollRetiring(ack) ==
  LET advanced == dongle.bit # tx_ctrl.ack
  IN  /\ rf_state = "CONNECTED" /\ radio = "rx" /\ dongle.up
      /\ tx_ctrl' = IF advanced
                      THEN [ack |-> dongle.bit, seq |-> 1 - tx_ctrl.seq]
                      ELSE tx_ctrl
      /\ hid_head_sent' = (hid_head_sent /\ ~advanced)
      /\ hid_fifo' = IF ack /\ advanced /\ hid_fifo # <<>>
                       THEN Tail(hid_fifo) ELSE hid_fifo
      /\ response_ctrl' = tx_ctrl'
      /\ response_pending' = TRUE
      /\ respond' = TRUE
      /\ radio' = "off"
      /\ UNCHANGED <<linkVars, discard_hid, hid_last_queued,
                     hid_last_queued_valid, air, dongleVars, histVars>>

\* Mutants: any control-bit flip retires; none does.
PollIgnoresHeadSent == PollRetiring(TRUE)
PollNeverRetires == PollRetiring(FALSE)

\* RF_2G4StatusCallBack: only a head that was sent is retired.
Poll == PollRetiring(hid_head_sent)

\* RF_EVT_RESPOND: the head if there is one, else a keepalive.  A head becomes
\* eligible for retirement only once its transmission has started (RF_Tx = 0).
rf_do_response_tx(started) ==
  /\ rf_state = "CONNECTED" /\ respond
  /\ respond' = FALSE
  /\ \/ /\ response_pending /\ started
        /\ radio' = "tx"
        /\ air' = [seq |-> response_ctrl.seq, heard |-> FALSE,
                   entry |-> IF hid_fifo = <<>> THEN NoEntry ELSE Head(hid_fifo)]
        /\ hid_head_sent' = (hid_head_sent \/ hid_fifo # <<>>)
        /\ UNCHANGED response_pending
     \/ /\ response_pending /\ ~started
        /\ RF_Shut
        /\ response_pending' = FALSE
        /\ UNCHANGED hid_head_sent
     \/ /\ ~response_pending /\ ~started
        /\ UNCHANGED <<response_pending, radio, air, hid_head_sent>>
  /\ UNCHANGED <<linkVars, discard_hid, hid_fifo, hid_last_queued,
                 hid_last_queued_valid, tx_ctrl, response_ctrl, dongleVars,
                 histVars>>

\* TX_MODE_TX_FINISH.  The answer that completes a silent probe asks for quiet.
TxFinish ==
  /\ radio = "tx"
  /\ \/ UNCHANGED rest_quiet_pending
     \/ /\ response_pending /\ rest_probe /\ ~rest_probe_wake
        /\ rest_quiet_pending' = TRUE
  /\ response_pending' = FALSE
  /\ RF_Shut
  /\ UNCHANGED <<rf_state, rest_probe, rest_probe_wake, has_bond, discard_hid,
                 fifoVars, tx_ctrl, response_ctrl, respond, dongleVars, histVars>>

TxFail ==
  /\ radio = "tx"
  /\ response_pending' = FALSE
  /\ RF_Shut
  /\ UNCHANGED <<linkVars, discard_hid, fifoVars, tx_ctrl, response_ctrl, respond,
                 dongleVars, histVars>>

\* RF_EVT_RX_RESTART or a hop: the receiver is armed again.  Only the hop may
\* cut a transmission short, and only once response_pending was released.
StartRx ==
  /\ rf_state = "CONNECTED"
  /\ radio = "off" \/ (radio = "tx" /\ ~response_pending)
  /\ radio' = "rx"
  /\ air' = NoAir
  /\ UNCHANGED <<linkVars, discard_hid, fifoVars, arqVars, dongleVars, histVars>>

\* Mutant: a response without a completion callback is waited for.
ReleaseNever == FALSE /\ UNCHANGED vars

\* RF_ConnectedTick gives up on a response two intervals old.
ReleaseResponse ==
  /\ rf_state = "CONNECTED" /\ response_pending
  /\ response_pending' = FALSE
  /\ UNCHANGED <<linkVars, discard_hid, radio, fifoVars, tx_ctrl, response_ctrl,
                 respond, air, dongleVars, histVars>>
-----------------------------------------------------------------------------
(***************************************************************************)
(* Link transitions.                                                       *)
(***************************************************************************)

\* RF_2G4StatusCallBack, the first handshake frame of a fresh pairing: the bond
\* exists in RAM from here on.
FirstHandshake ==
  /\ rf_state = "PAIRING" /\ ~has_bond
  /\ has_bond' = TRUE
  /\ UNCHANGED <<rf_state, restVars, discard_hid, radio, fifoVars, arqVars, air,
                 dongleVars, histVars>>

\* rf_enter_connected: the control phase restarts on both sides.  The dongle
\* answers a beacon only once it has lapsed from any earlier session.
rf_enter_connected ==
  /\ rf_state = "PAIRING" /\ has_bond
  /\ rf_state' = "CONNECTED"
  /\ tx_ctrl' = [ack |-> 0, seq |-> 1]
  /\ hid_head_sent' = FALSE
  /\ response_pending' = FALSE /\ respond' = FALSE
  /\ IF rest_probe /\ rest_probe_wake THEN rest_cancel ELSE UNCHANGED restVars
  /\ radio' = "rx" /\ air' = NoAir
  /\ \E b \in Bit : dongle' = [up |-> TRUE, bit |-> b, last |-> b]
  /\ hostKeys' = Released
  /\ sessionAcc' = 0
  /\ UNCHANGED <<has_bond, discard_hid, hid_fifo, hid_last_queued,
                 hid_last_queued_valid, response_ctrl, lastAcc, histVars>>

\* rest_go_quiet leaves the FIFO and the dedup state alone.
rest_go_quiet ==
  /\ rest_cancel
  /\ response_pending' = FALSE /\ respond' = FALSE
  /\ rf_state' = "RESTING"
  /\ RF_Shut
  /\ UNCHANGED <<has_bond, discard_hid, fifoVars, tx_ctrl, response_ctrl,
                 dongleVars, histVars>>

\* Mutant: the idle timer rests whatever is queued.
RestIdleUnguarded ==
  /\ rf_state = "CONNECTED" /\ ~rest_probe
  /\ ~response_pending /\ ~hid_key_held
  /\ rest_go_quiet

\* RF_EVT_REST_IDLE: rest only with nothing queued, in flight or held.
RestIdle ==
  /\ rf_state = "CONNECTED" /\ ~rest_probe
  /\ hid_fifo = <<>> /\ ~response_pending /\ ~hid_key_held
  /\ rest_go_quiet

\* RF_EVT_REST_PROBE
RestProbe ==
  /\ rf_state = "RESTING"
  /\ rf_state' = "PAIRING"
  /\ rest_probe' = TRUE /\ rest_quiet_pending' = FALSE
  /\ RF_Shut /\ respond' = FALSE
  /\ UNCHANGED <<rest_probe_wake, has_bond, discard_hid, fifoVars, tx_ctrl,
                 response_pending, response_ctrl, dongleVars, histVars>>

\* RF_EVT_REST_PROBE_TIMEOUT: a probe that a report woke keeps searching.
RestProbeTimeout ==
  /\ rest_probe /\ ~rest_probe_wake
  /\ rest_go_quiet

\* RF_ConnectedTick ends an answered probe.
RestProbeDone ==
  /\ rf_state = "CONNECTED"
  /\ rest_quiet_pending /\ ~response_pending
  /\ rest_go_quiet

\* Mutant: the dedup state survives the teardown.
SupervisionKeepsDedup ==
  /\ rf_state = "CONNECTED"
  /\ rest_cancel
  /\ response_pending' = FALSE /\ respond' = FALSE
  /\ hid_head_sent' = FALSE
  /\ rf_state' = "IDLE"
  /\ RF_Shut
  /\ UNCHANGED <<has_bond, discard_hid, hid_fifo, hid_last_queued,
                 hid_last_queued_valid, tx_ctrl, response_ctrl, dongleVars,
                 histVars>>

\* RF_EVT_DISCONNECT: the supervision timeout.
Supervision ==
  /\ rf_state = "CONNECTED"
  /\ rest_cancel
  /\ response_pending' = FALSE /\ respond' = FALSE
  /\ hid_head_sent' = FALSE
  /\ hid_last_queued_valid' = FALSE
  /\ rf_state' = "IDLE"
  /\ RF_Shut
  /\ UNCHANGED <<has_bond, discard_hid, hid_fifo, hid_last_queued, tx_ctrl,
                 response_ctrl, dongleVars, histVars>>

\* RF_EVT_PAIR_TIMEOUT: the fresh pairing window closes.
PairTimeout ==
  /\ rf_state = "PAIRING" /\ ~rest_probe
  /\ rf_state' = "IDLE"
  /\ RF_Shut
  /\ UNCHANGED <<restVars, has_bond, discard_hid, fifoVars, arqVars, dongleVars,
                 histVars>>

RF_Disconnect ==
  /\ rest_cancel
  /\ hid_last_queued_valid' = FALSE
  /\ RF_Shut /\ respond' = FALSE
  /\ UNCHANGED <<hid_last_queued, tx_ctrl, response_pending, response_ctrl,
                 dongleVars, queued>>

\* A6 11, 31-33: RF_Disconnect, then RF_DropQueueUnlessReselected.
SelectOther ==
  /\ RF_Disconnect
  /\ rf_state' = "IDLE"
  /\ discard_hid' = TRUE
  /\ UNCHANGED <<has_bond, hid_fifo, hid_head_sent, bondGen, discarded>>

\* Explicit sleep and the update path: RF_Disconnect alone.
Disconnect ==
  /\ RF_Disconnect
  /\ rf_state' = "IDLE"
  /\ UNCHANGED <<has_bond, discard_hid, hid_fifo, hid_head_sent, bondGen,
                 discarded>>

\* RF_EVT_DISCARD_HID
DiscardHid ==
  /\ discard_hid
  /\ discard_hid' = FALSE
  /\ IF rf_state = "IDLE"
       THEN /\ hid_fifo' = <<>> /\ hid_head_sent' = FALSE
            /\ discarded' = (discarded \/ hid_fifo # <<>>)
       ELSE UNCHANGED <<hid_fifo, hid_head_sent, discarded>>
  /\ UNCHANGED <<linkVars, radio, hid_last_queued, hid_last_queued_valid, arqVars,
                 air, dongleVars, queued, bondGen>>

\* Mutant: the queue outlives the bond.
ClearBondKeepsQueue ==
  /\ has_bond' = FALSE
  /\ discard_hid' = FALSE
  /\ bondGen' = bondGen + 1
  /\ UNCHANGED <<hid_fifo, hid_head_sent, discarded>>

\* RF_ClearBond, in the IDLE state that RF_Disconnect leaves to both its callers.
RF_ClearBond ==
  /\ has_bond' = FALSE
  /\ discard_hid' = FALSE
  /\ hid_fifo' = <<>> /\ hid_head_sent' = FALSE
  /\ bondGen' = bondGen + 1
  /\ UNCHANGED discarded

\* A6 52
Unpair ==
  /\ bondGen < MaxUnpairs
  /\ RF_Disconnect
  /\ RF_ClearBond
  /\ rf_state' = "IDLE"

\* A6 63: RF_Disconnect, RF_ClearBond, RF_EnterPairing.
FactoryPair ==
  /\ bondGen < MaxUnpairs
  /\ RF_Disconnect
  /\ RF_ClearBond
  /\ rf_state' = "PAIRING"

\* RF_Select2G4 (A6 30)
RF_Select2G4 ==
  /\ discard_hid' = FALSE
  /\ CASE rf_state = "CONNECTED" ->
            /\ IF rest_probe THEN rest_cancel ELSE UNCHANGED restVars
            /\ UNCHANGED <<rf_state, radio, air, respond>>
       [] rf_state # "CONNECTED" /\ has_bond ->
            /\ rest_cancel /\ rf_state' = "PAIRING" /\ RF_Shut
            /\ respond' = FALSE
       [] OTHER -> rest_cancel /\ UNCHANGED <<rf_state, radio, air, respond>>
  /\ UNCHANGED <<has_bond, fifoVars, tx_ctrl, response_pending, response_ctrl,
                 dongleVars, histVars>>

\* RF_EnterPairing (A6 51)
RF_EnterPairing ==
  /\ rf_state # "CONNECTED"
  /\ rest_cancel
  /\ rf_state' = "PAIRING"
  /\ RF_Shut /\ respond' = FALSE
  /\ UNCHANGED <<has_bond, discard_hid, fifoVars, tx_ctrl, response_pending,
                 response_ctrl, dongleVars, histVars>>
-----------------------------------------------------------------------------
(***************************************************************************)
(* The dongle (external).                                                  *)
(***************************************************************************)

\* It accepts a response whose sequence bit is new, once; a repeat is dropped.
DongleHear ==
  LET new == air.seq # dongle.last
      report == air.entry.id # 0
  IN  /\ radio = "tx" /\ ~air.heard /\ dongle.up
      /\ air' = [air EXCEPT !.heard = TRUE]
      /\ dongle' = IF new THEN [dongle EXCEPT !.bit = 1 - @, !.last = air.seq]
                          ELSE dongle
      /\ hostKeys' = IF new /\ report THEN air.entry.report ELSE hostKeys
      /\ sessionAcc' = IF new /\ report THEN air.entry.id ELSE sessionAcc
      /\ lastAcc' = IF new /\ report THEN air.entry.id ELSE lastAcc
      /\ UNCHANGED <<linkVars, discard_hid, radio, fifoVars, arqVars, histVars>>

\* It heard nothing for a while: keys up at the host, back to its bonded camp.
DongleLapse ==
  /\ dongle.up
  /\ dongle' = [dongle EXCEPT !.up = FALSE]
  /\ hostKeys' = Released
  /\ UNCHANGED <<linkVars, discard_hid, radio, fifoVars, arqVars, air, sessionAcc,
                 lastAcc, histVars>>

Command ==
  \/ \E r \in Report : RF_QueueHIDReport(r)
  \/ SelectOther \/ Disconnect \/ Unpair \/ FactoryPair \/ RF_Select2G4
  \/ RF_EnterPairing

Exchange ==
  \/ Poll \/ (\E started \in BOOLEAN : rf_do_response_tx(started))
  \/ TxFinish \/ TxFail \/ StartRx \/ ReleaseResponse

Timer ==
  \/ RestIdle \/ RestProbe \/ RestProbeTimeout \/ RestProbeDone \/ Supervision
  \/ PairTimeout \/ DiscardHid

Next ==
  \/ Command \/ Exchange \/ Timer \/ FirstHandshake \/ rf_enter_connected
  \/ DongleHear \/ DongleLapse

Spec == Init /\ [][Next]_vars

\* On a link that is up the main loop re-arms the receiver and gives up on stale
\* responses, and of infinitely many polls, responses started and responses sent
\* some get through.  A completion callback may be lost: none is assumed.
Fairness ==
  /\ WF_vars(StartRx) /\ WF_vars(ReleaseResponse)
  /\ SF_vars(Poll) /\ SF_vars(rf_do_response_tx(TRUE)) /\ SF_vars(DongleHear)

FairSpec == Spec /\ Fairness
-----------------------------------------------------------------------------
(***************************************************************************)
(* Within a session no report reaches the host twice and none overtakes an  *)
(* earlier one; across sessions none older than the last accepted one is    *)
(* ever sent again (rf_task.c, FIFO head selection and tx_ctrl).            *)
(***************************************************************************)
AcceptedInOrder ==
  [][DongleHear /\ dongle' # dongle /\ air.entry.id # 0
       => air.entry.id > sessionAcc /\ air.entry.id >= lastAcc]_vars

(***************************************************************************)
(* A report queued under one bond is never typed out under another          *)
(* (rf_task.c, RF_ClearBond's discard and the order of its callers).        *)
(***************************************************************************)
NoCrossDelivery ==
  [][DongleHear /\ dongle' # dongle /\ air.entry.id # 0
       => air.entry.gen = bondGen]_vars

(***************************************************************************)
(* The link never rests on a report the host has not got or on a held key,  *)
(* and a quiet request never outlives the report that cancels it            *)
(* (rf_task.c, RF_EVT_REST_IDLE, RF_QueueHIDReport, rest_probe_wake).       *)
(***************************************************************************)
RestStrandsNothing ==
  /\ rf_state = "RESTING" => hid_fifo = <<>> /\ ~hid_key_held
  /\ rest_quiet_pending => hid_fifo = <<>>

(***************************************************************************)
(* When the dongle's session is up and the FIFO is drained, the host has    *)
(* the newest report: an unchanged repeat adds nothing.  Excepted is a      *)
(* newest report that was discarded unsent (rf_task.c, the dedup of         *)
(* RF_QueueHIDReport and every place that resets hid_last_queued_valid).    *)
(***************************************************************************)
Drained == dongle.up /\ rf_state = "CONNECTED" /\ hid_fifo = <<>>

HostHasNewest ==
  Drained /\ hid_last_queued_valid /\ ~discarded => hostKeys = hid_last_queued

(***************************************************************************)
(* The FIFO, the control bits and every link transition together implement  *)
(* the abstract report channel: whatever is lost, repeated, rested, probed   *)
(* or torn down, the host is only ever given the head of the queue, under    *)
(* the bond it was queued for, and the head leaves the queue only by a       *)
(* discard of all of it or when the host has it (rf_task.c,                  *)
(* RF_QueueHIDReport, the poll branch of RF_2G4StatusCallBack,               *)
(* rf_do_response_tx and RF_ClearBond).                                      *)
(***************************************************************************)
Channel == INSTANCE ReportChannel WITH
  queue <- hid_fifo, count <- queued, bond <- bondGen, given <- lastAcc
ImplementsReportChannel == Channel!Spec

(***************************************************************************)
(* On a link that stays up every queued report is delivered, although polls, *)
(* responses and completion callbacks are lost (rf_task.c, the head is       *)
(* re-sent on every poll; RF_ConnectedTick's forced release).               *)
(***************************************************************************)
DeliveryProgress ==
  <>[](rf_state = "CONNECTED" /\ dongle.up) => <>[](hid_fifo = <<>>)

(***************************************************************************)
(* The comment at the dedup says that "an unchanged repeat adds nothing the *)
(* host does not already have" (rf_task.c, RF_QueueHIDReport): whenever a    *)
(* repeat would be dropped on a drained session, the host has that report.  *)
(* It does not hold: a report discarded while the link was idle still counts *)
(* as the newest.                                                            *)
(***************************************************************************)
RepeatAddsNothing ==
  Drained /\ hid_last_queued_valid => hostKeys = hid_last_queued
==============================================================================
