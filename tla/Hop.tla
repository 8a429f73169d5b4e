-------------------------------- MODULE Hop ---------------------------------
(***************************************************************************)
(* Connected-mode hopping of firmware/src/rf_task.c.  The dongle polls once *)
(* per slot and changes channel from slot to slot; the keyboard follows by  *)
(* elapsed RTC32K time (RF_ConnectedTick) and every caught poll nudges its  *)
(* anchor by at most one tick (hop_servo).                                  *)
(*                                                                         *)
(* Counters are modulo Wrap.  Channels are their indices in data_channels.  *)
(* A slot begins with its reference instant, the one a caught poll is       *)
(* backdated to; the poll is on the air Lead ticks later, and its callback  *)
(* runs Backdate ticks after the reference.  The dongle drops the link      *)
(* after Patience unanswered polls.                                         *)
(***************************************************************************)
EXTENDS Integers

CONSTANTS
  Wrap,       \* RTC32K_WRAP
  Tolerance,  \* RTC32K_BACKSTEP_TOLERANCE
  Lag,        \* the largest lag of a read of the counter
  WrapLag,    \* whether a lagging read may fall on the other side of the wrap
  Interval,   \* rf_conn_interval
  Channels,   \* NUM_DATA_CHANNELS, and RF_HOP_MAX_STEP
  Desync,     \* RF_HOP_DESYNC_INTERVALS
  Backdate,   \* RF_POLL_BACKDATE_BASE
  Lead,       \* from a slot's reference to its poll on the air
  SeedError,  \* the largest phase error of the anchor a session starts with
  DriftGap,   \* answered polls in a row before each disturbance
  Patience,   \* unanswered polls after which the dongle drops the link
  MaxEarly, MaxLate  \* the phase errors the hop tolerates

ASSUME HopAssumption ==
  /\ \A c \in {Wrap, Tolerance, Lag, Interval, Channels, Desync, Backdate,
               Lead, SeedError, DriftGap, Patience, MaxEarly, MaxLate} : c \in Nat
  /\ WrapLag \in BOOLEAN
  /\ 0 < Lead /\ Lead < Backdate /\ Backdate < Interval - 1
  /\ 1 < Channels
  /\ Desync * Interval + Tolerance + 2 < Wrap
  /\ Patience + 4 < Desync

VARIABLES
  now,              \* the counter
  hop_anchor, prev_data_idx, since_rx, provisional,
  response_pending,
  response_armed_rtc,  \* kept 0 while no response is pending: not read then
  rf_channel,       \* the channel the receiver is armed on
  retune,           \* `advanced', between the critical section and rf_start_rx
  sent,             \* the pending response is on the air; its completion is due
  age,              \* ticks since the slot's reference (dongle)
  dongle_idx,       \* the slot's channel (dongle)
  poll,             \* what became of the slot's poll (dongle)
  unanswered,       \* polls since the last answer (dongle)
  steady,           \* answered polls in a row since a disturbance (dongle)
  swept,            \* polls since the session began, or -1: the air or an
                    \* overdue pass has lost one on our channel (history)
  loop,             \* in this slot RF_ConnectedTick has found nothing to do
                    \* ("run"), has not ("due"), nor in the last ("stalled"),
                    \* or has just moved the anchor and runs again ("again")
  aligned           \* the first poll met an anchor of its own slot (history)

keyboard == <<hop_anchor, prev_data_idx, since_rx, provisional,
              response_pending, response_armed_rtc, rf_channel, retune, sent>>
dongle == <<age, dongle_idx, poll, unanswered, steady, swept>>
vars == <<now, keyboard, dongle, loop, aligned>>

Ticks == 0..(Wrap - 1)
Indices == 0..(Channels - 1)
Polls == {"due", "heard", "missed", "caught", "answered", "none"}
gone == poll = "none"

\* rtc_read_32k: the counter, or one of its last Lag values.
Reads == {(now - l) % Wrap : l \in {l \in 0..Lag : WrapLag \/ l <= now}}
-----------------------------------------------------------------------------
(* The arithmetic of rf_task.c on the counter.                              *)
\* Mutant: an unsigned subtraction, which wraps at the word and not at Wrap.
DeltaOfWord(n, then) ==
  IF n >= then THEN n - then
  ELSE IF then - n <= Tolerance THEN 0
  ELSE 4 * Wrap - then + n

rtc_delta_32k(n, then) ==
  IF n >= then THEN n - then
  ELSE IF then - n <= Tolerance THEN 0
  ELSE Wrap - then + n

rtc_backdate_32k(t, ticks) == IF t >= ticks THEN t - ticks ELSE Wrap - (ticks - t)

rtc_add_32k(t, ticks) == (t + ticks) % Wrap

rtc_signed_delta_32k(ref, a) ==
  LET fwd == IF ref >= a THEN ref - a ELSE Wrap - a + ref
  IN IF fwd <= Wrap \div 2 THEN fwd ELSE -(Wrap - fwd)

SERVO_DEADBAND == 1

\* Mutant: the servo of LINK_LOCK_SERVO_FIX=0, which takes a small negative
\* error for zero.
OneSidedServo(ref) ==
  LET fwd == rtc_delta_32k(ref, hop_anchor)
  IN IF fwd = 0 THEN hop_anchor
     ELSE IF fwd <= Wrap - fwd THEN rtc_add_32k(hop_anchor, 1)
     ELSE rtc_backdate_32k(hop_anchor, 1)

(* The anchor after the servo has seen a poll that started at `ref'.        *)
hop_servo(ref) ==
  LET err == rtc_signed_delta_32k(ref, hop_anchor)
  IN IF err > SERVO_DEADBAND THEN rtc_add_32k(hop_anchor, 1)
     ELSE IF err < -SERVO_DEADBAND THEN rtc_backdate_32k(hop_anchor, 1)
     ELSE hop_anchor
-----------------------------------------------------------------------------
(* A session starts parked, Backdate ticks into the slot of the dongle's    *)
(* record: rf_enter_connected takes the anchor latched from the record, on  *)
(* the dongle's grid but for SeedError, and an index that need not be the   *)
(* dongle's.                                                                *)
Seeds == {(now - Backdate + e) % Wrap : e \in (-SeedError)..SeedError}

Init ==
  /\ now \in Ticks
  /\ hop_anchor \in Seeds
  /\ prev_data_idx \in Indices /\ rf_channel = prev_data_idx
  /\ since_rx = 0 /\ provisional = TRUE
  /\ response_pending = FALSE /\ response_armed_rtc = 0
  /\ retune = FALSE /\ sent = FALSE
  /\ age = Backdate /\ dongle_idx = 0 /\ poll = "answered"
  /\ unanswered = 0 /\ steady = 0 /\ swept = 0
  /\ loop = "due" /\ aligned = TRUE

(* The keyboard gave the link up and has found the dongle again.            *)
rf_enter_connected ==
  /\ gone /\ ~retune
  /\ hop_anchor' \in Seeds
  /\ prev_data_idx' \in Indices /\ rf_channel' = prev_data_idx'
  /\ since_rx' = 0 /\ provisional' = TRUE
  /\ response_pending' = FALSE /\ response_armed_rtc' = 0
  /\ sent' = FALSE
  /\ age' = Backdate /\ dongle_idx' = 0 /\ poll' = "answered"
  /\ unanswered' = 0 /\ steady' = 0 /\ swept' = 0
  /\ loop' = "run" /\ aligned' = TRUE
  /\ UNCHANGED <<now, retune>>
-----------------------------------------------------------------------------
(* RF_ConnectedTick up to the end of its critical section.  A response owns *)
(* the radio until it completes, or for two intervals; then it is given up. *)
Released(r) ==
  /\ ~retune
  /\ response_pending =>
       rtc_delta_32k(r, response_armed_rtc) > 2 * Interval
  /\ response_pending' = FALSE /\ response_armed_rtc' = 0 /\ sent' = FALSE
  /\ UNCHANGED <<rf_channel, provisional>>

(* Desync safety net: the phase is re-seeded, the index is not.             *)
Reseed(elapsed, r) ==
  /\ ~provisional /\ elapsed > Interval * Desync
  /\ hop_anchor' = rtc_backdate_32k(r, Backdate + 1)
  /\ retune' = TRUE
  /\ UNCHANGED <<prev_data_idx, since_rx>>

(* The hop proper; one tick is rolled back on a single step when exactly    *)
(* one hop has passed since the last poll.  since_rx saturates at 2.        *)
StepBy(elapsed) ==
  LET full == elapsed \div Interval
      step == IF full > Channels THEN Channels ELSE full
      anchor == rtc_add_32k(hop_anchor, Interval * step)
  IN /\ hop_anchor' = IF step = 1 /\ since_rx = 1
                      THEN rtc_backdate_32k(anchor, 1) ELSE anchor
     /\ prev_data_idx' = (prev_data_idx + step) % Channels
     /\ since_rx' = IF since_rx < 2 THEN since_rx + 1 ELSE 2

\* Mutant: a parked keyboard sweeps on.
AdvanceParked(elapsed) ==
  /\ elapsed > Interval
  /\ StepBy(elapsed)
  /\ retune' = TRUE

(* Provisional: keep the channel, move the anchor on, re-arm the receiver.  *)
Park(elapsed) ==
  /\ provisional /\ elapsed > Interval
  /\ hop_anchor' = rtc_add_32k(hop_anchor, Interval)
  /\ retune' = TRUE
  /\ UNCHANGED <<prev_data_idx, since_rx>>

Advance(elapsed) ==
  /\ ~provisional /\ elapsed > Interval /\ elapsed <= Interval * Desync
  /\ StepBy(elapsed)
  /\ retune' = TRUE

(* The response is left to complete.                                        *)
Blocked ==
  /\ ~retune /\ response_pending
  /\ \E r \in Reads : rtc_delta_32k(r, response_armed_rtc) <= 2 * Interval
  /\ UNCHANGED keyboard

(* No hop is due.                                                           *)
CaughtUp(elapsed) ==
  /\ elapsed <= Interval
  /\ UNCHANGED <<hop_anchor, prev_data_idx, since_rx, retune>>

RF_ConnectedTick ==
  /\ \/ Blocked
     \/ \E r \in Reads :
          LET elapsed == rtc_delta_32k(r, hop_anchor)
          IN /\ Released(r)
             /\ \/ Park(elapsed)
                \/ Reseed(elapsed, r)
                \/ Advance(elapsed)
                \/ CaughtUp(elapsed)
  /\ loop' = IF retune' THEN "again" ELSE "run"
  /\ UNCHANGED <<now, dongle, aligned>>

\* The pass has moved the anchor to an instant so long past that the poll of
\* that slot may be on the air.
Overdue == (now - hop_anchor) % Wrap >= Lead - SeedError

(* Its tail: rf_start_rx on the new channel, which cuts off a poll being    *)
(* received, unless a poll's callback came first and claimed the radio.     *)
rf_start_rx ==
  /\ retune
  /\ retune' = FALSE
  /\ rf_channel' = IF response_pending THEN rf_channel ELSE prev_data_idx
  /\ LET cut == ~response_pending /\ poll = "heard"
     IN /\ poll' = IF cut THEN "missed" ELSE poll
        /\ swept' = IF ~cut \/ ~provisional \/ swept = -1 THEN swept
                    ELSE IF Overdue THEN -1 ELSE swept + 1
  /\ UNCHANGED <<now, hop_anchor, prev_data_idx, since_rx, provisional,
                 response_pending, response_armed_rtc, sent, age,
                 dongle_idx, unanswered, steady, loop, aligned>>
-----------------------------------------------------------------------------
(* The slot's poll is on the air: received on its channel, or not.          *)
OnAir ==
  /\ poll = "due" /\ age = Lead
  /\ \/ /\ rf_channel = dongle_idx /\ ~response_pending
        /\ poll' = "heard" /\ UNCHANGED swept
     \/ /\ poll' = "missed"
        /\ swept' = IF ~provisional THEN 0
                    ELSE IF rf_channel = dongle_idx \/ swept = -1 THEN -1
                    ELSE swept + 1
  /\ UNCHANGED <<now, keyboard, age, dongle_idx, unanswered, steady,
                 loop, aligned>>

(* RF_2G4StatusCallBack for a connected poll: the servo, the lock, and the  *)
(* response that is now pending.                                            *)
PollCallBack ==
  /\ poll = "heard" /\ age = Backdate
  /\ \E r \in Reads : /\ hop_anchor' = hop_servo(rtc_backdate_32k(r, Backdate))
                      /\ response_armed_rtc' = r
  /\ since_rx' = 0 /\ provisional' = FALSE
  /\ response_pending' = TRUE /\ sent' = FALSE
  /\ poll' = "caught" /\ swept' = 0
  /\ aligned' = IF provisional THEN (now - hop_anchor) % Wrap <= Interval
                               ELSE aligned
  /\ UNCHANGED <<now, prev_data_idx, rf_channel, retune, age,
                 dongle_idx, unanswered, steady, loop>>

(* rf_do_response_tx: the transmission starts, or fails and frees the radio.*)
(* TMOS serves it in a main-loop pass, so RF_ConnectedTick runs too.        *)
rf_do_response_tx ==
  /\ response_pending /\ ~sent /\ ~retune /\ loop = "run"
  /\ \/ /\ sent' = TRUE /\ UNCHANGED <<response_pending, response_armed_rtc>>
        /\ poll' = IF poll = "caught" THEN "answered" ELSE poll
     \/ /\ response_pending' = FALSE /\ response_armed_rtc' = 0
        /\ UNCHANGED <<sent, poll>>
  /\ UNCHANGED <<now, hop_anchor, prev_data_idx, since_rx, provisional,
                 rf_channel, retune, age, dongle_idx, unanswered,
                 steady, swept, loop, aligned>>

(* TX_FINISH or TX_FAIL, which comes within the slot or is lost.            *)
TxFinish ==
  /\ response_pending /\ sent /\ poll = "answered"
  /\ response_pending' = FALSE /\ response_armed_rtc' = 0 /\ sent' = FALSE
  /\ UNCHANGED <<now, hop_anchor, prev_data_idx, since_rx, provisional,
                 rf_channel, retune, dongle, loop, aligned>>
-----------------------------------------------------------------------------
(* The dongle's next slot.  A main loop that has not run in the last one is *)
(* stalled.  Disturbances, that is stalls and slots a tick short or long,   *)
(* come one at a time, each after a run of answered polls.                  *)
NextSlot(drift) ==
  LET missed == IF poll = "answered" THEN 0 ELSE unanswered + 1
      stall == loop = "due"
  IN /\ ~(drift /\ stall) /\ (drift \/ stall => steady = DriftGap)
     /\ loop' = IF loop = "run" THEN "due" ELSE "stalled"
     /\ age' = 0
     /\ steady' = IF drift \/ stall \/ poll # "answered" THEN 0
                  ELSE IF steady < DriftGap THEN steady + 1 ELSE steady
     /\ IF missed > Patience
        THEN /\ poll' = "none" /\ dongle_idx' = 0 /\ unanswered' = 0
             /\ swept' = 0
        ELSE /\ poll' = "due" /\ dongle_idx' = (dongle_idx + 1) % Channels
             /\ unanswered' = missed
             /\ UNCHANGED swept

\* Bound: the main loop is not stalled for much longer than the safety net.
Stalled == (now - hop_anchor) % Wrap = Interval * Desync + 2

(* A tick of the counter.  A connected main loop spins, so a pass that has   *)
(* moved the anchor is followed by the next one within the tick.             *)
Tick ==
  /\ loop # "again" /\ ~Stalled
  /\ ~(poll = "due" /\ age = Lead) /\ ~(poll = "heard" /\ age = Backdate)
  /\ now' = (now + 1) % Wrap
  /\ \/ gone /\ UNCHANGED <<dongle, loop>>
     \/ /\ ~gone /\ age < IF steady = DriftGap THEN Interval ELSE Interval - 1
        /\ age' = age + 1
        /\ UNCHANGED <<dongle_idx, poll, unanswered, steady, swept, loop>>
     \/ ~gone /\ age = Interval - 2 /\ NextSlot(TRUE)
     \/ ~gone /\ age = Interval - 1 /\ NextSlot(FALSE)
     \/ ~gone /\ age = Interval /\ NextSlot(TRUE)
  /\ UNCHANGED <<keyboard, aligned>>

Next ==
  \/ rf_enter_connected
  \/ RF_ConnectedTick
  \/ rf_start_rx
  \/ OnAir
  \/ PollCallBack
  \/ rf_do_response_tx
  \/ TxFinish
  \/ Tick

Spec == Init /\ [][Next]_vars
-----------------------------------------------------------------------------
TypeOK ==
  /\ {now, hop_anchor, response_armed_rtc} \subseteq Ticks
  /\ {prev_data_idx, rf_channel, dongle_idx} \subseteq Indices
  /\ since_rx \in 0..2
  /\ {provisional, response_pending, retune, sent, aligned}
       \subseteq BOOLEAN
  /\ age \in 0..Interval
  /\ poll \in Polls /\ loop \in {"due", "run", "stalled", "again"}
  /\ unanswered \in 0..Patience /\ steady \in 0..DriftGap
  /\ swept \in (-1)..(Patience + 1)

\* In step once n more hops are made: they put the anchor next to the slot's
\* reference instant and the index on the dongle's.
InStepAfter(n) ==
  /\ dongle_idx = (prev_data_idx + n) % Channels
  /\ rtc_signed_delta_32k((now - age - n * Interval) % Wrap, hop_anchor)
       \in (-MaxEarly)..MaxLate
InStep == \E n \in (-1)..Desync : InStepAfter(n)

\* No hop is due, and the dongle's poll is about to go out.
PollComes ==
  /\ age = Lead /\ poll = "due" /\ ~response_pending /\ ~retune
  /\ rtc_delta_32k(now, hop_anchor) <= Interval

(* While the dongle holds the link, elapsed time puts the keyboard on the   *)
(* dongle's channel: the phase error stays within bounds and the index is   *)
(* the one the phase calls for, through missed polls, late main-loop        *)
(* passes, clamped steps, one-tick rollbacks, drift, lost completions,      *)
(* and the wrap; and the receiver is armed on the channel of the poll that  *)
(* is about to go out: the hop comes neither late nor early for it.  (For a *)
(* session whose first poll met an anchor of its own slot: see              *)
(* TracksAfterCatch.)                                                       *)
StaysInStep ==
  ~gone /\ ~provisional /\ aligned =>
    InStep /\ (PollComes => rf_channel = dongle_idx)

(* A parked keyboard meets the sweeping dongle within one sweep: it misses  *)
(* fewer polls than there are channels, unless the air loses the one on its *)
(* channel, or the park's own re-arm cuts that one off (rf_task.c:1676-1684 *)
(* and rf_start_rx); and a re-arm does so only in an overdue pass, one that *)
(* comes Lead - SeedError ticks or more after the instant it re-arms for: a *)
(* poll cut off by an earlier one would be counted.                         *)
MeetsInOneSweep == provisional => swept < Channels

(* The safety net strikes only when the dongle has already dropped the link,*)
(* as its comment argues: it cannot restore the index of a live one.        *)
ReseedOnlyWhenGone ==
  [][\A r \in Reads : Reseed(rtc_delta_32k(r, hop_anchor), r) => gone]_vars

(* The comment of `provisional': the first caught poll snaps the phase and  *)
(* the keyboard resumes tracking.  It does not hold: the poll moves the      *)
(* anchor by one tick, and an advance overdue by then leaves the channel.    *)
TracksAfterCatch == ~gone /\ ~provisional => InStep
=============================================================================
