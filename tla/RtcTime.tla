------------------------------ MODULE RtcTime -------------------------------
(***************************************************************************)
(* Time on RTC32K, a counter that wraps after about a day and whose reads   *)
(* may lag: RtcClock_Now (rtc_clock.c), the holdoff of power_sleep.c over   *)
(* SleepProtocol_ElapsedTicks, and the deadline window of pwr_sleep_until.  *)
(*                                                                         *)
(* `time' is the true, unbounded count.  A read returns the count of some   *)
(* instant at most Stale ticks ago, modulo Modulus.  The main loop reads    *)
(* RtcClock_Now on every pass (KeyboardUart_Service), a pass lasts at most  *)
(* Pass ticks awake, and a pass goes to deep sleep at most once.            *)
(***************************************************************************)
EXTENDS Integers

CONSTANTS
  Modulus,    \* RTC_MAX_COUNT
  Tolerance,  \* RTC_CLOCK_BACKSTEP, PWR_RTC32K_BACKSTEP_TOLERANCE
  Stale,      \* the largest lag of a read
  Word,       \* 2^32
  Holdoff,    \* MS_TO_RTC(KBD_AUTOSLEEP_HOLDOFF_MS)
  MinSleep,   \* SLEEP_RTC_MIN_TIME
  MaxSleep,   \* SLEEP_RTC_MAX_TIME
  Margin,     \* WAKE_UP_RTC_MAX_TIME
  Pass,       \* the longest main-loop pass, sleep apart
  MaxTime     \* bound: how long the model runs

ASSUME ConstantsAssumption ==
  /\ \A c \in {Modulus, Tolerance, Stale, Word, Holdoff, MinSleep, MaxSleep,
               Margin, Pass, MaxTime} : c \in Nat
  /\ 0 < Modulus /\ Modulus < Word
  /\ Stale <= Tolerance
  /\ Stale < MinSleep
  /\ MaxSleep + Pass + Stale + Tolerance < Modulus
  /\ MaxSleep + Pass + Margin < Modulus

VARIABLES
  time,       \* the true count
  clk,        \* rtc_clock_t of RtcClock_Now
  base,       \* the true time of the clock's first sample (history)
  newest,     \* the newest true time the clock has sampled (history)
  hold,       \* pwr_holdoff_active, pwr_holdoff_start, and when that was
  begun,      \* when the main-loop pass began, time asleep left out
  slept,      \* this pass has been to deep sleep
  trig        \* the armed RTC trigger and the deadline it stands for

vars == <<time, clk, base, newest, hold, begun, slept, trig>>

Clocks == [started : BOOLEAN, last_raw : 0..Modulus-1, elapsed : 0..Word-1]
NoTrig == [armed |-> FALSE, raw |-> 0, due |-> 0]

\* RTC_GetCycle32k: the counter as it was at `s', at most Stale ticks ago.
Reads == {s \in (time - Stale)..time : s >= 0}
raw(s) == s % Modulus

\* A fresh module: the counter may hold anything, no clock has been read.
Init ==
  /\ time \in Stale..(Modulus - 1)
  /\ clk = [started |-> FALSE, last_raw |-> 0, elapsed |-> 0]
  /\ base = time /\ newest = time
  /\ hold = [active |-> FALSE, start |-> 0, at |-> 0]
  /\ begun = time /\ slept = FALSE
  /\ trig = NoTrig
-----------------------------------------------------------------------------
\* Mutant: a plain backward step is taken for stale, as in rtc_delta_32k.
AdvancePlain(c, r) ==
  IF ~c.started THEN [c EXCEPT !.started = TRUE, !.last_raw = r]
  ELSE IF r < c.last_raw /\ c.last_raw - r <= Tolerance THEN c
  ELSE [c EXCEPT !.elapsed = (@ + ((r - c.last_raw) % Modulus)) % Word,
                 !.last_raw = r]

(* RtcClock_Advance: the modular distance from the newest accepted sample;  *)
(* nearly a whole turn is a step back and changes nothing.                  *)
RtcClock_Advance(c, r) ==
  LET delta == IF r >= c.last_raw THEN r - c.last_raw
                                  ELSE r + (Modulus - c.last_raw)
  IN IF ~c.started
     THEN [c EXCEPT !.started = TRUE, !.last_raw = r]
     ELSE IF delta # 0 /\ delta >= Modulus - Tolerance
          THEN c
          ELSE [c EXCEPT !.elapsed = (@ + delta) % Word, !.last_raw = r]

(* KeyboardUart_Service reads the clock: the pass is over, another begins.  *)
RtcClock_Now(s) ==
  /\ ~trig.armed
  /\ clk' = RtcClock_Advance(clk, raw(s))
  /\ base' = IF clk.started THEN base ELSE s
  /\ newest' = IF clk.started /\ newest >= s THEN newest ELSE s
  /\ begun' = time /\ slept' = FALSE
  /\ UNCHANGED <<time, hold, trig>>

\* Mutant: every backward sample is taken for a stale one.
ElapsedSaturating(now, start) == IF now >= start THEN now - start ELSE 0

(* SleepProtocol_ElapsedTicks with the two arguments power_sleep.c fixes.   *)
SleepProtocol_ElapsedTicks(now, start) ==
  IF now >= start THEN now - start
  ELSE IF start - now <= Tolerance THEN 0
  ELSE now + (Modulus - start)

(* pwr_note_activity: a frame, a raw byte or a host wake starts the holdoff.*)
pwr_note_activity(s) ==
  /\ ~trig.armed
  /\ hold' = [active |-> TRUE, start |-> raw(s), at |-> s]
  /\ UNCHANGED <<time, clk, base, newest, begun, slept, trig>>

(* pwr_holdoff_expired, no byte having come since.                          *)
pwr_holdoff_expired(s) ==
  /\ ~trig.armed /\ hold.active
  /\ hold' = [hold EXCEPT !.active =
                SleepProtocol_ElapsedTicks(raw(s), hold.start) < Holdoff]
  /\ UNCHANGED <<time, clk, base, newest, begun, slept, trig>>
-----------------------------------------------------------------------------
pwr_rtc_sub(b, ticks) == IF b >= ticks THEN b - ticks ELSE b + (Modulus - ticks)

\* How far ahead the window check of pwr_sleep_until takes a trigger to be.
time_sleep(t, curr) == IF t < curr THEN t + (Modulus - curr) ELSE t - curr

\* Mutant: only the lower bound is checked.
NotTooSoon(ticks) == MinSleep <= ticks

InWindow(ticks) == MinSleep <= ticks /\ ticks <= MaxSleep

\* The deadlines TMOS may hand to the idle callback: its next timer, which may
\* just have run out.
Deadlines == {d \in (time - Pass)..(time + Modulus - 1 - Pass) : d >= 0}

(* pwr_sleep_until: the early-wake margin, the window check, the trigger.   *)
pwr_sleep_until(s, d) ==
  LET t == pwr_rtc_sub(raw(d), Margin)
  IN /\ ~trig.armed /\ ~slept
     /\ InWindow(time_sleep(t, raw(s)))
     /\ trig' = [armed |-> TRUE, raw |-> t, due |-> d]
     /\ slept' = TRUE
     /\ UNCHANGED <<time, clk, base, newest, hold, begun>>

(* Asleep, the counter runs until it matches the trigger or a host edge     *)
(* wakes the core; awake, until the pass is over.                           *)
Tick ==
  /\ time < MaxTime
  /\ IF trig.armed THEN raw(time) # trig.raw ELSE time - begun < Pass
  /\ time' = time + 1
  /\ begun' = IF trig.armed THEN begun + 1 ELSE begun
  /\ UNCHANGED <<clk, base, newest, hold, slept, trig>>

(* The wake: by the trigger, or by a host edge, which starts a holdoff.     *)
Wake ==
  /\ trig.armed
  /\ trig' = NoTrig
  /\ \/ raw(time) = trig.raw /\ UNCHANGED hold
     \/ \E s \in Reads : hold' = [active |-> TRUE, start |-> raw(s), at |-> s]
  /\ UNCHANGED <<time, clk, base, newest, begun, slept>>

Next ==
  \/ \E s \in Reads : RtcClock_Now(s)
  \/ \E s \in Reads : pwr_note_activity(s)
  \/ \E s \in Reads : pwr_holdoff_expired(s)
  \/ \E s \in Reads : \E d \in Deadlines : pwr_sleep_until(s, d)
  \/ Tick
  \/ Wake

Spec == Init /\ [][Next]_vars
-----------------------------------------------------------------------------
TypeOK ==
  /\ time \in Nat /\ base \in Nat /\ newest \in Nat /\ begun \in Nat
  /\ clk \in Clocks
  /\ hold \in [active : BOOLEAN, start : 0..Modulus-1, at : Nat]
  /\ slept \in BOOLEAN
  /\ trig \in [armed : BOOLEAN, raw : 0..Modulus-1, due : Nat]

(* RtcClock_Now is the true time of the newest sample since the first one,  *)
(* modulo the word: through wraps, stale reads, stale reads across the wrap *)
(* and sleeps it neither runs back, nor gains, nor loses a tick.            *)
ClockIsNewest ==
  clk.started => /\ clk.elapsed = (newest - base) % Word
                 /\ clk.last_raw = newest % Modulus

(* The module is never asleep past the deadline it went to sleep for: the   *)
(* trigger is not armed on an instant already gone, which the counter would *)
(* reach again only a day later.                                            *)
WakesInTime == trig.armed => time <= trig.due

(* Within a turn of the counter every check of a running holdoff reads the  *)
(* true ticks since it began, and zero on a sample older than its start,    *)
(* wherever the wrap lies.  The one exception is such an older sample taken *)
(* on the other side of the wrap (see HoldoffLasts).                        *)
HoldoffMeasured ==
  hold.active =>
    \A s \in Reads :
      LET ticks == SleepProtocol_ElapsedTicks(raw(s), hold.start)
      IN \/ s - hold.at >= Modulus - Tolerance
         \/ s < hold.at /\ raw(s) > hold.start
         \/ ticks = IF s < hold.at THEN 0 ELSE s - hold.at

(* A holdoff does not expire before its length has passed: as the comment   *)
(* of rtc_ticks_elapsed puts it, a small backward sample reads as zero      *)
(* elapsed and not as a wrap that would expire a fresh holdoff instantly.   *)
(* It does not hold for a sample from the other side of the wrap.           *)
HoldoffLasts ==
  [][hold.active /\ ~hold'.active => time - hold.at >= Holdoff]_vars
=============================================================================
