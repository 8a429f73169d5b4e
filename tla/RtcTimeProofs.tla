---------------------------- MODULE RtcTimeProofs ---------------------------
(***************************************************************************)
(* The RTC arithmetic, for every counter length, tolerance, lag, sleep       *)
(* window, margin and pass length ConstantsAssumption allows, RTC_MAX_COUNT  *)
(* and a day of ticks among them: the clock never gains or loses a tick      *)
(* (ClockIsNewest), the core never sleeps through its deadline (WakesInTime) *)
(* and a holdoff is measured right (HoldoffMeasured).                        *)
(***************************************************************************)
EXTENDS RtcTime, TLAPS

-----------------------------------------------------------------------------
(* The counter: facts about the remainder.                                   *)

LEMMA Constants ==
  /\ Modulus \in Nat /\ Tolerance \in Nat /\ Stale \in Nat /\ Word \in Nat
  /\ Holdoff \in Nat /\ MinSleep \in Nat /\ MaxSleep \in Nat
  /\ Margin \in Nat /\ Pass \in Nat /\ MaxTime \in Nat
  /\ 0 < Modulus /\ 0 < Word
  /\ Stale <= Tolerance /\ Stale < MinSleep
  /\ MaxSleep + Pass + Stale + Tolerance < Modulus
  /\ MaxSleep + Pass + Margin < Modulus
BY ConstantsAssumption

\* A remainder is in range, and there is a quotient.
LEMMA Quotient ==
  ASSUME NEW M \in Nat, 0 < M, NEW a \in Int
  PROVE  /\ a % M \in 0..(M - 1)
         /\ \E q \in Int : a = M * q + (a % M)
<1>1. a % M \in 0..(M - 1)
  OBVIOUS
<1>2. PICK q \in Int : q = a \div M
  OBVIOUS
<1>3. PICK r \in Int : r = a % M
  BY <1>1
<1>4. a = M * q + r
  BY <1>2, <1>3
<1> QED
  BY <1>1, <1>3, <1>4

\* ... and there is only one.
LEMMA Remainder ==
  ASSUME NEW M \in Nat, 0 < M, NEW q \in Int, NEW r \in 0..(M - 1)
  PROVE  (M * q + r) % M = r
OBVIOUS

\* A multiple of M strictly between two multiples that lie M apart.
LEMMA Multiples ==
  ASSUME NEW M \in Nat, 0 < M, NEW q \in Int
  PROVE  /\ M * q \in Int
         /\ q >= 1 => M * q >= M
         /\ q >= 2 => M * q >= M + M
         /\ q <= -1 => M * q <= -M
         /\ q = 1 => M * q = M
         /\ q = 0 => M * q = 0
OBVIOUS

LEMMA Factor ==
  ASSUME NEW M \in Nat, NEW p \in Int, NEW q \in Int
  PROVE  M * q - M * p = M * (q - p) /\ M * p + M * q = M * (p + q)
OBVIOUS

\* Two instants less than a turn apart: the counter shows their distance, or
\* has wrapped once between them.
LEMMA WithinTurn ==
  ASSUME NEW M \in Nat, 0 < M, NEW a \in Int, NEW b \in Int,
         a <= b, b - a < M
  PROVE  \/ (b % M) >= (a % M) /\ (b % M) - (a % M) = b - a
         \/ (b % M) < (a % M)  /\ (b % M) + (M - (a % M)) = b - a
<1>1. PICK p \in Int : a = M * p + (a % M)
  BY Quotient
<1>2. PICK q \in Int : b = M * q + (b % M)
  BY Quotient
<1> DEFINE k == q - p
           ra == a % M
           rb == b % M
           x == M * k
<1>3. ra \in 0..(M - 1) /\ rb \in 0..(M - 1)
  BY Quotient
<1>4. M * q - M * p = x /\ M * q \in Int /\ M * p \in Int
  BY Factor, Multiples
<1>5. k \in Int /\ x \in Int
  BY Multiples
<1>6. b - a = x + rb - ra
  BY <1>1, <1>2, <1>3, <1>4, <1>5
<1>7. /\ k >= 2 => x >= M + M
      /\ k <= -1 => x <= -M
      /\ k = 1 => x = M
      /\ k = 0 => x = 0
  BY <1>5, Multiples
<1> HIDE DEF k, ra, rb, x
<1>8. \/ rb >= ra /\ rb - ra = b - a
      \/ rb < ra  /\ rb + (M - ra) = b - a
  BY <1>3, <1>5, <1>6, <1>7
<1> QED
  BY <1>8 DEF ra, rb

\* Instants with the same count are the same or at least a turn apart.
LEMMA SameCount ==
  ASSUME NEW M \in Nat, 0 < M, NEW a \in Int, NEW b \in Int,
         (a % M) = (b % M), a < b
  PROVE  b - a >= M
<1> SUFFICES ASSUME b - a < M PROVE FALSE
  OBVIOUS
<1>1. a % M \in 0..(M - 1) /\ b % M \in 0..(M - 1)
  BY Quotient
<1> QED
  BY <1>1, WithinTurn

\* Adding before or after taking the remainder.
LEMMA AddCount ==
  ASSUME NEW M \in Nat, 0 < M, NEW a \in Int, NEW b \in Int
  PROVE  ((a % M) + b) % M = (a + b) % M
<1> DEFINE ra == a % M
           c == ra + b
           rc == c % M
<1>1. PICK p \in Int : a = M * p + ra
  BY Quotient
<1>2. ra \in Int /\ c \in Int
  BY Quotient
<1>3. rc \in 0..(M - 1) /\ \E q \in Int : c = M * q + rc
  BY <1>2, Quotient
<1>4. PICK q \in Int : c = M * q + rc
  BY <1>3
<1>5. M * p + M * q = M * (p + q) /\ M * p \in Int /\ M * q \in Int
  BY Factor, Multiples
<1>6. a + b = M * (p + q) + rc
  <2> HIDE DEF rc
  <2>1. c = ra + b
    OBVIOUS
  <2> HIDE DEF ra, c
  <2> QED
    BY <1>1, <1>2, <1>3, <1>4, <1>5, <2>1
<1>7. (M * (p + q) + rc) % M = rc
  <2> HIDE DEF rc
  <2> QED
    BY <1>3, Remainder
<1> QED
  BY <1>6, <1>7
-----------------------------------------------------------------------------
(* RtcClock_Advance on a sample of instant s, when the newest sample it has  *)
(* accepted is that of instant n: a sample no older than n moves the clock   *)
(* on by the true distance, an older one changes nothing.                    *)
LEMMA AdvanceIsTrue ==
  ASSUME NEW c \in Clocks, NEW n \in Nat, NEW s \in Nat,
         c.started, c.last_raw = n % Modulus,
         n - s <= Tolerance, s - n < Modulus - Tolerance
  PROVE  LET d == RtcClock_Advance(c, raw(s))
         IN /\ d \in Clocks /\ d.started
            /\ n >= s => d.elapsed = c.elapsed /\ d.last_raw = n % Modulus
            /\ n < s  => /\ d.elapsed = (c.elapsed + (s - n)) % Word
                         /\ d.last_raw = s % Modulus
<1> DEFINE rn == n % Modulus
           rs == s % Modulus
           delta == IF rs >= rn THEN rs - rn ELSE rs + (Modulus - rn)
           e == (c.elapsed + delta) % Word
<1> USE Constants
<1>1. rn \in 0..(Modulus - 1) /\ rs \in 0..(Modulus - 1)
  BY Quotient
<1>2. c.elapsed \in 0..(Word - 1) /\ c.started \in BOOLEAN
  BY DEF Clocks
<1>3. delta \in Int
  <2> HIDE DEF rn, rs
  <2> QED
    BY <1>1
<1>4. e \in 0..(Word - 1)
  <2> HIDE DEF delta
  <2> QED
    BY <1>2, <1>3, Quotient DEF e
<1>5. RtcClock_Advance(c, raw(s)) =
        IF delta # 0 /\ delta >= Modulus - Tolerance THEN c
        ELSE [c EXCEPT !.elapsed = e, !.last_raw = rs]
  BY DEF RtcClock_Advance, raw
<1> DEFINE d == RtcClock_Advance(c, raw(s))
<1>6. CASE n <= s
  <2>1. delta = s - n
    <3>1. \/ rs >= rn /\ rs - rn = s - n
          \/ rs < rn  /\ rs + (Modulus - rn) = s - n
      BY <1>6, WithinTurn
    <3> HIDE DEF rs, rn
    <3> QED
      BY <3>1, <1>1
  <2>2. d = [c EXCEPT !.elapsed = e, !.last_raw = rs]
    <3> HIDE DEF delta, e, rs
    <3> QED
      BY <1>5, <1>6, <2>1
  <2>3. d \in Clocks /\ d.started /\ d.elapsed = e /\ d.last_raw = rs
    <3> HIDE DEF e, rs
    <3> QED
      BY <1>1, <1>4, <2>2 DEF Clocks
  <2>4. n = s => e = c.elapsed
    <3>1. n = s => e = c.elapsed % Word
      <4> HIDE DEF delta
      <4> QED
        BY <2>1, <1>2 DEF e
    <3>2. c.elapsed % Word = c.elapsed
      BY <1>2
    <3> QED
      BY <3>1, <3>2
  <2>5. e = (c.elapsed + (s - n)) % Word
    <3> HIDE DEF delta
    <3> QED
      BY <2>1 DEF e
  <2> HIDE DEF d, e
  <2> QED
    BY <1>6, <2>3, <2>4, <2>5 DEF d
<1>7. CASE s < n
  <2>1. delta = Modulus - (n - s)
    <3>0. s <= n /\ n - s < Modulus
      BY <1>7
    <3>1. \/ rn >= rs /\ rn - rs = n - s
          \/ rn < rs  /\ rn + (Modulus - rs) = n - s
      BY <3>0, WithinTurn
    <3> HIDE DEF rs, rn
    <3> QED
      BY <3>1, <1>1, <1>7
  <2>2. d = c
    <3> HIDE DEF delta, e, rs
    <3> QED
      BY <1>5, <1>7, <2>1
  <2> QED
    BY <1>7, <2>2
<1> QED
  BY <1>6, <1>7

(* SleepProtocol_ElapsedTicks from the start of a holdoff at instant a to a  *)
(* sample of instant s: the true distance, or zero for an older sample that  *)
(* has not wrapped.                                                          *)
LEMMA ElapsedIsTrue ==
  ASSUME NEW a \in Nat, NEW s \in Nat,
         a - s <= Tolerance, s - a < Modulus - Tolerance,
         ~(s < a /\ raw(s) > raw(a))
  PROVE  SleepProtocol_ElapsedTicks(raw(s), raw(a)) =
           IF s < a THEN 0 ELSE s - a
<1> DEFINE ra == a % Modulus
           rs == s % Modulus
<1> USE Constants
<1>1. ra \in 0..(Modulus - 1) /\ rs \in 0..(Modulus - 1)
  BY Quotient
<1>2. CASE a <= s
  <2>1. \/ rs >= ra /\ rs - ra = s - a
        \/ rs < ra  /\ rs + (Modulus - ra) = s - a
    BY <1>2, WithinTurn
  <2> HIDE DEF ra, rs
  <2> QED
    BY <1>1, <1>2, <2>1 DEF SleepProtocol_ElapsedTicks, raw, ra, rs
<1>3. CASE s < a
  <2>1. \/ ra >= rs /\ ra - rs = a - s
        \/ ra < rs  /\ ra + (Modulus - rs) = a - s
    BY <1>3, WithinTurn
  <2>2. ~(rs > ra)
    BY <1>3 DEF raw
  <2>3. ra - rs = a - s /\ rs < ra
    <3> HIDE DEF ra, rs
    <3> QED
      BY <1>1, <1>3, <2>1, <2>2
  <2> QED
    BY <1>1, <1>3, <2>3 DEF SleepProtocol_ElapsedTicks, raw
<1> QED
  BY <1>2, <1>3
-----------------------------------------------------------------------------
(* The invariant: how far the newest sample lags behind the true time.  It   *)
(* is what bounds the distance RtcClock_Advance sees well below a turn.      *)

\* The pass is bounded by Pass, and the newest sample by the start of the
\* pass: by Stale before the pass has slept, by a sleep more after it.
Lag ==
  /\ begun <= time /\ time - begun <= Pass
  /\ clk.started => /\ newest <= time
                    /\ ~slept => begun - newest <= Stale
                    /\ ~trig.armed => begun - newest <= Stale + MaxSleep

\* The armed trigger stands for an instant that is still to come, lies within
\* the longest sleep and before the deadline.
Trigger(T) ==
  /\ T % Modulus = trig.raw
  /\ time <= T /\ T <= trig.due
  /\ clk.started => begun - newest + (T - time) <= Stale + MaxSleep

Armed ==
  trig.armed => slept /\ \E T \in time..(time + MaxSleep) : Trigger(T)

\* The clock counts from its first sample to its newest.
Clock ==
  /\ ~clk.started => clk.elapsed = 0
  /\ ClockIsNewest

\* The holdoff began at an instant no later than now.
HoldoffStart == hold.active => hold.start = raw(hold.at) /\ hold.at <= time

TimeInv == TypeOK /\ Lag /\ Armed /\ Clock /\ HoldoffStart

LEMMA TimeInit == Init => TimeInv
<1> SUFFICES ASSUME Init PROVE TimeInv
  OBVIOUS
<1> USE Constants
<1>1. TypeOK
  <2>1. 0 \in 0..(Modulus - 1) /\ 0 \in 0..(Word - 1)
    OBVIOUS
  <2>2. clk \in Clocks
    BY <2>1 DEF Init, Clocks
  <2>3. /\ hold \in [active : BOOLEAN, start : 0..Modulus-1, at : Nat]
        /\ trig \in [armed : BOOLEAN, raw : 0..Modulus-1, due : Nat]
    BY <2>1 DEF Init, NoTrig
  <2>4. time \in Nat /\ base = time /\ newest = time /\ begun = time
        /\ slept = FALSE
    BY DEF Init
  <2> QED
    BY <2>2, <2>3, <2>4 DEF TypeOK
<1>2. /\ clk.started = FALSE /\ clk.elapsed = 0 /\ hold.active = FALSE
      /\ trig.armed = FALSE /\ begun = time /\ time \in Nat
  BY DEF Init, NoTrig
<1>3. Lag /\ Armed /\ Clock /\ HoldoffStart
  BY <1>2 DEF Lag, Armed, Clock, ClockIsNewest, HoldoffStart
<1> QED
  BY <1>1, <1>3 DEF TimeInv

\* A read of the counter is in its range.
LEMMA RawRange == \A s \in Int : raw(s) \in 0..(Modulus - 1)
BY Constants, Quotient DEF raw

(* KeyboardUart_Service's read: the clock moves on by the true distance,     *)
(* because the newest sample is at most a pass and a sleep behind.           *)
LEMMA NowKeeps ==
  ASSUME TimeInv, NEW s \in Reads, RtcClock_Now(s)
  PROVE  TimeInv'
<1> USE Constants
<1>1. /\ s \in Nat /\ s <= time /\ time - s <= Stale
      /\ time \in Nat /\ newest \in Nat /\ base \in Nat /\ begun \in Nat
      /\ clk \in Clocks
  BY DEF Reads, TimeInv, TypeOK
<1>2. UNCHANGED <<time, hold, trig>> /\ begun' = time /\ slept' = FALSE
  BY DEF RtcClock_Now
<1>3. HoldoffStart'
  BY <1>2 DEF TimeInv, HoldoffStart
<1>4. Armed'
  BY <1>2 DEF RtcClock_Now, Armed
<1>5. CASE ~clk.started
  <2>1. base' = s /\ newest' = s
    BY <1>5 DEF RtcClock_Now
  <2>2. clk' = [clk EXCEPT !.started = TRUE, !.last_raw = raw(s)]
    BY <1>5 DEF RtcClock_Now, RtcClock_Advance
  <2>3. raw(s) \in 0..(Modulus - 1)
    BY <1>1, RawRange
  <2>4. clk.elapsed = 0
    BY <1>5 DEF TimeInv, Clock
  <2>5. /\ clk' \in Clocks /\ clk'.started
        /\ clk'.elapsed = 0 /\ clk'.last_raw = raw(s)
    BY <1>1, <2>2, <2>3, <2>4 DEF Clocks
  <2>6. TypeOK'
    BY <1>1, <1>2, <2>1, <2>5 DEF TimeInv, TypeOK
  <2>7. Lag'
    BY <1>1, <1>2, <2>1, <2>5 DEF Lag
  <2>8. (s - s) % Word = 0
    BY <1>1
  <2>9. Clock'
    BY <2>1, <2>5, <2>8 DEF Clock, ClockIsNewest, raw
  <2> QED
    BY <1>3, <1>4, <2>6, <2>7, <2>9 DEF TimeInv
<1>6. CASE clk.started
  <2>1. base' = base /\ newest' = IF newest >= s THEN newest ELSE s
    BY <1>6 DEF RtcClock_Now
  <2>2. clk.last_raw = newest % Modulus /\ clk.elapsed = (newest - base) % Word
    BY <1>6 DEF TimeInv, Clock, ClockIsNewest
  <2>3. newest <= time /\ time - newest <= Pass + Stale + MaxSleep
    BY <1>1, <1>6 DEF TimeInv, Lag, RtcClock_Now
  <2>4. newest - s <= Tolerance /\ s - newest < Modulus - Tolerance
    BY <1>1, <2>3
  <2>5. /\ clk' \in Clocks /\ clk'.started
        /\ newest >= s => /\ clk'.elapsed = clk.elapsed
                          /\ clk'.last_raw = newest % Modulus
        /\ newest < s  => /\ clk'.elapsed = (clk.elapsed + (s - newest)) % Word
                          /\ clk'.last_raw = s % Modulus
    <3>1. clk' = RtcClock_Advance(clk, raw(s))
      BY DEF RtcClock_Now
    <3> QED
      BY <1>1, <1>6, <2>2, <2>4, <3>1, AdvanceIsTrue
  <2>6. TypeOK'
    BY <1>1, <1>2, <2>1, <2>5 DEF TimeInv, TypeOK
  <2>7. Lag'
    BY <1>1, <1>2, <2>1, <2>3, <2>5 DEF Lag
  <2>8. newest < s => clk'.elapsed = (s - base) % Word
    <3>1. newest - base \in Int /\ s - newest \in Int
      BY <1>1
    <3>2. (((newest - base) % Word) + (s - newest)) % Word =
            ((newest - base) + (s - newest)) % Word
      BY <3>1, AddCount
    <3>3. (newest - base) + (s - newest) = s - base
      BY <1>1
    <3> QED
      BY <2>2, <2>5, <3>2, <3>3
  <2>9. ClockIsNewest'
    <3>1. CASE newest >= s
      BY <2>1, <2>2, <2>5, <3>1 DEF ClockIsNewest
    <3>2. CASE ~(newest >= s)
      BY <1>1, <2>1, <2>5, <2>8, <3>2 DEF ClockIsNewest
    <3> QED
      BY <3>1, <3>2
  <2> QED
    BY <1>3, <1>4, <2>5, <2>6, <2>7, <2>9 DEF TimeInv, Clock
<1> QED
  BY <1>5, <1>6

-----------------------------------------------------------------------------
(* The arithmetic of pwr_sleep_until.                                        *)

\* pwr_rtc_sub steps back from a count.
LEMMA SubCount ==
  ASSUME NEW d \in Nat
  PROVE  pwr_rtc_sub(raw(d), Margin) = (d - Margin) % Modulus
<1> DEFINE rd == d % Modulus
           rm == (d - Margin) % Modulus
<1> USE Constants
<1>1. rd \in 0..(Modulus - 1) /\ rm \in 0..(Modulus - 1)
  BY Quotient
<1>2. \/ rd >= rm /\ rd - rm = d - (d - Margin)
      \/ rd < rm  /\ rd + (Modulus - rm) = d - (d - Margin)
  <2>1. d - Margin \in Int /\ d - Margin <= d /\ d - (d - Margin) < Modulus
    OBVIOUS
  <2> QED
    BY <2>1, WithinTurn
<1>3. pwr_rtc_sub(rd, Margin) = rm
  <2> HIDE DEF rd, rm
  <2> QED
    BY <1>1, <1>2 DEF pwr_rtc_sub
<1> QED
  BY <1>3 DEF raw

\* time_sleep is how long the counter takes from a read to a trigger.
LEMMA AheadCount ==
  ASSUME NEW s \in Nat, NEW t \in 0..(Modulus - 1)
  PROVE  /\ time_sleep(t, raw(s)) \in 0..(Modulus - 1)
         /\ (s + time_sleep(t, raw(s))) % Modulus = t
<1> DEFINE rs == s % Modulus
           ts == time_sleep(t, rs)
<1> USE Constants
<1>1. rs \in 0..(Modulus - 1)
  BY Quotient
<1>2. PICK q \in Int : s = Modulus * q + rs
  BY Quotient
<1>3. Modulus * q \in Int /\ Modulus * (q + 1) = Modulus * q + Modulus
  BY Multiples
<1>4. /\ ts \in 0..(Modulus - 1)
      /\ t >= rs => s + ts = Modulus * q + t
      /\ t < rs  => s + ts = Modulus * (q + 1) + t
  <2> HIDE DEF rs
  <2> QED
    BY <1>1, <1>2, <1>3 DEF time_sleep
<1>5. (Modulus * q + t) % Modulus = t /\ (Modulus * (q + 1) + t) % Modulus = t
  BY Remainder
<1>6. (s + ts) % Modulus = t
  <2> HIDE DEF ts, rs
  <2> QED
    BY <1>1, <1>4, <1>5
<1> QED
  BY <1>4, <1>6 DEF raw

(* Arming: what the window check accepts is an instant after now and no      *)
(* later than the deadline.                                                  *)
LEMMA SleepKeeps ==
  ASSUME TimeInv, NEW s \in Reads, NEW d \in Deadlines, pwr_sleep_until(s, d)
  PROVE  TimeInv'
<1> DEFINE t == pwr_rtc_sub(raw(d), Margin)
           ts == time_sleep(t, raw(s))
           T == s + ts
<1> USE Constants
<1>1. /\ s \in Nat /\ s <= time /\ time - s <= Stale
      /\ d \in Nat /\ time - Pass <= d
      /\ time \in Nat /\ newest \in Nat /\ begun \in Nat
  BY DEF Reads, Deadlines, TimeInv, TypeOK
<1>2. /\ UNCHANGED <<time, clk, base, newest, hold, begun>> /\ slept' = TRUE
      /\ trig' = [armed |-> TRUE, raw |-> t, due |-> d]
      /\ ~trig.armed /\ ~slept
      /\ MinSleep <= ts /\ ts <= MaxSleep
  BY DEF pwr_sleep_until, InWindow
<1>3. t = (d - Margin) % Modulus /\ t \in 0..(Modulus - 1)
  BY <1>1, SubCount, Quotient
<1>4. ts \in 0..(Modulus - 1) /\ T % Modulus = t
  BY <1>1, <1>3, AheadCount
<1> HIDE DEF t, ts
<1>5. T \in Int /\ time <= T /\ T <= time + MaxSleep
  BY <1>1, <1>2, <1>4
<1>6. T <= d
  <2> SUFFICES ASSUME d < T PROVE FALSE
    BY <1>1, <1>5
  <2>1. d - Margin \in Int /\ d - Margin < T
    BY <1>1, <1>5
  <2>2. T - (d - Margin) >= Modulus
    BY <1>3, <1>4, <1>5, <2>1, SameCount
  <2> HIDE DEF T
  <2> QED
    BY <1>1, <1>5, <2>2
<1> HIDE DEF T
<1>7. clk.started => begun - newest + (T - time) <= Stale + MaxSleep
  BY <1>1, <1>2, <1>5 DEF TimeInv, Lag
<1>8. TypeOK'
  BY <1>1, <1>2, <1>3 DEF TimeInv, TypeOK
<1>9. Lag'
  BY <1>1, <1>2 DEF TimeInv, Lag
<1>10. Armed'
  <2>1. trig'.raw = t /\ trig'.due = d
    BY <1>2
  <2>2. T \in time'..(time' + MaxSleep)
    BY <1>1, <1>2, <1>5
  <2>3. Trigger(T)'
    BY <1>2, <1>4, <1>5, <1>6, <1>7, <2>1 DEF Trigger
  <2> QED
    BY <1>2, <2>2, <2>3 DEF Armed
<1>11. Clock' /\ HoldoffStart'
  BY <1>2 DEF TimeInv, Clock, ClockIsNewest, HoldoffStart
<1> QED
  BY <1>8, <1>9, <1>10, <1>11 DEF TimeInv

(* A tick: asleep, the counter has not come to the trigger, so its instant   *)
(* is still ahead.                                                           *)
LEMMA TickKeeps ==
  ASSUME TimeInv, Tick
  PROVE  TimeInv'
<1> USE Constants
<1>1. time \in Nat /\ newest \in Nat /\ begun \in Nat
  BY DEF TimeInv, TypeOK
<1>2. /\ UNCHANGED <<clk, base, newest, hold, slept, trig>>
      /\ time' = time + 1
      /\ trig.armed => begun' = begun + 1 /\ raw(time) # trig.raw
      /\ ~trig.armed => begun' = begun /\ time - begun < Pass
  BY DEF Tick
<1>3. TypeOK'
  BY <1>1, <1>2 DEF TimeInv, TypeOK
<1>4. Clock' /\ HoldoffStart'
  <2>1. Clock'
    BY <1>2 DEF TimeInv, Clock, ClockIsNewest
  <2>2. hold.at \in Nat
    BY DEF TimeInv, TypeOK
  <2>3. HoldoffStart'
    BY <1>1, <1>2, <2>2 DEF TimeInv, HoldoffStart
  <2> QED
    BY <2>1, <2>3
<1>5. Lag'
  <2>1. trig.armed => slept
    BY DEF TimeInv, Armed
  <2> QED
    BY <1>1, <1>2, <2>1 DEF TimeInv, Lag
<1>6. Armed'
  <2> SUFFICES ASSUME trig.armed
               PROVE  slept /\ \E T \in time'..(time' + MaxSleep) : Trigger(T)'
    BY <1>2 DEF Armed
  <2>1. slept
    BY DEF TimeInv, Armed
  <2>2. PICK T \in time..(time + MaxSleep) : Trigger(T)
    BY DEF TimeInv, Armed
  <2>3. T # time
    BY <1>2, <2>2 DEF Trigger, raw
  <2>4. T \in time'..(time' + MaxSleep)
    BY <1>1, <1>2, <2>2, <2>3
  <2>5. Trigger(T)'
    BY <1>1, <1>2, <2>2, <2>4 DEF Trigger
  <2> QED
    BY <2>1, <2>4, <2>5
<1> QED
  BY <1>3, <1>4, <1>5, <1>6 DEF TimeInv

\* The wake: the pass goes on, the newest sample at most a sleep further back.
LEMMA WakeKeeps ==
  ASSUME TimeInv, Wake
  PROVE  TimeInv'
<1> USE Constants
<1>1. time \in Nat /\ newest \in Nat /\ begun \in Nat
  BY DEF TimeInv, TypeOK
<1>2. /\ UNCHANGED <<time, clk, base, newest, begun, slept>>
      /\ trig.armed /\ trig' = NoTrig
      /\ \/ UNCHANGED hold
         \/ \E s \in Reads : hold' = [active |-> TRUE, start |-> raw(s), at |-> s]
  BY DEF Wake
<1>3. TypeOK' /\ HoldoffStart'
  <2>1. trig' \in [armed : BOOLEAN, raw : 0..Modulus-1, due : Nat]
    BY <1>2 DEF NoTrig
  <2>2. CASE UNCHANGED hold
    BY <1>1, <1>2, <2>1, <2>2 DEF TimeInv, TypeOK, HoldoffStart
  <2>3. ASSUME NEW s \in Reads,
               hold' = [active |-> TRUE, start |-> raw(s), at |-> s]
        PROVE  TypeOK' /\ HoldoffStart'
    <3>1. s \in Nat /\ s <= time
      BY <1>1 DEF Reads
    <3>2. raw(s) \in 0..(Modulus - 1)
      BY <3>1, RawRange
    <3> QED
      BY <1>1, <1>2, <2>1, <2>3, <3>1, <3>2 DEF TimeInv, TypeOK, HoldoffStart
  <2> QED
    BY <1>2, <2>2, <2>3
<1>4. Clock'
  BY <1>2 DEF TimeInv, Clock, ClockIsNewest
<1>5. Armed'
  BY <1>2 DEF Armed, NoTrig
<1>6. Lag'
  <2>1. slept /\ \E T \in time..(time + MaxSleep) : Trigger(T)
    BY <1>2 DEF TimeInv, Armed
  <2>2. clk.started => begun - newest <= Stale + MaxSleep
    BY <1>1, <2>1 DEF Trigger
  <2> QED
    BY <1>1, <1>2, <2>1, <2>2 DEF TimeInv, Lag
<1> QED
  BY <1>3, <1>4, <1>5, <1>6 DEF TimeInv

\* The holdoff starts, or ends.
LEMMA HoldoffKeeps ==
  ASSUME TimeInv, NEW s \in Reads,
         pwr_note_activity(s) \/ pwr_holdoff_expired(s)
  PROVE  TimeInv'
<1> USE Constants
<1>1. s \in Nat /\ s <= time /\ raw(s) \in 0..(Modulus - 1)
  BY RawRange DEF Reads, TimeInv, TypeOK
<1>2. UNCHANGED <<time, clk, base, newest, begun, slept, trig>>
  BY DEF pwr_note_activity, pwr_holdoff_expired
<1>3. hold' \in [active : BOOLEAN, start : 0..Modulus-1, at : Nat]
      /\ HoldoffStart'
  <2>1. CASE pwr_note_activity(s)
    BY <1>1, <1>2, <2>1 DEF pwr_note_activity, HoldoffStart
  <2>2. CASE pwr_holdoff_expired(s)
    <3> DEFINE b == SleepProtocol_ElapsedTicks(raw(s), hold.start) < Holdoff
    <3>0. b \in BOOLEAN
      OBVIOUS
    <3>1. hold' = [hold EXCEPT !.active = b]
      BY <2>2 DEF pwr_holdoff_expired
    <3> HIDE DEF b
    <3>2. hold.active
      BY <2>2 DEF pwr_holdoff_expired
    <3> QED
      BY <1>1, <1>2, <3>0, <3>1, <3>2 DEF TimeInv, TypeOK, HoldoffStart
  <2> QED
    BY <2>1, <2>2
<1>4. TypeOK'
  BY <1>2, <1>3 DEF TimeInv, TypeOK
<1>5. Lag' /\ Clock'
  BY <1>2 DEF TimeInv, Lag, Clock, ClockIsNewest
<1>6. Armed'
  BY <1>2 DEF TimeInv, Armed, Trigger
<1> QED
  BY <1>3, <1>4, <1>5, <1>6 DEF TimeInv

LEMMA TimeStep == TimeInv /\ [Next]_vars => TimeInv'
<1> SUFFICES ASSUME TimeInv, [Next]_vars PROVE TimeInv'
  OBVIOUS
<1>1. CASE Next
  BY <1>1, NowKeeps, HoldoffKeeps, SleepKeeps, TickKeeps, WakeKeeps DEF Next
<1>2. CASE UNCHANGED vars
  <2>1. TypeOK' /\ Lag' /\ Clock' /\ HoldoffStart'
    BY <1>2 DEF vars, TimeInv, TypeOK, Lag, Clock, ClockIsNewest, HoldoffStart
  <2>2. Armed'
    BY <1>2 DEF vars, TimeInv, Armed, Trigger
  <2> QED
    BY <2>1, <2>2 DEF TimeInv
<1> QED
  BY <1>1, <1>2

(* RtcClock_Now is the true distance from its first to its newest sample,    *)
(* modulo the word, through every wrap, stale read and sleep.                *)
THEOREM ClockIsNewestAlways == Spec => []ClockIsNewest
<1>1. TimeInv => ClockIsNewest
  BY DEF TimeInv, Clock
<1> QED
  BY <1>1, TimeInit, TimeStep, PTL DEF Spec

(* The trigger pwr_sleep_until arms is never an instant already gone: the    *)
(* core is not asleep past the deadline it slept for.                        *)
THEOREM WakesInTimeAlways == Spec => []WakesInTime
<1>1. TimeInv => WakesInTime
  <2> SUFFICES ASSUME TimeInv, trig.armed PROVE time <= trig.due
    BY DEF WakesInTime
  <2>1. PICK T \in time..(time + MaxSleep) : Trigger(T)
    BY DEF TimeInv, Armed
  <2>2. time \in Nat /\ trig.due \in Nat
    BY DEF TimeInv, TypeOK
  <2> QED
    BY Constants, <2>1, <2>2 DEF Trigger
<1> QED
  BY <1>1, TimeInit, TimeStep, PTL DEF Spec

(* A running holdoff reads the true ticks since it began, with the one       *)
(* exception of an older sample from the other side of the wrap.             *)
THEOREM HoldoffMeasuredAlways == Spec => []HoldoffMeasured
<1>1. TimeInv => HoldoffMeasured
  <2> SUFFICES ASSUME TimeInv, hold.active, NEW s \in Reads,
                      ~(s - hold.at >= Modulus - Tolerance),
                      ~(s < hold.at /\ raw(s) > hold.start)
               PROVE  SleepProtocol_ElapsedTicks(raw(s), hold.start) =
                        IF s < hold.at THEN 0 ELSE s - hold.at
    BY DEF HoldoffMeasured
  <2>1. /\ s \in Nat /\ hold.at \in Nat /\ time \in Nat
        /\ s <= time /\ time - s <= Stale
        /\ hold.start = raw(hold.at) /\ hold.at <= time
    BY Constants DEF Reads, TimeInv, TypeOK, HoldoffStart
  <2>2. hold.at - s <= Tolerance /\ s - hold.at < Modulus - Tolerance
    BY <2>1, Constants
  <2> QED
    BY <2>1, <2>2, ElapsedIsTrue
<1> QED
  BY <1>1, TimeInit, TimeStep, PTL DEF Spec
=============================================================================
