------------------------------ MODULE HopProofs -----------------------------
(***************************************************************************)
(* The hop for every number of channels, every counter and every timing that *)
(* HopAssumption allows: a parked keyboard meets the sweeping dongle where   *)
(* its re-arms are timed as ParkTiming says (MeetsInOneSweep), and the steps *)
(* that staying in step rests on. The elapsed time is measured right across  *)
(* the wrap (ElapsedMeasured), the servo closes in on the poll               *)
(* (ServoApproaches), and index and phase move together, with the hop        *)
(* (HopKeepsStep) and with time (TickKeepsStep).                             *)
(***************************************************************************)
EXTENDS Hop, TLAPS

\* Where the slot's poll is: not yet missed or caught.
Open == poll \in {"due", "heard"}

\* The polls of this session so far, the one of the slot included.
Polled == swept + (IF Open THEN 1 ELSE 0)

\* A poll is received within its slot.
InSlot ==
  /\ poll = "due" => age <= Lead
  /\ poll = "heard" => Lead <= age /\ age <= Backdate

\* Only a parked keyboard counts, and a poll it met ends the count; the dongle's
\* patience bounds it.
Counts ==
  /\ ~provisional \/ poll \in {"caught", "answered", "none"} => swept = 0
  /\ swept <= unanswered + (IF Open THEN 0 ELSE 1)

\* What a parked keyboard's re-arms rest on: reads of the counter do not step back
\* across its wrap, nor further than is tolerated; the record seeds the anchor to
\* within a tick; and the disturbances leave it two answered polls, so that none
\* comes before the first catch.
ParkTiming == ~WrapLag /\ Lag <= Tolerance /\ SeedError <= 1 /\ 2 <= DriftGap

Elapsed == (now - hop_anchor) % Wrap

\* A parked anchor is on the dongle's grid: some slots back, but for SeedError.
OnGrid ==
  \E k \in Nat : k * Interval + age - Elapsed \in (-SeedError)..SeedError

Parked ==
  ParkTiming /\ provisional /\ ~gone =>
    /\ age < Interval /\ poll # "caught"
    /\ steady <= IF poll = "answered" THEN 0 ELSE 1
    /\ Elapsed \in 1..(Interval * Desync + 2)
    /\ OnGrid

\* A parked keyboard stays on its channel, and the dongle, which began its sweep
\* next to channel 0, has not come to it yet.
Sweep ==
  ParkTiming /\ provisional =>
    /\ prev_data_idx = rf_channel
    /\ ~gone /\ swept >= 0 =>
         /\ dongle_idx = IF Polled = Channels THEN 0 ELSE Polled
         /\ swept < IF rf_channel = 0 THEN Channels ELSE rf_channel

HopInv == TypeOK /\ InSlot /\ Counts /\ Parked /\ Sweep
-----------------------------------------------------------------------------
LEMMA Constants ==
  /\ Wrap \in Nat /\ Tolerance \in Nat /\ Lag \in Nat /\ Interval \in Nat
  /\ Channels \in Nat /\ Desync \in Nat /\ Backdate \in Nat /\ Lead \in Nat
  /\ SeedError \in Nat /\ DriftGap \in Nat /\ Patience \in Nat
  /\ 0 < Lead /\ Lead < Backdate /\ Backdate < Interval - 1 /\ 1 < Channels
BY HopAssumption

\* The counter is longer than a poll's backdating.
LEMMA WrapLong == Backdate + 1 < Wrap /\ 0 < Wrap /\ 0 \in Ticks
<1>1. /\ Desync \in Nat /\ Interval \in Nat /\ Wrap \in Nat /\ Tolerance \in Nat
      /\ Patience \in Nat /\ Backdate \in Nat
      /\ Desync * Interval + Tolerance + 2 < Wrap /\ 1 <= Desync
      /\ Backdate < Interval - 1
  BY HopAssumption
<1>2. Interval <= Desync * Interval /\ Desync * Interval \in Nat
  BY <1>1
<1>3. Backdate + 1 < Wrap /\ 0 < Wrap
  BY <1>1, <1>2
<1> QED
  BY <1>1, <1>3 DEF Ticks

\* TypeOK, variable by variable.
LEMMA Types ==
  TypeOK <=>
    /\ now \in Ticks /\ hop_anchor \in Ticks /\ response_armed_rtc \in Ticks
    /\ prev_data_idx \in Indices /\ rf_channel \in Indices
    /\ dongle_idx \in Indices /\ since_rx \in 0..2
    /\ provisional \in BOOLEAN /\ response_pending \in BOOLEAN
    /\ retune \in BOOLEAN /\ sent \in BOOLEAN /\ aligned \in BOOLEAN
    /\ age \in 0..Interval /\ poll \in Polls
    /\ loop \in {"due", "run", "stalled", "again"}
    /\ unanswered \in 0..Patience /\ steady \in 0..DriftGap
    /\ swept \in (-1)..(Patience + 1)
BY Zenon DEF TypeOK

LEMMA Modulo ==
  /\ \A x \in Int : x % Wrap \in Ticks
  /\ \A x \in Int : x % Channels \in Indices
BY Constants, WrapLong DEF Ticks, Indices

LEMMA Successor ==
  ASSUME NEW x \in Indices
  PROVE  (x + 1) % Channels = IF x + 1 = Channels THEN 0 ELSE x + 1
BY Constants DEF Indices

\* The arithmetic stays on the counter.
LEMMA OnCounter ==
  ASSUME NEW t \in Ticks
  PROVE  /\ \A k \in Int : rtc_add_32k(t, k) \in Ticks
         /\ \A k \in 0..(Backdate + 1) : rtc_backdate_32k(t, k) \in Ticks
         /\ 1 \in 0..(Backdate + 1)
<1>1. \A k \in Int : rtc_add_32k(t, k) \in Ticks
  BY Modulo DEF rtc_add_32k, Ticks
<1>2. \A k \in 0..(Backdate + 1) : rtc_backdate_32k(t, k) \in Ticks
  BY Constants, WrapLong DEF rtc_backdate_32k, Ticks
<1> QED
  BY <1>1, <1>2, Constants

LEMMA ReadsAreTicks ==
  ASSUME now \in Ticks
  PROVE  Reads \subseteq Ticks
<1>1. \A l \in 0..Lag : (now - l) \in Int
  BY Constants DEF Ticks
<1>2. \A l \in 0..Lag : (now - l) % Wrap \in Ticks
  BY <1>1, Modulo
<1> QED
  BY <1>2 DEF Reads

LEMMA SeedsAreTicks ==
  ASSUME now \in Ticks
  PROVE  Seeds \subseteq Ticks
<1>1. \A e \in (-SeedError)..SeedError : (now - Backdate + e) \in Int
  BY Constants DEF Ticks
<1>2. \A e \in (-SeedError)..SeedError : (now - Backdate + e) % Wrap \in Ticks
  BY <1>1, Modulo
<1> QED
  BY <1>2 DEF Seeds

LEMMA ServoOnCounter ==
  ASSUME hop_anchor \in Ticks, NEW ref
  PROVE  hop_servo(ref) \in Ticks
BY OnCounter, Constants DEF hop_servo

-----------------------------------------------------------------------------
(* The arithmetic on the counter.                                            *)

\* A remainder has a quotient, and there is only one.
LEMMA Quotient ==
  ASSUME NEW M \in Nat, 0 < M, NEW x \in Int
  PROVE  x % M \in 0..(M - 1) /\ \E q \in Int : x = M * q + (x % M)
<1>1. x % M \in 0..(M - 1)
  OBVIOUS
<1>2. PICK q \in Int : q = x \div M
  OBVIOUS
<1>3. PICK r \in Int : r = x % M
  BY <1>1
<1>4. x = M * q + r
  BY <1>2, <1>3
<1> QED
  BY <1>1, <1>3, <1>4

LEMMA Remainder ==
  ASSUME NEW M \in Nat, 0 < M, NEW q \in Int, NEW r \in 0..(M - 1)
  PROVE  (M * q + r) % M = r
OBVIOUS

\* Only the remainder of a term counts.
LEMMA ModuloSum ==
  ASSUME NEW M \in Nat, 0 < M, NEW x \in Int, NEW y \in Int
  PROVE  ((x % M) + y) % M = (x + y) % M
<1>1. PICK q \in Int : x = M * q + (x % M)
  BY Quotient
<1>2. PICK u \in Int : u = x % M
  BY Quotient
<1>3. PICK r \in 0..(M - 1) : r = (u + y) % M
  BY <1>2, Quotient
<1>4. PICK p \in Int : u + y = M * p + r
  BY <1>2, <1>3, Quotient
<1>5. x + y = M * q + M * p + r
  BY <1>1, <1>2, <1>4
<1>6. M * q + M * p = M * (q + p)
  OBVIOUS
<1>7. x + y = M * (q + p) + r
  BY <1>5, <1>6
<1>8. (x + y) % M = r
  <2>1. PICK s \in Int : s = q + p
    OBVIOUS
  <2>2. (M * s + r) % M = r
    BY Remainder
  <2> QED
    BY <1>7, <2>1, <2>2
<1> QED
  BY <1>2, <1>3, <1>8

\* ... on either side of a difference.
LEMMA ModuloDifference ==
  ASSUME NEW M \in Nat, 0 < M, NEW x \in Int, NEW y \in Int
  PROVE  (y - (x % M)) % M = (y - x) % M
<1>1. PICK q \in Int : x = M * q + (x % M)
  BY Quotient
<1>2. PICK u \in Int : u = x % M
  BY Quotient
<1>3. PICK r \in 0..(M - 1) : r = (y - u) % M
  BY <1>2, Quotient
<1>4. PICK p \in Int : y - u = M * p + r
  BY <1>2, <1>3, Quotient
<1>5. y - x = M * p - M * q + r
  BY <1>1, <1>2, <1>4
<1>6. M * p - M * q = M * (p - q)
  OBVIOUS
<1>7. y - x = M * (p - q) + r
  BY <1>5, <1>6
<1>8. (y - x) % M = r
  BY <1>7, Remainder
<1> QED
  BY <1>2, <1>3, <1>8

LEMMA SmallRemainder ==
  /\ \A x \in 0..(Wrap - 1) : x % Wrap = x
  /\ \A x \in (-Wrap)..(-1) : x % Wrap = x + Wrap
  /\ \A x \in Wrap..(2 * Wrap - 1) : x % Wrap = x - Wrap
BY Constants, WrapLong

(* The elapsed time is measured right: a read that lags, but not back across *)
(* the wrap, gives the ticks since t less its lag, or none, wherever the     *)
(* counter has wrapped in between (rtc_delta_32k).                           *)
THEOREM ElapsedMeasured ==
  ASSUME Lag <= Tolerance, NEW t \in Ticks, NEW e \in Nat, e + Tolerance < Wrap,
         NEW l \in 0..Lag, l <= (t + e) % Wrap
  PROVE  rtc_delta_32k(((t + e) % Wrap) - l, t) = IF l <= e THEN e - l ELSE 0
<1>1. /\ t \in Nat /\ t < Wrap /\ Wrap \in Nat /\ l \in Nat /\ l <= Tolerance
      /\ Tolerance \in Nat
  BY Constants DEF Ticks
<1>2. CASE t + e < Wrap
  <2>1. (t + e) % Wrap = t + e
    BY <1>1, <1>2, SmallRemainder
  <2> QED
    BY <1>1, <1>2, <2>1 DEF rtc_delta_32k
<1>3. CASE t + e >= Wrap
  <2>1. (t + e) % Wrap = t + e - Wrap
    BY <1>1, <1>3, SmallRemainder
  <2> QED
    BY <1>1, <1>3, <2>1 DEF rtc_delta_32k
<1> QED
  BY <1>1, <1>2, <1>3
-----------------------------------------------------------------------------
(* A parked anchor.                                                          *)

LEMMA NetFits ==
  Interval * Desync \in Nat /\ Interval * Desync + 2 + Tolerance < Wrap
    /\ Interval <= Interval * Desync
<1>1. /\ Desync \in Nat /\ Interval \in Nat /\ Wrap \in Nat /\ Tolerance \in Nat
      /\ Patience \in Nat
      /\ Desync * Interval + Tolerance + 2 < Wrap /\ Patience + 4 < Desync
  BY HopAssumption
<1>2. PICK m \in Nat : m = Desync * Interval /\ m = Interval * Desync
  BY <1>1
<1>3. Interval <= m
  BY <1>1, <1>2
<1> QED
  BY <1>1, <1>2, <1>3

LEMMA ElapsedRange ==
  ASSUME now \in Ticks, hop_anchor \in Ticks
  PROVE  Elapsed \in 0..(Wrap - 1)
<1>1. now - hop_anchor \in Int
  BY Constants DEF Ticks
<1> QED
  BY <1>1, Modulo DEF Elapsed, Ticks

\* A tick adds one.
LEMMA ElapsedTick ==
  ASSUME now \in Ticks, hop_anchor \in Ticks, Elapsed + 1 < Wrap
  PROVE  (((now + 1) % Wrap) - hop_anchor) % Wrap = Elapsed + 1
<1>1. /\ Wrap \in Nat /\ 0 < Wrap /\ now \in Int /\ hop_anchor \in Int
  BY Constants, WrapLong DEF Ticks
<1>2. PICK x \in Int, y \in Int, z \in Int, o \in Int :
        x = now + 1 /\ y = -hop_anchor /\ z = now - hop_anchor /\ o = 1
  BY <1>1
<1>3. ((x % Wrap) + y) % Wrap = (x + y) % Wrap
  BY <1>1, ModuloSum
<1>4. ((z % Wrap) + o) % Wrap = (z + o) % Wrap
  BY <1>1, ModuloSum
<1>5. x + y = z + o
  BY <1>1, <1>2
<1>6. x % Wrap \in Int /\ (x % Wrap) + y = ((now + 1) % Wrap) - hop_anchor
  <2>1. x % Wrap \in Int
    BY <1>1, Quotient
  <2> QED
    BY <1>1, <1>2, <2>1
<1>7. Elapsed \in 0..(Wrap - 1)
  BY ElapsedRange
<1>8. (Elapsed + 1) % Wrap = Elapsed + 1
  BY <1>1, <1>7, SmallRemainder
<1> QED
  BY <1>2, <1>3, <1>4, <1>5, <1>6, <1>8 DEF Elapsed

\* Moving the anchor on takes an interval off.
LEMMA ElapsedPark ==
  ASSUME now \in Ticks, hop_anchor \in Ticks, Interval <= Elapsed
  PROVE  (now - rtc_add_32k(hop_anchor, Interval)) % Wrap = Elapsed - Interval
<1>1. /\ Wrap \in Nat /\ 0 < Wrap /\ now \in Int /\ hop_anchor \in Int
      /\ Interval \in Nat
  BY Constants, WrapLong DEF Ticks
<1>2. PICK a \in Int, z \in Int, m \in Int :
        a = hop_anchor + Interval /\ z = now - hop_anchor /\ m = -Interval
  BY <1>1
<1>3. (now - (a % Wrap)) % Wrap = (now - a) % Wrap
  BY <1>1, ModuloDifference
<1>4. ((z % Wrap) + m) % Wrap = (z + m) % Wrap
  BY <1>1, ModuloSum
<1>5. now - a = z + m
  BY <1>1, <1>2
<1>6. Elapsed \in 0..(Wrap - 1)
  BY ElapsedRange
<1>7. Elapsed + m = Elapsed - Interval /\ (Elapsed - Interval) % Wrap = Elapsed - Interval
  BY <1>1, <1>2, <1>6, SmallRemainder
<1> QED
  BY <1>2, <1>3, <1>4, <1>5, <1>7 DEF Elapsed, rtc_add_32k

\* A read that finds the interval over is right.
LEMMA ParkIsDue ==
  ASSUME ParkTiming, now \in Ticks, hop_anchor \in Ticks,
         Elapsed + Tolerance < Wrap, NEW r \in Reads,
         rtc_delta_32k(r, hop_anchor) > Interval
  PROVE  Elapsed > Interval
<1>1. /\ Wrap \in Nat /\ 0 < Wrap /\ now \in Nat /\ now < Wrap
      /\ hop_anchor \in Int /\ Interval \in Nat /\ Lag \in Nat
      /\ Elapsed \in 0..(Wrap - 1)
  BY Constants, WrapLong, ElapsedRange DEF Ticks
<1>2. PICK l \in 0..Lag : l <= now /\ r = (now - l) % Wrap
  BY DEF Reads, ParkTiming
<1>3. r = now - l
  BY <1>1, <1>2, SmallRemainder
<1>4. (hop_anchor + Elapsed) % Wrap = now
  <2>1. PICK z \in Int : z = now - hop_anchor
    BY <1>1
  <2>2. ((z % Wrap) + hop_anchor) % Wrap = (z + hop_anchor) % Wrap
    BY <1>1, ModuloSum
  <2>3. z + hop_anchor = now /\ now % Wrap = now
    BY <1>1, <2>1, SmallRemainder
  <2>4. (z % Wrap) + hop_anchor = hop_anchor + Elapsed
    BY <1>1, <2>1 DEF Elapsed
  <2> QED
    BY <2>2, <2>3, <2>4
<1>5. PICK e \in Nat : e = Elapsed
  BY <1>1
<1>6. rtc_delta_32k(now - l, hop_anchor) = IF l <= e THEN e - l ELSE 0
  <2>1. e + Tolerance < Wrap /\ l <= (hop_anchor + e) % Wrap /\ Lag <= Tolerance
    BY <1>2, <1>4, <1>5 DEF ParkTiming
  <2> QED
    BY <1>4, <1>5, <2>1, ElapsedMeasured
<1> QED
  BY <1>1, <1>2, <1>3, <1>5, <1>6

\* A session starts on the grid.
LEMMA SeedOnGrid ==
  ASSUME ParkTiming, now \in Ticks, NEW a \in Seeds
  PROVE  /\ (now - a) % Wrap \in 1..(Interval * Desync + 2)
         /\ \E k \in Nat :
              k * Interval + Backdate - ((now - a) % Wrap)
                \in (-SeedError)..SeedError
<1>1. /\ Wrap \in Nat /\ 0 < Wrap /\ now \in Int /\ Backdate \in Nat
      /\ 2 <= Backdate /\ Backdate + 1 < Interval /\ SeedError \in 0..1
      /\ Interval \in Nat /\ Backdate + 1 < Wrap
  BY Constants, WrapLong DEF Ticks, ParkTiming
<1>2. PICK e \in (-SeedError)..SeedError : a = (now - Backdate + e) % Wrap
  BY DEF Seeds
<1>3. PICK b \in Int : b = now - Backdate + e
  BY <1>1
<1>4. (now - (b % Wrap)) % Wrap = (now - b) % Wrap
  BY <1>1, ModuloDifference
<1>5. now - b = Backdate - e /\ (Backdate - e) % Wrap = Backdate - e
  BY <1>1, <1>3, SmallRemainder
<1>6. (now - a) % Wrap = Backdate - e
  BY <1>2, <1>3, <1>4, <1>5
<1>7. Backdate - e \in 1..(Interval * Desync + 2)
  BY <1>1, NetFits
<1>8. 0 * Interval + Backdate - (Backdate - e) \in (-SeedError)..SeedError
  BY <1>1
<1> QED
  BY <1>6, <1>7, <1>8
-----------------------------------------------------------------------------
\* Only time and the anchor's moves concern a parked anchor.
LEMMA ParkedKept ==
  ASSUME HopInv, UNCHANGED <<now, hop_anchor, age, steady, provisional>>,
         poll' = poll \/ (poll \in {"due", "heard"} /\ poll' \in {"heard", "missed"})
  PROVE  Parked'
<1>1. Elapsed' = Elapsed
  BY DEF Elapsed
<1>2. OnGrid' = OnGrid
  BY <1>1 DEF OnGrid
<1> QED
  BY <1>1, <1>2 DEF HopInv, Parked, gone

LEMMA HopInit == Init => HopInv
<1> SUFFICES ASSUME Init PROVE HopInv
  OBVIOUS
<1>1. now \in Ticks /\ hop_anchor \in Ticks
  BY SeedsAreTicks DEF Init
<1>2. 0 \in Ticks /\ 0 \in Indices /\ Backdate \in 0..Interval
      /\ 0 \in 0..Patience /\ 0 \in 0..DriftGap /\ 0 \in (-1)..(Patience + 1)
      /\ 0 \in 0..2
  BY Constants, WrapLong DEF Ticks, Indices
<1>3. TypeOK
  BY <1>1, <1>2, Types, Zenon DEF Init, Polls
<1>4. InSlot /\ Counts
  BY DEF Init, InSlot, Counts, Open
<1>5. Sweep
  BY Constants DEF Init, Sweep, Polled, Open, gone, Indices
<1>6. Parked
  <2> SUFFICES ASSUME ParkTiming PROVE Parked
    BY DEF Parked
  <2>1. OnGrid /\ Elapsed \in 1..(Interval * Desync + 2)
    BY <1>1, SeedOnGrid DEF Init, OnGrid, Elapsed
  <2>2. age < Interval /\ poll = "answered" /\ steady = 0
    BY Constants DEF Init
  <2> QED
    BY <2>1, <2>2 DEF Parked
<1> QED
  BY <1>3, <1>4, <1>5, <1>6 DEF HopInv

\* A session starts as the model does.
LEMMA EnterStep ==
  ASSUME HopInv, rf_enter_connected
  PROVE  HopInv'
<1>1. hop_anchor' \in Ticks /\ now' \in Ticks /\ retune' \in BOOLEAN
  BY SeedsAreTicks, Types, Zenon DEF rf_enter_connected, HopInv
<1>2. 0 \in Ticks /\ 0 \in Indices /\ Backdate \in 0..Interval
      /\ 0 \in 0..Patience /\ 0 \in 0..DriftGap /\ 0 \in (-1)..(Patience + 1)
      /\ 0 \in 0..2
  BY Constants, WrapLong DEF Ticks, Indices
<1>3. TypeOK'
  BY <1>1, <1>2, Zenon DEF rf_enter_connected, Polls, TypeOK, Ticks, Indices
<1>4. InSlot' /\ Counts'
  BY DEF rf_enter_connected, InSlot, Counts, Open
<1>5. Sweep'
  BY Constants DEF rf_enter_connected, Sweep, Polled, Open, gone, Indices
<1>6. Parked'
  <2> SUFFICES ASSUME ParkTiming PROVE Parked'
    BY DEF Parked
  <2>1. /\ now' = now /\ now \in Ticks /\ hop_anchor' \in Seeds
        /\ age' = Backdate /\ poll' = "answered" /\ steady' = 0
    BY Types DEF rf_enter_connected, HopInv
  <2>2. /\ (now - hop_anchor') % Wrap \in 1..(Interval * Desync + 2)
        /\ \E k \in Nat : k * Interval + Backdate - ((now - hop_anchor') % Wrap)
                           \in (-SeedError)..SeedError
    BY <2>1, SeedOnGrid
  <2>3. OnGrid' /\ Elapsed' \in 1..(Interval * Desync + 2)
    BY <2>1, <2>2 DEF OnGrid, Elapsed
  <2>4. age' < Interval
    BY <2>1, Constants
  <2> QED
    BY <2>1, <2>3, <2>4 DEF Parked
<1> QED
  BY <1>3, <1>4, <1>5, <1>6 DEF HopInv

\* RF_ConnectedTick moves the anchor, and the channel only of a keyboard that is
\* not parked.
LEMMA TickedStep ==
  ASSUME HopInv, RF_ConnectedTick
  PROVE  HopInv'
<1>1. UNCHANGED <<now, dongle, age, dongle_idx, poll, unanswered, steady, swept,
                  aligned, rf_channel, provisional>>
      /\ loop' \in {"again", "run"}
  BY DEF RF_ConnectedTick, Released, Blocked, keyboard, dongle
<1>2. /\ hop_anchor' \in Ticks /\ response_armed_rtc' \in Ticks
      /\ prev_data_idx' \in Indices /\ since_rx' \in 0..2
      /\ response_pending' \in BOOLEAN /\ retune' \in BOOLEAN
      /\ sent' \in BOOLEAN
      /\ provisional => prev_data_idx' = prev_data_idx
  <2>1. CASE Blocked
    BY <2>1, Types DEF Blocked, keyboard, HopInv
  <2>2. ASSUME NEW r \in Reads, Released(r),
               LET elapsed == rtc_delta_32k(r, hop_anchor)
               IN \/ Park(elapsed) \/ Reseed(elapsed, r) \/ Advance(elapsed)
                  \/ CaughtUp(elapsed)
        PROVE  /\ hop_anchor' \in Ticks /\ response_armed_rtc' \in Ticks
               /\ prev_data_idx' \in Indices /\ since_rx' \in 0..2
               /\ response_pending' \in BOOLEAN /\ retune' \in BOOLEAN
               /\ sent' \in BOOLEAN
               /\ provisional => prev_data_idx' = prev_data_idx
    <3>1. /\ response_pending' = FALSE /\ response_armed_rtc' = 0
          /\ sent' = FALSE /\ 0 \in Ticks /\ ~retune
      BY <2>2, WrapLong DEF Released
    <3>2. /\ r \in Ticks /\ hop_anchor \in Ticks /\ prev_data_idx \in Indices
          /\ since_rx \in 0..2
      BY ReadsAreTicks, Types DEF HopInv
    <3>3. PICK elapsed : elapsed = rtc_delta_32k(r, hop_anchor)
      OBVIOUS
    <3>4. elapsed \in Int
      BY <3>2, <3>3, WrapLong, Constants DEF rtc_delta_32k, Ticks
    <3>5. Park(elapsed) \/ Reseed(elapsed, r) \/ Advance(elapsed)
            \/ CaughtUp(elapsed)
      BY <2>2, <3>3
    <3>6. CASE Park(elapsed)
      <4>1. hop_anchor' \in Ticks
        BY <3>2, <3>6, OnCounter, Constants DEF Park
      <4> QED
        BY <3>1, <3>2, <3>6, <4>1 DEF Park
    <3>7. CASE Reseed(elapsed, r)
      <4>1. hop_anchor' \in Ticks
        BY <3>2, <3>7, OnCounter, Constants DEF Reseed
      <4> QED
        BY <3>1, <3>2, <3>7, <4>1 DEF Reseed
    <3>8. CASE Advance(elapsed)
      <4>1. PICK step \in Int :
              /\ \/ hop_anchor' = rtc_add_32k(hop_anchor, Interval * step)
                 \/ hop_anchor' =
                      rtc_backdate_32k(rtc_add_32k(hop_anchor, Interval * step), 1)
              /\ prev_data_idx' = (prev_data_idx + step) % Channels
              /\ since_rx' = IF since_rx < 2 THEN since_rx + 1 ELSE 2
        <5>1. elapsed \div Interval \in Int
          BY <3>4, Constants
        <5> DEFINE step == IF elapsed \div Interval > Channels THEN Channels
                           ELSE elapsed \div Interval
        <5>2. step \in Int
          BY <5>1, Constants
        <5> QED
          BY <3>8, <5>2 DEF Advance, StepBy
      <4>2. Interval * step \in Int /\ prev_data_idx + step \in Int
        BY <3>2, Constants DEF Indices
      <4>3. hop_anchor' \in Ticks
        BY <3>2, <4>1, <4>2, OnCounter
      <4>4. prev_data_idx' \in Indices
        BY <4>1, <4>2, Modulo
      <4>5. since_rx' \in 0..2
        BY <3>2, <4>1
      <4> QED
        BY <3>1, <3>2, <3>8, <4>3, <4>4, <4>5 DEF Advance
    <3>9. CASE CaughtUp(elapsed)
      <4>1. UNCHANGED <<hop_anchor, prev_data_idx, since_rx, retune>>
        BY <3>9 DEF CaughtUp
      <4>2. retune' \in BOOLEAN /\ response_pending' \in BOOLEAN /\ sent' \in BOOLEAN
        BY <3>1, <4>1, Types, Zenon DEF HopInv
      <4> QED
        BY <3>1, <3>2, <4>1, <4>2
    <3> QED
      BY <3>5, <3>6, <3>7, <3>8, <3>9
  <2> QED
    BY <2>1, <2>2 DEF RF_ConnectedTick
<1>3. TypeOK'
  BY <1>1, <1>2, Types, Zenon DEF HopInv, TypeOK, Ticks, Indices
<1>4. InSlot' /\ Counts'
  BY <1>1 DEF HopInv, InSlot, Counts, Open
<1>5. Sweep'
  BY <1>1, <1>2 DEF HopInv, Sweep, Polled, Open, gone
<1>6. Parked'
  <2>1. CASE hop_anchor' = hop_anchor
    BY <1>1, <2>1, ParkedKept
  <2>2. CASE hop_anchor' # hop_anchor
    <3> SUFFICES ASSUME ParkTiming, provisional, ~gone PROVE Parked'
      BY <1>1 DEF Parked, gone
    <3>1. PICK r \in Reads : Park(rtc_delta_32k(r, hop_anchor))
      BY <2>2 DEF RF_ConnectedTick, Blocked, keyboard, CaughtUp, Reseed, Advance
    <3>2. /\ rtc_delta_32k(r, hop_anchor) > Interval
          /\ hop_anchor' = rtc_add_32k(hop_anchor, Interval)
      BY <3>1 DEF Park
    <3>3. /\ age < Interval /\ age \in Nat /\ Interval \in Nat
          /\ Elapsed \in 1..(Interval * Desync + 2)
          /\ SeedError \in 0..1 /\ now \in Ticks /\ hop_anchor \in Ticks
      BY Types, Constants DEF HopInv, Parked, ParkTiming
    <3>4. PICK k \in Nat : k * Interval + age - Elapsed \in (-SeedError)..SeedError
      BY DEF HopInv, Parked, OnGrid
    <3>5. PICK m \in Nat : m = k * Interval
      BY <3>3
    <3>6. Elapsed > Interval
      BY <3>2, <3>3, NetFits, ParkIsDue, Constants
    <3>7. k # 0
      <4>1. k = 0 => m = 0
        BY <3>3, <3>5
      <4> QED
        BY <3>3, <3>4, <3>5, <3>6, <4>1
    <3>8. k - 1 \in Nat /\ (k - 1) * Interval = m - Interval
      BY <3>3, <3>5, <3>7
    <3>9. Elapsed' = Elapsed - Interval
      BY <1>1, <3>2, <3>3, <3>6, ElapsedPark DEF Elapsed
    <3>10. (k - 1) * Interval + age' - Elapsed' \in (-SeedError)..SeedError
      BY <1>1, <3>3, <3>4, <3>5, <3>8, <3>9
    <3>11. OnGrid'
      BY <3>8, <3>10 DEF OnGrid
    <3>12. Elapsed' \in 1..(Interval * Desync + 2)
      BY <3>3, <3>6, <3>9, NetFits
    <3> QED
      BY <1>1, <3>11, <3>12 DEF HopInv, Parked, gone
  <2> QED
    BY <2>1, <2>2
<1> QED
  BY <1>3, <1>4, <1>5, <1>6 DEF HopInv

\* A poll that a parked receiver's re-arm cuts off is cut off by an overdue pass.
LEMMA CutIsOverdue ==
  ASSUME HopInv, ParkTiming, provisional, poll = "heard"
  PROVE  Overdue
<1>1. /\ Lead <= age /\ age \in Nat /\ Interval \in Nat /\ Lead \in Nat
      /\ SeedError \in Nat
  BY Types, Constants DEF HopInv, InSlot
<1>2. Elapsed \in Int
  BY Types, ElapsedRange DEF HopInv
<1>3. PICK k \in Nat : k * Interval + age - Elapsed \in (-SeedError)..SeedError
  BY DEF HopInv, Parked, OnGrid, gone
<1>4. PICK m \in Nat : m = k * Interval
  BY <1>1
<1> QED
  BY <1>1, <1>2, <1>3, <1>4 DEF Overdue, Elapsed

\* Such a poll ends the count.
LEMMA StartRxStep ==
  ASSUME HopInv, rf_start_rx
  PROVE  HopInv'
<1>1. UNCHANGED <<now, hop_anchor, prev_data_idx, since_rx, provisional,
                  response_pending, response_armed_rtc, sent, age, dongle_idx,
                  unanswered, steady, loop, aligned>>
      /\ retune' = FALSE
  BY DEF rf_start_rx
<1>2. /\ rf_channel' \in {rf_channel, prev_data_idx}
      /\ \/ poll' = poll /\ swept' = swept
         \/ /\ poll = "heard" /\ poll' = "missed"
            /\ swept' = IF ~provisional \/ swept = -1 THEN swept
                        ELSE IF Overdue THEN -1 ELSE swept + 1
  BY Zenon DEF rf_start_rx
<1>3. TypeOK'
  <2>1. rf_channel' \in Indices /\ poll' \in Polls
    BY <1>2, Types DEF HopInv, Polls
  <2>2. swept' \in (-1)..(Patience + 1)
    BY <1>2, Types, Constants DEF HopInv, Counts, Open
  <2> QED
    BY <1>1, <2>1, <2>2, Types, Zenon DEF HopInv, TypeOK, Ticks, Indices
<1>4. InSlot'
  BY <1>1, <1>2 DEF HopInv, InSlot
<1>5. Counts'
  BY <1>1, <1>2, Types DEF HopInv, Counts, Open
<1>6. Sweep'
  BY <1>1, <1>2, CutIsOverdue DEF HopInv, Sweep, Polled, Open, gone
<1>7. Parked'
  BY <1>1, <1>2, ParkedKept
<1> QED
  BY <1>3, <1>4, <1>5, <1>6, <1>7 DEF HopInv

\* A poll that the parked keyboard does not meet was not on its channel.
LEMMA OnAirStep ==
  ASSUME HopInv, OnAir
  PROVE  HopInv'
<1>1. UNCHANGED <<now, keyboard, hop_anchor, prev_data_idx, since_rx, provisional,
                  response_pending, response_armed_rtc, rf_channel, retune, sent,
                  age, dongle_idx, unanswered, steady, loop, aligned>>
      /\ poll = "due" /\ age = Lead
  BY DEF OnAir, keyboard
<1>2. \/ poll' = "heard" /\ swept' = swept
      \/ /\ poll' = "missed"
         /\ swept' = IF ~provisional THEN 0
                     ELSE IF rf_channel = dongle_idx \/ swept = -1 THEN -1
                     ELSE swept + 1
  BY DEF OnAir
<1>3. /\ swept \in (-1)..(Patience + 1) /\ unanswered \in 0..Patience
      /\ rf_channel \in Indices /\ dongle_idx \in Indices
  BY Types DEF HopInv
<1>4. swept <= unanswered
  BY <1>1, <1>3 DEF HopInv, Counts, Open
<1>5. TypeOK'
  <2>1. swept' \in (-1)..(Patience + 1)
    BY <1>2, <1>3, <1>4, Constants
  <2>2. poll' \in Polls
    BY <1>2 DEF Polls
  <2> QED
    BY <1>1, <2>1, <2>2, Types, Zenon DEF HopInv, TypeOK, Ticks, Indices
<1>6. InSlot'
  BY <1>1, <1>2, Constants DEF InSlot
<1>7. Counts'
  BY <1>1, <1>2, <1>3, <1>4 DEF HopInv, Counts, Open
<1>8. Sweep'
  BY <1>1, <1>2, <1>3, Constants DEF HopInv, Sweep, Polled, Open, gone, Indices
<1>9. Parked'
  BY <1>1, <1>2, ParkedKept
<1> QED
  BY <1>5, <1>6, <1>7, <1>8, <1>9 DEF HopInv

LEMMA PollCallBackStep ==
  ASSUME HopInv, PollCallBack
  PROVE  HopInv'
<1>1. UNCHANGED <<now, prev_data_idx, rf_channel, retune, age, dongle_idx,
                  unanswered, steady, loop>>
      /\ since_rx' = 0 /\ provisional' = FALSE /\ response_pending' = TRUE
      /\ sent' = FALSE /\ poll' = "caught" /\ swept' = 0
  BY DEF PollCallBack
<1>2. hop_anchor' \in Ticks /\ response_armed_rtc' \in Ticks
  BY ServoOnCounter, ReadsAreTicks, Types DEF PollCallBack, HopInv
<1>3. aligned' \in BOOLEAN
  <2>1. ((now - hop_anchor) % Wrap <= Interval) \in BOOLEAN
    OBVIOUS
  <2>2. aligned \in BOOLEAN
    BY Types, Zenon DEF HopInv
  <2>3. \/ aligned' = ((now - hop_anchor) % Wrap <= Interval)
        \/ aligned' = aligned
    BY DEF PollCallBack
  <2> QED
    BY <2>1, <2>2, <2>3, Zenon
<1>4. TypeOK'
  <2>1. 0 \in (-1)..(Patience + 1) /\ 0 \in 0..2
    BY Constants
  <2> QED
    BY <1>1, <1>2, <1>3, <2>1, Types, Zenon DEF HopInv, TypeOK, Ticks, Indices, Polls
<1>5. InSlot' /\ Counts' /\ Sweep' /\ Parked'
  BY <1>1, Types DEF HopInv, InSlot, Counts, Open, Sweep, Parked
<1> QED
  BY <1>4, <1>5 DEF HopInv

LEMMA ResponseStep ==
  ASSUME HopInv, rf_do_response_tx \/ TxFinish
  PROVE  HopInv'
<1>1. UNCHANGED <<now, hop_anchor, prev_data_idx, since_rx, provisional,
                  rf_channel, retune, age, dongle_idx, unanswered, steady, swept,
                  loop, aligned>>
      /\ (poll' = poll \/ (poll = "caught" /\ poll' = "answered"))
  BY DEF rf_do_response_tx, TxFinish, dongle
<1>2. /\ response_pending' \in BOOLEAN /\ sent' \in BOOLEAN
      /\ response_armed_rtc' \in Ticks
  <2>1. 0 \in Ticks
    BY WrapLong
  <2> QED
    BY <2>1, Types, Zenon DEF rf_do_response_tx, TxFinish, HopInv
<1>3. TypeOK'
  BY <1>1, <1>2, Types, Zenon DEF HopInv, TypeOK, Ticks, Indices, Polls
<1>4. InSlot' /\ Counts' /\ Sweep'
  BY <1>1 DEF HopInv, InSlot, Counts, Open, Sweep, Polled, gone
<1>5. Parked'
  <2>1. CASE poll' = poll
    BY <1>1, <2>1, ParkedKept
  <2>2. CASE poll = "caught" /\ poll' = "answered"
    BY <1>1, <2>2 DEF HopInv, Parked, gone
  <2> QED
    BY <1>1, <2>1, <2>2
<1> QED
  BY <1>3, <1>4, <1>5 DEF HopInv

\* The dongle's next slot is on the next channel; the last poll was not open any
\* more.
LEMMA TickStep ==
  ASSUME HopInv, Tick
  PROVE  HopInv'
<1>1. UNCHANGED <<keyboard, hop_anchor, prev_data_idx, since_rx, provisional,
                  response_pending, response_armed_rtc, rf_channel, retune, sent,
                  aligned>>
      /\ ~(poll = "due" /\ age = Lead) /\ ~(poll = "heard" /\ age = Backdate)
      /\ now' = (now + 1) % Wrap
  BY DEF Tick, keyboard
<1>2. now' \in Ticks
  <2>1. now + 1 \in Int
    BY Types DEF HopInv, Ticks
  <2> QED
    BY <1>1, <2>1, Modulo
<1>3. /\ age \in Nat /\ age <= Interval
      /\ swept \in (-1)..(Patience + 1) /\ unanswered \in 0..Patience
      /\ rf_channel \in Indices /\ dongle_idx \in Indices
      /\ steady \in 0..DriftGap /\ poll \in Polls
  BY Types DEF HopInv
<1>4. CASE gone /\ UNCHANGED <<dongle, loop>>
  <2>1. UNCHANGED <<age, dongle_idx, poll, unanswered, steady, swept, loop>>
    BY <1>4 DEF dongle
  <2>2. TypeOK'
    BY <1>1, <1>2, <2>1, Types, Zenon DEF HopInv, TypeOK, Ticks, Indices
  <2>3. InSlot' /\ Counts' /\ Sweep'
    BY <1>1, <2>1 DEF HopInv, InSlot, Counts, Open, Sweep, Polled, gone
  <2>4. Parked'
    BY <1>4, <2>1 DEF Parked, gone
  <2> QED
    BY <2>2, <2>3, <2>4 DEF HopInv
<1>5. ASSUME ParkTiming, provisional, ~gone
      PROVE  /\ Elapsed' = Elapsed + 1 /\ Elapsed' \in 1..(Interval * Desync + 2)
             /\ age < Interval /\ steady <= 1 /\ steady # DriftGap
             /\ poll # "caught" /\ (poll = "answered" => steady = 0)
  <2>1. /\ Elapsed \in 1..(Interval * Desync + 2)
        /\ age < Interval /\ steady <= IF poll = "answered" THEN 0 ELSE 1
        /\ poll # "caught"
    BY <1>5 DEF HopInv, Parked
  <2>2. Elapsed # Interval * Desync + 2
    BY DEF Tick, Stalled, Elapsed
  <2>3. Elapsed + 1 \in 1..(Interval * Desync + 2) /\ Elapsed + 1 < Wrap
    BY <2>1, <2>2, NetFits, Constants
  <2>4. Elapsed' = Elapsed + 1
    BY <1>1, <2>3, ElapsedTick, Types DEF HopInv, Elapsed
  <2> QED
    BY <1>5, <1>3, <2>1, <2>3, <2>4, Constants DEF ParkTiming
<1>6. CASE /\ ~gone /\ age < IF steady = DriftGap THEN Interval ELSE Interval - 1
           /\ age' = age + 1
           /\ UNCHANGED <<dongle_idx, poll, unanswered, steady, swept, loop>>
  <2>1. age' \in 0..Interval
    BY <1>3, <1>6, Constants
  <2>2. TypeOK'
    BY <1>1, <1>2, <1>6, <2>1, Types, Zenon DEF HopInv, TypeOK, Ticks, Indices
  <2>3. InSlot'
    BY <1>1, <1>3, <1>6, Constants DEF HopInv, InSlot
  <2>4. Counts' /\ Sweep'
    BY <1>1, <1>6 DEF HopInv, Counts, Open, Sweep, Polled, gone
  <2>5. Parked'
    <3> SUFFICES ASSUME ParkTiming, provisional PROVE Parked'
      BY <1>1 DEF Parked
    <3>1. PICK k \in Nat : k * Interval + age - Elapsed \in (-SeedError)..SeedError
      BY <1>6 DEF HopInv, Parked, OnGrid
    <3>2. PICK m \in Nat : m = k * Interval
      BY Constants
    <3>3. Elapsed' = Elapsed + 1 /\ Elapsed \in Int /\ SeedError \in Nat
      BY <1>5, <1>6, Constants, ElapsedRange, Types DEF HopInv
    <3>4. k * Interval + age' - Elapsed' \in (-SeedError)..SeedError
      BY <1>3, <1>6, <3>1, <3>2, <3>3
    <3>5. OnGrid'
      BY <3>4 DEF OnGrid
    <3>6. age' < Interval
      BY <1>5, <1>3, <1>6, Constants
    <3>7. poll' # "caught" /\ steady' <= IF poll' = "answered" THEN 0 ELSE 1
      BY <1>5, <1>3, <1>6
    <3> QED
      BY <1>5, <1>6, <3>5, <3>6, <3>7 DEF Parked
  <2> QED
    BY <2>2, <2>3, <2>4, <2>5 DEF HopInv
<1>7. ASSUME NEW drift \in BOOLEAN, NextSlot(drift), ~gone, age >= Interval - 2,
             ~drift => age = Interval - 1
      PROVE  HopInv'
  <2>1. poll \notin {"due", "heard", "none"}
    BY <1>1, <1>3, <1>7, Constants DEF HopInv, InSlot, gone
  <2>2. PICK missed : missed = IF poll = "answered" THEN 0 ELSE unanswered + 1
    OBVIOUS
  <2>3. /\ age' = 0 /\ loop' \in {"due", "stalled"}
        /\ steady' \in 0..DriftGap
    BY <1>3, <1>7, Constants DEF NextSlot
  <2>4. \/ /\ missed > Patience /\ poll' = "none" /\ dongle_idx' = 0
           /\ unanswered' = 0 /\ swept' = 0
        \/ /\ ~(missed > Patience) /\ poll' = "due"
           /\ dongle_idx' = (dongle_idx + 1) % Channels
           /\ unanswered' = missed /\ swept' = swept
    BY <1>7, <2>2 DEF NextSlot
  <2>5. missed \in Nat /\ swept <= missed
    BY <1>3, <2>1, <2>2 DEF HopInv, Counts, Open
  <2>6. TypeOK'
    <3>1. /\ unanswered' \in 0..Patience /\ swept' \in (-1)..(Patience + 1)
          /\ age' \in 0..Interval
      BY <1>3, <2>3, <2>4, <2>5, Constants
    <3>2. dongle_idx' \in Indices
      BY <1>3, <2>4, Modulo, Constants DEF Indices
    <3>3. poll' \in Polls
      BY <2>4 DEF Polls
    <3> QED
      BY <1>1, <1>2, <2>3, <3>1, <3>2, <3>3, Types, Zenon
         DEF HopInv, TypeOK, Ticks, Indices
  <2>7. InSlot'
    BY <2>3, <2>4, Constants DEF InSlot
  <2>8. Counts'
    BY <1>1, <2>4, <2>5 DEF HopInv, Counts, Open
  <2>9. Sweep'
    <3>1. CASE poll' = "none"
      BY <1>1, <3>1 DEF HopInv, Sweep, gone
    <3>2. CASE poll' = "due"
      <4> SUFFICES ASSUME ParkTiming, provisional, swept >= 0
                   PROVE  /\ dongle_idx' = IF Polled' = Channels THEN 0 ELSE Polled'
                          /\ swept < IF rf_channel = 0 THEN Channels ELSE rf_channel
        BY <1>1, <2>4, <3>2 DEF HopInv, Sweep, gone
      <4>1. /\ swept < IF rf_channel = 0 THEN Channels ELSE rf_channel
            /\ dongle_idx = IF Polled = Channels THEN 0 ELSE Polled
        BY <1>7 DEF HopInv, Sweep
      <4>2. Polled = swept /\ Polled' = swept + 1
        BY <1>3, <2>1, <2>4, <3>2 DEF Polled, Open
      <4>3. dongle_idx = swept
        BY <1>3, <4>1, <4>2 DEF Indices
      <4>4. (dongle_idx + 1) % Channels =
              IF dongle_idx + 1 = Channels THEN 0 ELSE dongle_idx + 1
        BY <1>3, Successor
      <4> QED
        BY <2>4, <3>2, <4>1, <4>2, <4>3, <4>4
    <3> QED
      BY <2>4, <3>1, <3>2
  <2>10. Parked'
    <3> SUFFICES ASSUME ParkTiming, provisional PROVE Parked'
      BY <1>1 DEF Parked
    <3>1. PICK k \in Nat : k * Interval + age - Elapsed \in (-SeedError)..SeedError
      BY <1>7 DEF HopInv, Parked, OnGrid
    <3>2. PICK m \in Nat : m = k * Interval
      BY Constants
    <3>3. Elapsed' = Elapsed + 1 /\ Elapsed \in Int /\ SeedError \in Nat
      BY <1>5, <1>7, Constants, ElapsedRange, Types DEF HopInv
    <3>4. k + 1 \in Nat /\ (k + 1) * Interval = m + Interval
      BY <3>2, Constants
    <3>5. ~drift
      BY <1>5, <1>7 DEF NextSlot
    <3>6. (k + 1) * Interval + age' - Elapsed' \in (-SeedError)..SeedError
      BY <1>3, <1>7, <2>3, <3>1, <3>2, <3>3, <3>4, <3>5, Constants
    <3>7. OnGrid'
      BY <3>4, <3>6 DEF OnGrid
    <3>8. /\ age' < Interval /\ poll' \in {"due", "none"}
          /\ steady' <= 1
      BY <1>5, <1>3, <1>7, <2>3, <2>4, Constants DEF NextSlot, ParkTiming
    <3> QED
      BY <1>5, <1>7, <3>7, <3>8 DEF Parked
  <2> QED
    BY <2>6, <2>7, <2>8, <2>9, <2>10 DEF HopInv
<1> QED
  <2>1. CASE ~gone /\ age = Interval - 2 /\ NextSlot(TRUE)
    <3>1. age >= Interval - 2
      BY <2>1, Constants
    <3> QED
      BY <1>7, <2>1, <3>1, Zenon
  <2>2. CASE ~gone /\ age = Interval - 1 /\ NextSlot(FALSE)
    <3>1. age >= Interval - 2
      BY <2>2, Constants
    <3> QED
      BY <1>7, <2>2, <3>1, Zenon
  <2>3. CASE ~gone /\ age = Interval /\ NextSlot(TRUE)
    <3>1. age >= Interval - 2
      BY <2>3, Constants
    <3> QED
      BY <1>7, <2>3, <3>1, Zenon
  <2> QED
    BY <1>4, <1>6, <2>1, <2>2, <2>3 DEF Tick

LEMMA HopStep == HopInv /\ [Next]_vars => HopInv'
<1> SUFFICES ASSUME HopInv, [Next]_vars PROVE HopInv'
  OBVIOUS
<1>1. CASE UNCHANGED vars
  <2>1. UNCHANGED <<now, hop_anchor, prev_data_idx, since_rx, provisional,
                    response_pending, response_armed_rtc, rf_channel, retune,
                    sent, age, dongle_idx, poll, unanswered, steady, swept, loop,
                    aligned>>
    BY <1>1 DEF vars, keyboard, dongle
  <2>2. TypeOK'
    BY <2>1, Zenon DEF HopInv, TypeOK, Ticks, Indices
  <2>3. InSlot' /\ Counts' /\ Sweep'
    BY <2>1 DEF HopInv, InSlot, Counts, Open, Sweep, Polled, gone
  <2>4. Parked'
    BY <2>1, ParkedKept
  <2> QED
    BY <2>2, <2>3, <2>4 DEF HopInv
<1> QED
  BY <1>1, EnterStep, TickedStep, StartRxStep, OnAirStep, PollCallBackStep,
     ResponseStep, TickStep DEF Next

(* The types of the hop, for every timing (rf_task.c).                       *)
THEOREM HopTypes == Spec => []TypeOK
<1>1. HopInv => TypeOK
  BY DEF HopInv
<1> QED
  BY <1>1, HopInit, HopStep, PTL DEF Spec

(* A parked keyboard meets the sweeping dongle within one sweep, whatever    *)
(* channel it parked on and however many there are, unless the air loses the *)
(* poll on its channel or the park's re-arm of an overdue pass cuts it off:  *)
(* a re-arm in time never does, where the timing is ParkTiming's (rf_task.c, *)
(* the provisional branch of RF_ConnectedTick).                              *)
THEOREM MeetsInOneSweepAlways ==
  ASSUME ParkTiming
  PROVE  Spec => []MeetsInOneSweep
<1>1. HopInv => MeetsInOneSweep
  <2> SUFFICES ASSUME HopInv, provisional PROVE swept < Channels
    BY DEF MeetsInOneSweep
  <2>1. swept \in Int /\ rf_channel \in Indices
    BY Types DEF HopInv
  <2>2. CASE gone
    BY <2>2, Constants DEF HopInv, Counts, gone
  <2>3. CASE ~gone
    BY <2>1, <2>3, Constants DEF HopInv, Sweep, Indices
  <2> QED
    BY <2>2, <2>3
<1> QED
  BY <1>1, HopInit, HopStep, PTL DEF Spec
-----------------------------------------------------------------------------
(* Staying in step.                                                          *)

\* The signed error depends on the difference of its arguments alone.
Signed(d) == IF d <= Wrap \div 2 THEN d ELSE -(Wrap - d)

LEMMA SignedDelta ==
  ASSUME NEW ref \in Ticks, NEW a \in Ticks
  PROVE  rtc_signed_delta_32k(ref, a) = Signed((ref - a) % Wrap)
<1>1. (ref - a) % Wrap = IF ref >= a THEN ref - a ELSE Wrap - a + ref
  <2>1. CASE ref >= a
    <3>1. ref - a \in 0..(Wrap - 1)
      BY <2>1, Constants DEF Ticks
    <3> QED
      BY <2>1, <3>1, SmallRemainder
  <2>2. CASE ref < a
    <3>1. ref - a \in (-Wrap)..(-1)
      BY <2>2, Constants DEF Ticks
    <3> QED
      BY <2>2, <3>1, SmallRemainder, Constants DEF Ticks
  <2> QED
    BY <2>1, <2>2 DEF Ticks
<1> QED
  BY <1>1 DEF rtc_signed_delta_32k, Signed

\* Both arguments may move together.
LEMMA SignedShift ==
  ASSUME NEW x \in Int, NEW a \in Int, NEW y \in Int
  PROVE  rtc_signed_delta_32k((x + y) % Wrap, (a + y) % Wrap) =
         rtc_signed_delta_32k(x % Wrap, a % Wrap)
<1>1. ASSUME NEW u \in Int, NEW v \in Int
      PROVE  /\ u % Wrap \in Ticks
             /\ ((u % Wrap) - (v % Wrap)) % Wrap = (u - v) % Wrap
  <2>1. PICK p \in Int : p = v % Wrap
    BY Quotient, Constants, WrapLong
  <2>2. ((u % Wrap) + (-p)) % Wrap = (u + (-p)) % Wrap
    <3>1. PICK m \in Int : m = -p
      OBVIOUS
    <3>2. ((u % Wrap) + m) % Wrap = (u + m) % Wrap
      BY ModuloSum, Constants, WrapLong
    <3> QED
      BY <3>1, <3>2
  <2>3. (u - p) % Wrap = (u - v) % Wrap
    BY <2>1, ModuloDifference, Constants, WrapLong
  <2>4. u % Wrap \in Ticks
    BY Modulo
  <2>5. (u % Wrap) + (-p) = (u % Wrap) - p /\ u + (-p) = u - p
    BY <2>4, Constants DEF Ticks
  <2> QED
    BY <2>1, <2>2, <2>3, <2>4, <2>5
<1>2. (x + y) - (a + y) = x - a
  OBVIOUS
<1>3. rtc_signed_delta_32k((x + y) % Wrap, (a + y) % Wrap) =
        Signed((x - a) % Wrap)
  BY <1>1, <1>2, SignedDelta
<1>4. rtc_signed_delta_32k(x % Wrap, a % Wrap) = Signed((x - a) % Wrap)
  BY <1>1, SignedDelta
<1> QED
  BY <1>3, <1>4

(* The servo closes in on the poll from either side, a tick at a time, and   *)
(* leaves an error within the deadband alone, across the wrap too            *)
(* (hop_servo).                                                              *)
THEOREM ServoApproaches ==
  ASSUME hop_anchor \in Ticks, NEW ref \in Ticks, NEW err,
         err = rtc_signed_delta_32k(ref, hop_anchor)
  PROVE  rtc_signed_delta_32k(ref, hop_servo(ref)) =
           IF err > SERVO_DEADBAND THEN err - 1
           ELSE IF err < -SERVO_DEADBAND THEN err + 1
           ELSE err
<1>1. /\ Wrap \in Nat /\ 2 < Wrap /\ ref \in Nat /\ ref < Wrap
      /\ hop_anchor \in Nat /\ hop_anchor < Wrap
  BY Constants, WrapLong DEF Ticks
<1>2. PICK h \in Int : h = Wrap \div 2 /\ 1 <= h /\ h < Wrap
  BY <1>1
<1>3. \A a \in Ticks :
        rtc_signed_delta_32k(ref, a) =
          LET fwd == IF ref >= a THEN ref - a ELSE Wrap - a + ref
          IN IF fwd <= h THEN fwd ELSE -(Wrap - fwd)
  BY <1>2 DEF rtc_signed_delta_32k
<1>4. CASE err > 1
  <2>1. hop_servo(ref) = (hop_anchor + 1) % Wrap
    BY <1>4 DEF hop_servo, SERVO_DEADBAND, rtc_add_32k
  <2>2. (hop_anchor + 1) % Wrap =
          IF hop_anchor + 1 = Wrap THEN 0 ELSE hop_anchor + 1
    BY <1>1, SmallRemainder
  <2>3. hop_servo(ref) \in Ticks
    BY <1>1, <2>1, <2>2 DEF Ticks
  <2> QED
    BY <1>1, <1>2, <1>3, <1>4, <2>1, <2>2, <2>3 DEF SERVO_DEADBAND
<1>5. CASE err < -1
  <2>1. hop_servo(ref) = IF hop_anchor >= 1 THEN hop_anchor - 1
                         ELSE Wrap - (1 - hop_anchor)
    <3>1. err \in Int
      BY <1>1, <1>2, <1>3
    <3>2. ~(err > 1)
      BY <1>5, <3>1
    <3> QED
      BY <1>5, <3>2 DEF hop_servo, SERVO_DEADBAND, rtc_backdate_32k
  <2>2. hop_servo(ref) \in Ticks
    BY <1>1, <2>1 DEF Ticks
  <2> QED
    BY <1>1, <1>2, <1>3, <1>5, <2>1, <2>2 DEF SERVO_DEADBAND
<1>6. CASE ~(err > 1) /\ ~(err < -1)
  BY <1>6 DEF hop_servo, SERVO_DEADBAND
<1> QED
  BY <1>4, <1>5, <1>6

\* An anchor put back by a tick.
LEMMA SignedBack ==
  ASSUME NEW ref \in Ticks, NEW a \in Ticks, NEW err,
         err = rtc_signed_delta_32k(ref, a), err < Wrap \div 2
  PROVE  rtc_signed_delta_32k(ref, rtc_backdate_32k(a, 1)) = err + 1
<1>1. /\ Wrap \in Nat /\ 2 < Wrap /\ ref \in Nat /\ ref < Wrap
      /\ a \in Nat /\ a < Wrap
  BY Constants, WrapLong DEF Ticks
<1>2. PICK h \in Int : h = Wrap \div 2 /\ 1 <= h /\ h < Wrap
  BY <1>1
<1>3. \A b \in Ticks :
        rtc_signed_delta_32k(ref, b) =
          LET fwd == IF ref >= b THEN ref - b ELSE Wrap - b + ref
          IN IF fwd <= h THEN fwd ELSE -(Wrap - fwd)
  BY <1>2 DEF rtc_signed_delta_32k
<1>4. PICK b \in Ticks : b = IF a >= 1 THEN a - 1 ELSE Wrap - (1 - a)
  BY <1>1 DEF Ticks
<1>5. rtc_backdate_32k(a, 1) = b
  BY <1>4 DEF rtc_backdate_32k
<1> QED
  BY <1>1, <1>2, <1>3, <1>4, <1>5

\* InStepAfter(n) says OnIndex(n) and bounds Phase(n).
Phase(n) == rtc_signed_delta_32k((now - age - n * Interval) % Wrap, hop_anchor)
OnIndex(n) == dongle_idx = (prev_data_idx + n) % Channels

(* The hop moves the index and the anchor together: a keyboard that was n    *)
(* hops short of the dongle is n - s short after a hop of s slots, with the  *)
(* same phase error, or one tick more where the tick is rolled back, for     *)
(* any elapsed time, a step clamped to the channels and the wrap included    *)
(* (RF_ConnectedTick, the hop proper).                                       *)
THEOREM HopKeepsStep ==
  ASSUME TypeOK, NEW elapsed \in Nat, Advance(elapsed), UNCHANGED <<now, dongle>>,
         NEW n \in Int, OnIndex(n), Phase(n) < Wrap \div 2
  PROVE  \E s \in 1..Channels :
           OnIndex(n - s)' /\ Phase(n - s)' \in {Phase(n), Phase(n) + 1}
<1>1. /\ now \in Int /\ age \in Int /\ hop_anchor \in Ticks
      /\ prev_data_idx \in Int /\ Interval \in Nat /\ Interval > 0
      /\ Channels \in Nat /\ 1 < Channels /\ Wrap \in Nat /\ 0 < Wrap
  BY Types, Constants, WrapLong DEF Ticks, Indices
<1>2. PICK full \in Int : full = elapsed \div Interval /\ full >= 1
  <2>1. elapsed > Interval
    BY DEF Advance
  <2>2. elapsed \div Interval \in Int /\ elapsed \div Interval >= 1
    BY <1>1, <2>1
  <2> QED
    BY <2>2
<1>3. PICK s \in 1..Channels : s = IF full > Channels THEN Channels ELSE full
  BY <1>1, <1>2
<1>4. PICK y \in Int : y = Interval * s
  BY <1>1
<1>5. PICK b : b = rtc_add_32k(hop_anchor, y)
  OBVIOUS
<1>6. /\ hop_anchor' \in {b, rtc_backdate_32k(b, 1)}
      /\ prev_data_idx' = (prev_data_idx + s) % Channels
      /\ UNCHANGED <<now, age, dongle_idx>>
  BY <1>2, <1>3, <1>4, <1>5 DEF Advance, StepBy, dongle
<1>7. OnIndex(n - s)'
  <2>1. PICK k \in Int : k = n - s
    BY <1>1
  <2>2. PICK j \in Int : j = prev_data_idx + s
    BY <1>1
  <2>3. ((j % Channels) + k) % Channels = (j + k) % Channels
    <3>1. 0 < Channels
      BY <1>1
    <3> QED
      BY <1>1, <3>1, ModuloSum
  <2>4. j + k = prev_data_idx + n
    BY <1>1, <2>1, <2>2
  <2> QED
    BY <1>6, <2>1, <2>2, <2>3, <2>4 DEF OnIndex
<1>8. PICK x \in Int : x = now - age - n * Interval
  BY <1>1
<1>9. now - age - (n - s) * Interval = x + y
  <2>1. (n - s) * Interval = n * Interval - Interval * s
    BY <1>1
  <2> QED
    BY <1>1, <1>4, <1>8, <2>1
<1>10. /\ b \in Ticks /\ (x + y) % Wrap \in Ticks
       /\ rtc_signed_delta_32k((x + y) % Wrap, b) = Phase(n)
  <2>1. b = (hop_anchor + y) % Wrap
    BY <1>5 DEF rtc_add_32k
  <2>2. hop_anchor \in Int /\ hop_anchor % Wrap = hop_anchor
    BY <1>1, SmallRemainder DEF Ticks
  <2>3. rtc_signed_delta_32k((x + y) % Wrap, (hop_anchor + y) % Wrap) =
          rtc_signed_delta_32k(x % Wrap, hop_anchor % Wrap)
    BY <2>2, SignedShift
  <2>4. hop_anchor + y \in Int /\ x + y \in Int
    BY <2>2
  <2> QED
    BY <1>8, <2>1, <2>2, <2>3, <2>4, Modulo DEF Phase
<1>11. Phase(n - s)' = rtc_signed_delta_32k((x + y) % Wrap, hop_anchor')
  BY <1>6, <1>9 DEF Phase, rtc_signed_delta_32k
<1>12. Phase(n - s)' \in {Phase(n), Phase(n) + 1}
  <2>1. CASE hop_anchor' = b
    BY <1>10, <1>11, <2>1
  <2>2. CASE hop_anchor' = rtc_backdate_32k(b, 1)
    BY <1>10, <1>11, <2>2, SignedBack
  <2> QED
    BY <1>6, <2>1, <2>2
<1> QED
  BY <1>7, <1>12

\* A reference that comes a tick earlier or later.
LEMMA SignedNudge ==
  ASSUME NEW x \in Int, NEW a \in Ticks, NEW d \in {-1, 0, 1}, NEW err,
         err = rtc_signed_delta_32k(x % Wrap, a),
         1 - err < Wrap \div 2, err < Wrap \div 2
  PROVE  rtc_signed_delta_32k((x + d) % Wrap, a) = err + d
<1>1. PICK r \in Ticks : r = x % Wrap
  BY Modulo
<1>2. (r + d) % Wrap = (x + d) % Wrap
  <2>1. PICK k \in Int : k = d
    OBVIOUS
  <2>2. ((x % Wrap) + k) % Wrap = (x + k) % Wrap
    BY ModuloSum, Constants, WrapLong
  <2> QED
    BY <1>1, <2>1, <2>2
<1>3. /\ Wrap \in Nat /\ 2 < Wrap /\ r \in Nat /\ r < Wrap
      /\ a \in Nat /\ a < Wrap
  BY <1>1, Constants, WrapLong DEF Ticks
<1>4. PICK h \in Int :
        h = Wrap \div 2 /\ 1 <= h /\ 2 * h <= Wrap /\ Wrap <= 2 * h + 1
  BY <1>3
<1>5. \A b \in Ticks :
        rtc_signed_delta_32k(b, a) =
          LET fwd == IF b >= a THEN b - a ELSE Wrap - a + b
          IN IF fwd <= h THEN fwd ELSE -(Wrap - fwd)
  BY <1>4 DEF rtc_signed_delta_32k
<1>6. PICK b \in Ticks :
        b = IF r + d = Wrap THEN 0 ELSE IF r + d = -1 THEN Wrap - 1 ELSE r + d
  BY <1>3 DEF Ticks
<1>7. (r + d) % Wrap = b
  <2>1. CASE r + d = Wrap
    BY <1>3, <1>6, <2>1, SmallRemainder
  <2>2. CASE r + d = -1
    BY <1>3, <1>6, <2>2, SmallRemainder
  <2>3. CASE r + d \in 0..(Wrap - 1)
    BY <1>3, <1>6, <2>3, SmallRemainder
  <2> QED
    BY <1>3, <2>1, <2>2, <2>3
<1>8. rtc_signed_delta_32k(b, a) = err + d
  <2>1. err = LET fwd == IF r >= a THEN r - a ELSE Wrap - a + r
              IN IF fwd <= h THEN fwd ELSE -(Wrap - fwd)
    BY <1>1, <1>5
  <2>2. 1 - err < h /\ err < h
    BY <1>4
  <2> QED
    BY <1>3, <1>4, <1>5, <1>6, <2>1, <2>2
<1> QED
  BY <1>2, <1>7, <1>8

(* Time keeps the keyboard as many hops short and as late as it was, and a   *)
(* new slot of the dongle puts it one more hop short, with the phase error   *)
(* changed by no more than that slot's drift, a tick (NextSlot; the model of *)
(* the dongle that RF_ConnectedTick follows).                                *)
THEOREM TickKeepsStep ==
  ASSUME TypeOK, Tick, ~gone, poll' # "none", NEW n \in Int, OnIndex(n),
         1 - Phase(n) < Wrap \div 2, Phase(n) < Wrap \div 2
  PROVE  \/ OnIndex(n)' /\ Phase(n)' = Phase(n)
         \/ OnIndex(n + 1)' /\ Phase(n + 1)' - Phase(n) \in {-1, 0, 1}
<1>1. /\ now \in Int /\ age \in Int /\ hop_anchor \in Ticks
      /\ dongle_idx \in Indices /\ prev_data_idx \in Int /\ Interval \in Nat
      /\ Channels \in Nat /\ 0 < Channels /\ Wrap \in Nat /\ 0 < Wrap
  BY Types, Constants, WrapLong DEF Ticks, Indices
<1>2. now' = (now + 1) % Wrap /\ UNCHANGED <<hop_anchor, prev_data_idx>>
  BY DEF Tick, keyboard
<1>3. PICK m \in Int : m = n * Interval
  BY <1>1
<1>4. \A z \in Int : (now' - z) % Wrap = (now + 1 - z) % Wrap
  <2> TAKE z \in Int
  <2>1. PICK k \in Int : k = -z
    OBVIOUS
  <2>2. (((now + 1) % Wrap) + k) % Wrap = (now + 1 + k) % Wrap
    <3>1. PICK j \in Int : j = now + 1
      BY <1>1
    <3>2. ((j % Wrap) + k) % Wrap = (j + k) % Wrap
      BY <1>1, ModuloSum
    <3> QED
      BY <3>1, <3>2
  <2>3. (now + 1) % Wrap \in Int
    BY <1>1, Quotient
  <2>4. ((now + 1) % Wrap) + k = now' - z /\ now + 1 + k = now + 1 - z
    BY <1>1, <1>2, <2>1, <2>3
  <2> QED
    BY <2>2, <2>4
<1>5. Phase(n) = rtc_signed_delta_32k((now - age - m) % Wrap, hop_anchor)
  BY <1>3 DEF Phase
<1>6. CASE age' = age + 1 /\ dongle_idx' = dongle_idx
  <2>1. now' \in Int
    BY <1>1, <1>2, Quotient
  <2>2. /\ now' - age' - m = now' - (age + 1 + m)
        /\ now + 1 - (age + 1 + m) = now - age - m
    BY <1>1, <1>6, <2>1
  <2>3. (now' - age' - m) % Wrap = (now - age - m) % Wrap
    BY <1>1, <1>4, <2>2
  <2>4. Phase(n)' = Phase(n)
    BY <1>2, <1>3, <1>5, <2>3 DEF Phase, rtc_signed_delta_32k
  <2>5. OnIndex(n)'
    BY <1>2, <1>6 DEF OnIndex
  <2> QED
    BY <2>4, <2>5
<1>7. CASE /\ age' = 0 /\ dongle_idx' = (dongle_idx + 1) % Channels
           /\ age - (Interval - 1) \in {-1, 0, 1}
  <2>1. now' \in Int
    BY <1>1, <1>2, Quotient
  <2>2. PICK d \in {-1, 0, 1} : d = age - (Interval - 1)
    BY <1>7
  <2>3. (n + 1) * Interval = m + Interval
    BY <1>1, <1>3
  <2>4. /\ now' - age' - (n + 1) * Interval = now' - (m + Interval)
        /\ now + 1 - (m + Interval) = (now - age - m) + d
    BY <1>1, <1>7, <2>1, <2>2, <2>3
  <2>5. (now' - age' - (n + 1) * Interval) % Wrap = ((now - age - m) + d) % Wrap
    <3>1. m + Interval \in Int
      BY <1>1
    <3>2. (now' - (m + Interval)) % Wrap = (now + 1 - (m + Interval)) % Wrap
      BY <1>4, <3>1
    <3> QED
      BY <2>4, <3>2
  <2>6. PICK x \in Int : x = now - age - m
    BY <1>1
  <2>7. rtc_signed_delta_32k((x + d) % Wrap, hop_anchor) = Phase(n) + d
    BY <1>1, <1>5, <2>6, SignedNudge
  <2>8. Phase(n + 1)' = Phase(n) + d
    BY <1>2, <2>5, <2>6, <2>7 DEF Phase, rtc_signed_delta_32k
  <2>9. Phase(n) \in Int
    BY <1>1, <1>5, Modulo DEF rtc_signed_delta_32k, Ticks
  <2>10. OnIndex(n + 1)'
    <3>1. PICK k \in Int : k = prev_data_idx + n
      BY <1>1
    <3>2. ((k % Channels) + 1) % Channels = (k + 1) % Channels
      <4>1. PICK o \in Int : o = 1
        OBVIOUS
      <4>2. ((k % Channels) + o) % Channels = (k + o) % Channels
        BY <1>1, ModuloSum
      <4> QED
        BY <4>1, <4>2
    <3>3. prev_data_idx + (n + 1) = k + 1
      BY <1>1, <3>1
    <3> QED
      BY <1>2, <1>7, <3>1, <3>2, <3>3 DEF OnIndex
  <2> QED
    BY <2>8, <2>9, <2>10
<1>8. ASSUME NEW drift, NextSlot(drift)
      PROVE  age' = 0 /\ dongle_idx' = (dongle_idx + 1) % Channels
  BY <1>8 DEF NextSlot
<1>9. \/ age' = age + 1 /\ dongle_idx' = dongle_idx
      \/ /\ age - (Interval - 1) \in {-1, 0, 1}
         /\ NextSlot(TRUE) \/ NextSlot(FALSE)
  <2>1. \/ age' = age + 1 /\ dongle_idx' = dongle_idx
        \/ age = Interval - 2 /\ NextSlot(TRUE)
        \/ age = Interval - 1 /\ NextSlot(FALSE)
        \/ age = Interval /\ NextSlot(TRUE)
    BY Zenon DEF Tick
  <2>2. /\ age = Interval - 2 => age - (Interval - 1) \in {-1, 0, 1}
        /\ age = Interval - 1 => age - (Interval - 1) \in {-1, 0, 1}
        /\ age = Interval => age - (Interval - 1) \in {-1, 0, 1}
    BY <1>1
  <2> QED
    BY <2>1, <2>2, Zenon
<1> QED
  BY <1>6, <1>7, <1>8, <1>9
=============================================================================
