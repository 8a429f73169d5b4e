--------------------------- MODULE IdleWaitProofs ---------------------------
(***************************************************************************)
(* The shallow idle is safe for every heartbeat, pass and watchdog that      *)
(* IdleWaitAssumption allows.                                               *)
(***************************************************************************)
EXTENDS IdleWait, TLAPS

\* The heartbeat follows the link's state from the idle condition on.
FollowInv == pc \notin {"pass", "follow"} => fast = (rf = "probing")

\* The drain never waits, and a pass that has not slept was fed at its start;
\* asleep without an event, the counter has run at least since the feeding.
FedInv ==
  /\ pc = "armed" => event
  /\ pc \in {"follow", "idle", "mask", "masked", "armed", "drained"} =>
       fed <= awake
  /\ pc = "asleep" /\ ~event => fed <= count
  /\ fed <= Slow + awake

IInv == TypeOK /\ FollowInv /\ FedInv /\ NotSleptPast
-----------------------------------------------------------------------------
LEMMA Constants ==
  /\ Slow \in Nat /\ Fast \in Nat /\ Pass \in Nat /\ Watchdog \in Nat
  /\ MaxBytes \in Nat /\ Slow > 0 /\ Fast > 0 /\ Pass > 0 /\ MaxBytes > 0
  /\ Fast <= Slow /\ Slow + 2 * Pass < Watchdog
  /\ \A f : Period(f) \in Nat /\ Period(f) > 0 /\ Period(f) <= Slow
BY IdleWaitAssumption, SMT DEF Period

\* The type invariant, variable by variable.
Pcs == {"pass", "follow", "idle", "mask", "masked", "armed", "drained",
        "asleep", "woken"}

LEMMA Types ==
  TypeOK <=>
    /\ pc \in Pcs
    /\ event \in BOOLEAN /\ tmr3 \in BOOLEAN /\ fast \in BOOLEAN
    /\ owed \in BOOLEAN
    /\ fifo \in 0..MaxBytes /\ ring \in 0..MaxBytes
    /\ count \in 0..(Period(fast) - 1)
    /\ rf \in {"idle", "probing", "spin"}
    /\ awake \in 0..Pass /\ fed \in 0..Watchdog
BY Zenon DEF TypeOK, Pcs
LEMMA InitInv == Init => IInv
<1> SUFFICES ASSUME Init PROVE IInv
  OBVIOUS
<1>1. TypeOK
  <2>1. count \in 0..(Period(fast) - 1)
    BY Constants, SMT DEF Init
  <2>2. fifo \in 0..MaxBytes /\ ring \in 0..MaxBytes
        /\ awake \in 0..Pass /\ fed \in 0..Watchdog
    BY Constants, SMT DEF Init
  <2> QED
    BY <2>1, <2>2, Types, Zenon DEF Init, Pcs
<1>2. FollowInv /\ FedInv /\ NotSleptPast
  BY Constants DEF Init, FollowInv, FedInv, NotSleptPast
<1> QED
  BY <1>1, <1>2 DEF IInv

-----------------------------------------------------------------------------
\* Steps of the loop that move on and touch no source.
LEMMA MovesInv ==
  ASSUME IInv, IdleTest \/ Mask \/ Disarm
  PROVE  IInv'
<1>1. /\ UNCHANGED <<event, sources, loop, awake, fed>>
      /\ \/ pc = "idle" /\ pc' \in {"mask", "pass"}
         \/ pc = "mask" /\ pc' = "masked"
         \/ pc = "woken" /\ pc' = "pass"
  BY DEF IdleTest, Mask, Disarm
<1>2. UNCHANGED <<event, fifo, ring, tmr3, count, fast, rf, owed, awake, fed>>
  BY <1>1 DEF sources, loop
<1>3. TypeOK'
  BY <1>1, <1>2 DEF IInv, TypeOK
<1> QED
  BY <1>1, <1>2, <1>3 DEF IInv, FollowInv, FedInv, NotSleptPast

LEMMA ArmingInv ==
  ASSUME IInv, Arm \/ Drain \/ Wake
  PROVE  IInv'
<1>1. /\ UNCHANGED <<fifo, ring, tmr3, count, fast, rf, owed, awake, fed>>
      /\ \/ pc = "masked" /\ pc' = "armed" /\ event' = TRUE
         \/ pc = "armed" /\ pc' = "drained" /\ event' = FALSE
         \/ pc = "asleep" /\ pc' = "woken" /\ event' = FALSE
  BY DEF Arm, Drain, Wake, sources, loop
<1>2. TypeOK'
  BY <1>1, Types DEF IInv, TypeOK
<1> QED
  BY <1>1, <1>2 DEF IInv, FollowInv, FedInv, NotSleptPast

LEMMA RecheckInv == ASSUME IInv, Recheck PROVE IInv'
<1>1. /\ UNCHANGED <<event, fifo, ring, tmr3, count, fast, rf, owed, awake>>
      /\ pc = "drained"
      /\ \/ pc' = "asleep" /\ fed' = 0 /\ ring = 0 /\ fifo = 0 /\ ~tmr3
         \/ pc' = "woken" /\ fed' = fed
  BY DEF Recheck, sources, loop
<1>2. TypeOK'
  BY <1>1, Constants, Types DEF IInv, TypeOK
<1>3. awake \in Nat /\ count \in Nat
  BY Constants DEF IInv, TypeOK
<1>4. FollowInv'
  BY <1>1, Zenon DEF IInv, FollowInv
<1>5. FedInv'
  BY <1>1, <1>3, Constants, SMT DEF IInv, FedInv
<1>6. NotSleptPast'
  BY <1>1, <1>3, SMT DEF IInv, NotSleptPast
<1> QED
  BY <1>2, <1>4, <1>5, <1>6 DEF IInv

LEMMA PassInv ==
  ASSUME IInv, Circulate \/ heartbeat_follow_rf_state
  PROVE  IInv'
<1>1. CASE Circulate
  <2>1. /\ UNCHANGED <<event, fifo, tmr3, count, fast>>
        /\ pc = "pass" /\ pc' = "follow" /\ ring' = 0 /\ awake' = 0 /\ fed' = 0
        /\ rf' \in {"idle", "probing", "spin"} /\ owed' \in BOOLEAN
    BY <1>1 DEF Circulate
  <2>2. TypeOK'
    <3>1. ring' \in 0..MaxBytes /\ awake' \in 0..Pass /\ fed' \in 0..Watchdog
      BY <2>1, Constants, SMT
    <3>2. /\ pc' \in Pcs
          /\ event' \in BOOLEAN /\ tmr3' \in BOOLEAN /\ fast' \in BOOLEAN
          /\ owed' \in BOOLEAN
          /\ fifo' \in 0..MaxBytes
          /\ count' \in 0..(Period(fast') - 1)
          /\ rf' \in {"idle", "probing", "spin"}
      BY <2>1, Types, Zenon DEF IInv, Pcs
    <3> QED
      BY <3>1, <3>2, Zenon DEF TypeOK, Pcs, Period
  <2> QED
    BY <2>1, <2>2, Constants DEF IInv, FollowInv, FedInv, NotSleptPast
<1>2. CASE heartbeat_follow_rf_state
  <2>1. /\ UNCHANGED <<event, fifo, ring, rf, owed, awake, fed>>
        /\ pc = "follow" /\ pc' = "idle" /\ fast' = (rf = "probing")
        /\ \/ count' = 0 /\ tmr3' = FALSE
           \/ fast' = fast /\ UNCHANGED <<count, tmr3>>
    BY <1>2 DEF heartbeat_follow_rf_state
  <2>2. count' \in 0..(Period(fast') - 1)
    <3>1. CASE count' = 0
      BY <3>1, Constants, SMT
    <3>2. CASE fast' = fast /\ count' = count
      BY <3>2, Types, Zenon DEF IInv
    <3> QED
      BY <2>1, <3>1, <3>2
  <2>3. TypeOK'
    <3>1. fast' \in BOOLEAN /\ tmr3' \in BOOLEAN
      BY <2>1, Types, Zenon DEF IInv
    <3> QED
      BY <2>1, <2>2, <3>1, Types, Zenon DEF IInv, TypeOK, Pcs, Period
  <2>4. FollowInv'
    BY <2>1, Zenon DEF FollowInv
  <2> QED
    BY <2>1, <2>3, <2>4 DEF IInv, FedInv, NotSleptPast
<1> QED
  BY <1>1, <1>2

\* Delivery is masked wherever the invariant speaks of a source.
LEMMA HandlersInv ==
  ASSUME IInv, UART1_IRQHandler \/ TMR3_IRQHandler
  PROVE  IInv'
<1>1. /\ UNCHANGED <<pc, event, count, fast, rf, owed, awake, fed>>
      /\ pc # "asleep"
      /\ \/ tmr3' = FALSE /\ UNCHANGED <<fifo, ring>>
         \/ /\ tmr3' = tmr3 /\ fifo' = 0
            /\ ring' = IF ring + fifo > MaxBytes THEN MaxBytes ELSE ring + fifo
  BY DEF UART1_IRQHandler, TMR3_IRQHandler, loop, Masked
<1>2. fifo' \in 0..MaxBytes /\ ring' \in 0..MaxBytes
  BY <1>1, Types, Constants, SMT DEF IInv
<1>3. tmr3' \in BOOLEAN
  BY <1>1, Types, Zenon DEF IInv
<1>4. TypeOK'
  BY <1>1, <1>2, <1>3, Types, Zenon DEF IInv, TypeOK, Pcs, Period
<1> QED
  BY <1>1, <1>4 DEF IInv, FollowInv, FedInv, NotSleptPast

LEMMA ByteInv == ASSUME IInv, ByteArrives PROVE IInv'
<1>1. /\ UNCHANGED <<pc, ring, tmr3, count, fast, rf, owed, awake, fed>>
      /\ fifo < MaxBytes /\ fifo' = fifo + 1
      /\ event' = (event \/ (SevOnPend /\ ~(fifo > 0)))
  BY DEF ByteArrives, Pends, loop
<1>2. fifo' \in 0..MaxBytes /\ fifo \in Nat
  BY <1>1, Types, Constants, SMT DEF IInv
<1>3. event' \in BOOLEAN /\ (event => event')
      /\ (pc = "asleep" /\ ~(fifo > 0) => event')
  BY <1>1, Types, Zenon DEF IInv, SevOnPend
<1>4. TypeOK'
  BY <1>1, <1>2, <1>3, Types, Zenon DEF IInv, TypeOK, Pcs, Period
<1>5. NotSleptPast'
  BY <1>1, <1>3, Zenon DEF IInv, NotSleptPast
<1> QED
  BY <1>1, <1>3, <1>4, <1>5 DEF IInv, FollowInv, FedInv

LEMMA TickInv == ASSUME IInv, Tick PROVE IInv'
<1>1. /\ UNCHANGED <<pc, fifo, ring, fast, rf, owed>>
      /\ ~Waiting => awake < Pass
      /\ awake' = IF Waiting THEN awake ELSE awake + 1
      /\ fed' = IF fed < Watchdog THEN fed + 1 ELSE fed
      /\ IF count + 1 = Period(fast)
         THEN /\ count' = 0 /\ tmr3' = TRUE
              /\ event' = (event \/ (SevOnPend /\ ~tmr3))
         ELSE count' = count + 1 /\ UNCHANGED <<tmr3, event>>
  BY DEF Tick, Pends, loop
<1>2. /\ awake \in Nat /\ fed \in Nat /\ count \in Nat /\ awake <= Pass
      /\ fed <= Watchdog /\ count + 1 <= Period(fast) /\ Period(fast) \in Nat
      /\ Period(fast) <= Slow
  BY Types, Constants, SMT DEF IInv
<1>3. /\ event' \in BOOLEAN /\ tmr3' \in BOOLEAN /\ (event => event')
      /\ (pc = "asleep" /\ ~tmr3 /\ count + 1 = Period(fast) => event')
      /\ (~(count + 1 = Period(fast)) => tmr3' = tmr3)
  BY <1>1, Types, Zenon DEF IInv, SevOnPend
<1>4. count' \in 0..(Period(fast) - 1) /\ awake' \in 0..Pass
      /\ fed' \in 0..Watchdog
  BY <1>1, <1>2, Constants, SMT
<1>5. TypeOK'
  BY <1>1, <1>3, <1>4, Types, Zenon DEF IInv, TypeOK, Pcs, Period
<1>6. NotSleptPast'
  <2>1. CASE count + 1 = Period(fast)
    BY <1>1, <1>3, <2>1, Zenon DEF IInv, NotSleptPast
  <2>2. CASE ~(count + 1 = Period(fast))
    BY <1>1, <1>3, <2>2, Zenon DEF IInv, NotSleptPast
  <2> QED
    BY <2>1, <2>2
<1>7. FollowInv'
  BY <1>1, Zenon DEF IInv, FollowInv
<1>8. FedInv'
  <2>1. pc = "armed" => ~Waiting
    BY DEF IInv, FedInv, Waiting
  <2>2. Waiting => pc = "asleep" /\ ~event
    BY <2>1 DEF Waiting
  <2>3. CASE Waiting
    <3>1. fed <= count /\ awake' = awake /\ fed' <= fed + 1
      BY <1>1, <1>2, <2>2, <2>3, SMT DEF IInv, FedInv
    <3>2. ~event' => ~(count + 1 = Period(fast)) /\ count' = count + 1
      BY <1>1, <1>3, <2>2, <2>3, Zenon DEF IInv, NotSleptPast
    <3>3. fed' <= Slow + awake'
      BY <1>2, <1>4, <3>1, Constants, SMT
    <3>4. ~event' => fed' <= count'
      BY <1>2, <1>4, <3>1, <3>2, SMT
    <3> QED
      BY <1>1, <2>2, <2>3, <3>3, <3>4 DEF FedInv
  <2>4. CASE ~Waiting
    <3>1. awake' = awake + 1 /\ fed' <= fed + 1
      BY <1>1, <1>2, <2>4, SMT
    <3>2. pc = "asleep" => event'
      BY <1>3, <2>4, Zenon DEF Waiting
    <3>3. pc = "armed" => event'
      BY <1>3, Zenon DEF IInv, FedInv
    <3>4. fed <= awake => fed' <= awake'
      BY <1>2, <1>4, <3>1, SMT
    <3>5. fed' <= Slow + awake'
      BY <1>2, <1>4, <3>1, Constants, SMT DEF IInv, FedInv
    <3> QED
      BY <1>1, <3>2, <3>3, <3>4, <3>5 DEF IInv, FedInv
  <2> QED
    BY <2>3, <2>4
<1> QED
  BY <1>5, <1>6, <1>7, <1>8 DEF IInv
-----------------------------------------------------------------------------
LEMMA StepInv == IInv /\ [Next]_vars => IInv'
<1> SUFFICES ASSUME IInv, [Next]_vars PROVE IInv'
  OBVIOUS
<1>1. CASE UNCHANGED vars
  <2>1. TypeOK'
    BY <1>1, Zenon DEF IInv, TypeOK, vars, Period
  <2> QED
    BY <1>1, <2>1 DEF vars, IInv, FollowInv, FedInv, NotSleptPast
<1>2. CASE Main_Circulation
  BY <1>2, MovesInv, ArmingInv, RecheckInv, PassInv DEF Main_Circulation
<1> QED
  BY <1>1, <1>2, HandlersInv, ByteInv, TickInv DEF Next

(***************************************************************************)
(* The invariant of main.c's idle section: where it is, how long ago the     *)
(* watchdog was fed and what the event latch knows of the sources.          *)
(***************************************************************************)
THEOREM Invariance == Spec => []IInv
BY InitInv, StepInv, PTL DEF Spec

(***************************************************************************)
(* TMR3's counter stays below its period across every change of period, and  *)
(* the FIFO, the ring and the pass within their bounds.                     *)
(***************************************************************************)
THEOREM TypeCorrect == Spec => []TypeOK
<1>1. IInv => TypeOK
  BY DEF IInv
<1> QED
  BY Invariance, <1>1, PTL

(***************************************************************************)
(* main.c never waits for an event over a byte or a heartbeat that has       *)
(* already come, wherever in the idle section it came.                      *)
(***************************************************************************)
THEOREM NoLostWakeup == Spec => []NotSleptPast
<1>1. IInv => NotSleptPast
  BY DEF IInv
<1> QED
  BY Invariance, <1>1, PTL

(***************************************************************************)
(* The heartbeat keeps main.c's loop feeding the watchdog in time, for every *)
(* period that is shorter than the watchdog's by two passes of the loop.     *)
(***************************************************************************)
THEOREM FedInTime == Spec => []WatchdogFed
<1>1. IInv => WatchdogFed
  <2> SUFFICES ASSUME IInv PROVE WatchdogFed
    OBVIOUS
  <2>1. fed \in Nat /\ awake \in Nat /\ awake <= Pass /\ fed <= Slow + awake
    BY Types, Constants, SMT DEF IInv, FedInv
  <2> QED
    BY <2>1, Constants, SMT DEF WatchdogFed
<1> QED
  BY Invariance, <1>1, PTL

(***************************************************************************)
(* A sleep at rest lasts at most one fast heartbeat: by then                 *)
(* heartbeat_follow_rf_state's period has made the event that ends it.       *)
(***************************************************************************)
THEOREM ProbesInTime == Spec => []ProbesOnTime
<1>1. IInv => ProbesOnTime
  <2> SUFFICES ASSUME IInv, pc = "asleep", rf = "probing", fed > Fast, ~event
               PROVE  FALSE
    BY DEF ProbesOnTime
  <2>1. fed <= count /\ fast = (rf = "probing")
    BY Zenon DEF IInv, FedInv, FollowInv
  <2>2. Period(fast) = Fast
    BY <2>1 DEF Period
  <2>3. fed \in Nat /\ count \in Nat /\ count <= Period(fast) - 1
    BY Types, Constants, SMT DEF IInv
  <2> QED
    BY <2>1, <2>2, <2>3, Constants, SMT
<1> QED
  BY Invariance, <1>1, PTL
=============================================================================
