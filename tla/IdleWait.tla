------------------------------ MODULE IdleWait ------------------------------
(***************************************************************************)
(* The shallow idle of Main_Circulation, firmware/src/main.c: with interrupt *)
(* delivery masked the core waits for an event (WFE), which the UART or the  *)
(* TMR3 heartbeat makes by going pending.  The core's rule (its comment): an *)
(* interrupt makes an event only if it becomes pending while SEVONPEND is    *)
(* set; one that is pending already makes none.                              *)
(*                                                                         *)
(* Main_Circulation is split where an interrupt, a byte or a timer edge may  *)
(* come in between.  Time is counted in ticks; a pass of the loop takes at   *)
(* most Pass of them, sleep apart.                                           *)
(***************************************************************************)
EXTENDS Integers

CONSTANTS
  Slow, Fast,  \* the heartbeat's periods: 200 ms, and 4 ms at rest
  Pass,        \* longest pass of the loop, awake
  Watchdog,    \* the watchdog's period
  MaxBytes     \* Bound: bytes in the FIFO, or in the ring, told apart

ASSUME IdleWaitAssumption ==
  /\ {Slow, Fast, Pass, Watchdog, MaxBytes} \subseteq Nat \ {0}
  /\ Fast <= Slow
  /\ Slow + 2 * Pass < Watchdog

VARIABLES
  pc,        \* where Main_Circulation is
  event,     \* the core's event latch
  fifo,      \* bytes in the UART's FIFO: its interrupt is pending if any
  ring,      \* bytes in the receive ring
  tmr3,      \* RB_TMR_IF_CYC_END: the heartbeat's interrupt is pending
  count,     \* TMR3's counter
  fast,      \* heartbeat_follow_rf_state's period is Fast
  rf,        \* RF_GetState: "idle", "probing" (resting), or "spin", the others
  owed,      \* something the loop must poll for: OpenBoot entry, host wake, a
             \* sleep request, or a frame not yet complete
  awake,     \* ticks of this pass
  fed        \* ticks since the watchdog was fed

vars == <<pc, event, fifo, ring, tmr3, count, fast, rf, owed, awake, fed>>
loop == <<fast, rf, owed>>
sources == <<fifo, ring, tmr3, count>>

Masked == pc \in {"masked", "armed", "drained", "asleep", "woken"}
SevOnPend == pc \in {"armed", "drained", "asleep", "woken"}
Period(f) == IF f THEN Fast ELSE Slow

Init ==
  /\ pc = "pass" /\ event = FALSE
  /\ fifo = 0 /\ ring = 0 /\ tmr3 = FALSE /\ count = 0
  /\ fast = FALSE /\ rf = "spin" /\ owed = FALSE
  /\ awake = 0 /\ fed = 0
-----------------------------------------------------------------------------
(* The interrupt sources, and their handlers when delivery is not masked.   *)
Pends(already) == event' = (event \/ (SevOnPend /\ ~already))

ByteArrives ==
  /\ fifo < MaxBytes
  /\ fifo' = fifo + 1
  /\ Pends(fifo > 0)
  /\ UNCHANGED <<pc, ring, tmr3, count, loop, awake, fed>>

UART1_IRQHandler ==
  /\ ~Masked /\ fifo > 0
  /\ fifo' = 0 /\ ring' = IF ring + fifo > MaxBytes THEN MaxBytes ELSE ring + fifo
  /\ UNCHANGED <<pc, event, tmr3, count, loop, awake, fed>>

TMR3_IRQHandler ==
  /\ ~Masked /\ tmr3
  /\ tmr3' = FALSE
  /\ UNCHANGED <<pc, event, fifo, ring, count, loop, awake, fed>>

Waiting == pc \in {"armed", "asleep"} /\ ~event

Tick ==
  /\ ~Waiting => awake < Pass
  /\ awake' = IF Waiting THEN awake ELSE awake + 1
  /\ fed' = IF fed < Watchdog THEN fed + 1 ELSE fed
  /\ IF count + 1 = Period(fast)
     THEN count' = 0 /\ tmr3' = TRUE /\ Pends(tmr3)
     ELSE count' = count + 1 /\ UNCHANGED <<tmr3, event>>
  /\ UNCHANGED <<pc, fifo, ring, loop>>
-----------------------------------------------------------------------------
(* The body of the loop, up to the idle condition: the TMOS tasks, the       *)
(* poll, the services, and the watchdog.                                     *)
Circulate ==
  /\ pc = "pass"
  /\ rf' \in {"idle", "probing", "spin"} /\ owed' \in BOOLEAN
  /\ ring' = 0
  /\ pc' = "follow" /\ awake' = 0 /\ fed' = 0
  /\ UNCHANGED <<event, fifo, tmr3, count, fast>>

\* Mutant: the heartbeat keeps its period.
FollowNever ==
  /\ pc = "follow"
  /\ pc' = "idle"
  /\ UNCHANGED <<event, sources, loop, awake, fed>>

(* heartbeat_follow_rf_state: the change of period restarts the timer and    *)
(* clears its flag.                                                          *)
heartbeat_follow_rf_state ==
  /\ pc = "follow"
  /\ fast' = (rf = "probing")
  /\ IF fast' # fast THEN count' = 0 /\ tmr3' = FALSE
                     ELSE UNCHANGED <<count, tmr3>>
  /\ pc' = "idle"
  /\ UNCHANGED <<event, fifo, ring, rf, owed, awake, fed>>

(* Idle only with the radio off, nothing to poll for and nothing received;   *)
(* KeyboardUart_RxQuiet is read here.                                        *)
IdleTest ==
  /\ pc = "idle"
  /\ pc' = IF rf # "spin" /\ ~owed /\ ring = 0 THEN "mask" ELSE "pass"
  /\ UNCHANGED <<event, sources, loop, awake, fed>>

Mask ==
  /\ pc = "mask"
  /\ pc' = "masked"
  /\ UNCHANGED <<event, sources, loop, awake, fed>>

\* Mutant: armed without the event that lets the drain pass.
ArmOnly ==
  /\ pc = "masked"
  /\ pc' = "armed"
  /\ UNCHANGED <<event, sources, loop, awake, fed>>

(* idle_arm_and_drain: SEVONPEND and an event of its own ...                 *)
Arm ==
  /\ pc = "masked"
  /\ pc' = "armed" /\ event' = TRUE
  /\ UNCHANGED <<sources, loop, awake, fed>>

(* ... and the wait that takes it, with whatever came before.                *)
Drain ==
  /\ pc = "armed" /\ event
  /\ pc' = "drained" /\ event' = FALSE
  /\ UNCHANGED <<sources, loop, awake, fed>>

\* Mutant: the heartbeat's flag is not looked at.
RecheckUartOnly ==
  /\ pc = "drained"
  /\ IF ring = 0 /\ fifo = 0
     THEN pc' = "asleep" /\ fed' = 0
     ELSE pc' = "woken" /\ UNCHANGED fed
  /\ UNCHANGED <<event, sources, loop, awake>>

\* Mutant: the check of the main loop is trusted, only the ring is read again.
RecheckRingOnly ==
  /\ pc = "drained"
  /\ IF ring = 0 /\ ~tmr3
     THEN pc' = "asleep" /\ fed' = 0
     ELSE pc' = "woken" /\ UNCHANGED fed
  /\ UNCHANGED <<event, sources, loop, awake>>

(* The check of every wake source, and the watchdog once more.               *)
Recheck ==
  /\ pc = "drained"
  /\ IF ring = 0 /\ fifo = 0 /\ ~tmr3
     THEN pc' = "asleep" /\ fed' = 0
     ELSE pc' = "woken" /\ UNCHANGED fed
  /\ UNCHANGED <<event, sources, loop, awake>>

(* idle_sleep_once returns.                                                  *)
Wake ==
  /\ pc = "asleep" /\ event
  /\ pc' = "woken" /\ event' = FALSE
  /\ UNCHANGED <<sources, loop, awake, fed>>

(* idle_disarm and the unmasking.                                            *)
Disarm ==
  /\ pc = "woken"
  /\ pc' = "pass"
  /\ UNCHANGED <<event, sources, loop, awake, fed>>
-----------------------------------------------------------------------------
Main_Circulation == \/ Circulate \/ heartbeat_follow_rf_state \/ IdleTest
                    \/ Mask \/ Arm \/ Drain \/ Recheck \/ Wake \/ Disarm

Next == \/ Main_Circulation
        \/ UART1_IRQHandler \/ TMR3_IRQHandler
        \/ ByteArrives \/ Tick

(* The core runs and time goes by; a pending interrupt is taken whenever     *)
(* delivery is unmasked, which the loop does in every pass.  No byte is      *)
(* promised.                                                                 *)
Fairness == /\ WF_vars(Main_Circulation) /\ WF_vars(Tick)
            /\ SF_vars(UART1_IRQHandler) /\ SF_vars(TMR3_IRQHandler)

Spec == Init /\ [][Next]_vars /\ Fairness
-----------------------------------------------------------------------------
TypeOK ==
  /\ pc \in {"pass", "follow", "idle", "mask", "masked", "armed", "drained",
             "asleep", "woken"}
  /\ {event, tmr3, fast, owed} \subseteq BOOLEAN
  /\ fifo \in 0..MaxBytes /\ ring \in 0..MaxBytes
  /\ count \in 0..(Period(fast) - 1)
  /\ rf \in {"idle", "probing", "spin"}
  /\ awake \in 0..Pass /\ fed \in 0..Watchdog

(* The core never waits for an event that has already come and gone: asleep  *)
(* over a pending byte or heartbeat, the event is latched.  (A heartbeat      *)
(* slept past makes no second edge: the next thing to happen would be the     *)
(* watchdog's reset.)                                                         *)
NotSleptPast == pc = "asleep" /\ (fifo > 0 \/ ring > 0 \/ tmr3) => event

(* The watchdog is fed in time, whatever the host and the radio do: the       *)
(* heartbeat alone keeps the loop coming round.                               *)
WatchdogFed == fed < Watchdog

(* A resting keyboard looks at its probe timer every fast heartbeat; late, it *)
(* would miss the dongle's window.                                            *)
ProbesOnTime == pc = "asleep" /\ rf = "probing" /\ fed > Fast => event

(* The loop always comes round, even if no byte ever arrives, and a byte that *)
(* has arrived gets to the ring and from there to the parser.                 *)
LoopGoesOn == /\ []<>(pc = "pass")
              /\ fifo > 0 ~> fifo = 0
              /\ ring > 0 ~> ring = 0
=============================================================================
