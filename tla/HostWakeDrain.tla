--------------------------- MODULE HostWakeDrain ----------------------------
(***************************************************************************)
(* How long host wake can keep TX busy.  Power_Service gives a drain before  *)
(* a sleep the time that firmware/src/keyboard_uart.h computes for           *)
(* everything that can be pending at once; this is HostWake with a main loop *)
(* that passes at least once per tick and a count of the ticks since         *)
(* anything was added.                                                       *)
(***************************************************************************)
EXTENDS HostWake

VARIABLE spent   \* ticks since the owner last added a frame or an LED state

KBD_HOST_WAKE_FRAME_MAX_US == Guard + (max_attempts + 1) * AckTimeout

KBD_HOST_WAKE_BACKLOG_MAX_US == (QueueSize + 2) * KBD_HOST_WAKE_FRAME_MAX_US

Adds ==
  /\ \/ \E f \in Status : HostWake_Enqueue(f)
     \/ \E v \in Led : HostWake_SetLatest(v)
  /\ spent' = 0

Others ==
  /\ \/ KeyboardUart_TakeLedLost
     \/ HostWake_Step
     \/ Settle
     \/ \E c \in wire : HostReceive(c)
  /\ UNCHANGED spent

\* HostWake_Step has something to do.
due ==
  \/ state = "IDLE" /\ have_pending
  \/ state = "GUARD" /\ age >= Guard
  \/ state = "WAIT_ACK" /\ (acked \/ age >= AckTimeout)
  \/ state = "QUARANTINE" /\ age >= Quarantine

\* A pass in every tick: time waits for a step that is due.
PromptTick ==
  /\ ~due
  /\ Tick
  /\ spent' = spent + 1

DrainInit == Init /\ spent = 0
DrainNext == Adds \/ Others \/ PromptTick
DrainSpec == DrainInit /\ [][DrainNext]_<<vars, spent>>
-----------------------------------------------------------------------------
(* The budget covers the worst backlog, a full queue behind an LED state on  *)
(* the wire with another in the slot, every copy of every frame unanswered:  *)
(* once it is spent, nothing is left to abandon (keyboard_uart.h,            *)
(* KBD_HOST_WAKE_BACKLOG_MAX_US, and main.c, the drain of Power_Service).    *)
DrainedInBudget == spent >= KBD_HOST_WAKE_BACKLOG_MAX_US => HostWake_Idle
=============================================================================
