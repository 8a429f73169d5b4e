------------------------------ MODULE HostWake ------------------------------
(***************************************************************************)
(* Host wake over CHWAKE: firmware/src/host_wake.c, driven by              *)
(* firmware/src/keyboard_uart.c.  The module raises CHWAKE, waits the guard *)
(* time, sends one frame at a time and retries it until the host's bare ACK *)
(* (61 0D 0A) or max_attempts sends.  ACKs carry no sequence number, so     *)
(* after a resend a quarantine keeps a late ACK from retiring a later frame.*)
(*                                                                         *)
(* Time is relative: `age' is now - since and `lineAge' the time CHWAKE has *)
(* been high, both saturating where no comparison tells larger values apart.*)
(* A main-loop pass may come arbitrarily late, so nothing forces a Step.   *)
(***************************************************************************)
EXTENDS Naturals, Sequences

CONSTANTS
  Status,       \* queued frames: 5B status and 5C battery
  Led,          \* 5A LED states, kept in the latest-value slot
  NoFrame,      \* the zeroed fields of HostWake_Init
  QueueSize,    \* HOST_WAKE_QUEUE_SIZE
  Guard,        \* guard_ticks
  AckTimeout,   \* ack_timeout_ticks
  Attempts      \* the max_attempts argument of HostWake_Init

ASSUME FramesAssumption ==
  /\ Status \cap Led = {}
  /\ NoFrame \notin Status \cup Led
ASSUME TicksAssumption ==
  /\ QueueSize \in Nat \ {0}
  /\ Guard \in Nat
  /\ AckTimeout \in Nat \ {0}
  /\ Attempts \in Nat

VARIABLES
  state, queue, attempts, acked, sending_latest, last_latest, age,
  latest_pending, latest_val, latest_lost, out, line,
  lineAge,      \* ticks CHWAKE has been high
  wire,         \* copies sent whose ACK may still arrive (environment)
  outReceived,  \* the host has received the outstanding frame (history)
  hostLed,      \* the LED state the host last received (environment)
  owed          \* the owner took latest_lost and has yet to offer an LED state

hostVars == <<wire, outReceived, hostLed>>
slotVars == <<latest_pending, latest_val, latest_lost>>
sendVars == <<state, attempts, acked, sending_latest, last_latest, age, out,
              line, lineAge>>
vars == <<sendVars, queue, slotVars, hostVars, owed>>

States == {"IDLE", "GUARD", "WAIT_ACK", "QUARANTINE"}
Frames == Status \cup Led
Quarantine == 2 * AckTimeout
MaxAge == Guard + Quarantine
max_attempts == IF Attempts = 0 THEN 1 ELSE Attempts

\* A copy on its way to the host or its ACK on the way back.  `stale': a later
\* frame has been sent since.
Copy == [frame : Frames, n : 1..max_attempts, age : 0..Quarantine,
         got : BOOLEAN, stale : BOOLEAN]

FlagsOK ==
  /\ acked \in BOOLEAN /\ sending_latest \in BOOLEAN /\ last_latest \in BOOLEAN
  /\ latest_pending \in BOOLEAN /\ latest_lost \in BOOLEAN
  /\ line \in BOOLEAN /\ outReceived \in BOOLEAN /\ owed \in BOOLEAN

FieldsOK ==
  /\ state \in States
  /\ queue \in Seq(Status) /\ Len(queue) <= QueueSize
  /\ attempts \in 0..max_attempts
  /\ age \in 0..MaxAge
  /\ lineAge \in 0..Guard
  /\ latest_val \in Led \cup {NoFrame}
  /\ hostLed \in Led \cup {NoFrame}
  /\ out \in Frames \cup {NoFrame}
  /\ wire \subseteq Copy

TypeOK == FlagsOK /\ FieldsOK

HostWake_Init ==
  /\ state = "IDLE" /\ queue = <<>> /\ attempts = 0 /\ age = 0
  /\ acked = FALSE /\ sending_latest = FALSE /\ last_latest = FALSE
  /\ latest_pending = FALSE /\ latest_lost = FALSE
  /\ latest_val = NoFrame /\ out = NoFrame
  /\ line = FALSE

Init ==
  /\ HostWake_Init
  /\ lineAge = 0 /\ wire = {} /\ outReceived = FALSE
  /\ hostLed = NoFrame /\ owed = FALSE
-----------------------------------------------------------------------------
(***************************************************************************)
(* The owner's calls.                                                      *)
(***************************************************************************)

\* Mutant: the full check is off by one.
EnqueueOffByOne(f) ==
  /\ Len(queue) <= QueueSize
  /\ queue' = Append(queue, f)
  /\ UNCHANGED <<sendVars, slotVars, hostVars, owed>>

\* A frame offered to a full queue is dropped (and counted): a stuttering step.
HostWake_Enqueue(f) ==
  /\ Len(queue) < QueueSize
  /\ queue' = Append(queue, f)
  /\ UNCHANGED <<sendVars, slotVars, hostVars, owed>>

HostWake_SetLatest(v) ==
  /\ latest_val' = v
  /\ latest_pending' = TRUE
  /\ owed' = FALSE
  /\ UNCHANGED <<sendVars, queue, latest_lost, hostVars>>

\* The main loop takes the flag and RF_LedResync forgets what was sent, so that
\* the dongle's next LED report is offered again.
KeyboardUart_TakeLedLost ==
  /\ latest_lost
  /\ latest_lost' = FALSE
  /\ owed' = TRUE
  /\ UNCHANGED <<sendVars, queue, latest_pending, latest_val, hostVars>>
-----------------------------------------------------------------------------
(***************************************************************************)
(* HostWake_Step, one action per return that changes state.                *)
(***************************************************************************)

have_pending == queue # <<>> \/ latest_pending

transmit(frame, n) ==
  /\ out' = frame
  /\ attempts' = n
  /\ age' = 0
  /\ acked' = FALSE
  /\ state' = "WAIT_ACK"
  /\ line' = TRUE
  /\ lineAge' = lineAge

SentCopy(frame, n) ==
  [frame |-> frame, n |-> n, age |-> 0, got |-> FALSE, stale |-> FALSE]

\* Mutant: the slot never goes ahead of the queue.
SlotAlwaysLast(q) == latest_pending /\ q = <<>>

\* The slot goes first, but never twice running while frames q are queued.
slot_first(q) == latest_pending /\ ~(last_latest /\ q # <<>>)

send_next(q) ==
  /\ sending_latest' = slot_first(q)
  /\ last_latest' = slot_first(q)
  /\ latest_pending' = (latest_pending /\ ~slot_first(q))
  /\ LET frame == IF slot_first(q) THEN latest_val ELSE Head(q)
     IN  /\ transmit(frame, 1)
         /\ wire' = {[c EXCEPT !.stale = TRUE] : c \in wire}
                      \cup {SentCopy(frame, 1)}
  /\ outReceived' = FALSE
  /\ UNCHANGED <<latest_val, latest_lost>>

go_idle ==
  /\ state' = "IDLE"
  /\ line' = FALSE
  /\ lineAge' = 0

\* What is left queued once the outstanding frame is done with.
popped == IF sending_latest THEN queue ELSE Tail(queue)

\* The common part of retire(): nothing follows at once.
retire_to(s) ==
  /\ queue' = popped
  /\ sending_latest' = FALSE
  /\ attempts' = 0
  /\ acked' = FALSE
  /\ state' = s

WakeHost ==
  /\ state = "IDLE"
  /\ have_pending
  /\ state' = "GUARD"
  /\ age' = 0
  /\ line' = TRUE
  /\ UNCHANGED <<attempts, acked, sending_latest, last_latest, out, lineAge,
                 queue, slotVars, hostVars, owed>>

\* Mutant: the guard is not waited for.
GuardSkipped ==
  /\ state = "GUARD"
  /\ send_next(queue)
  /\ UNCHANGED <<queue, hostLed, owed>>

GuardElapsed ==
  /\ state = "GUARD"
  /\ age >= Guard
  /\ send_next(queue)
  /\ UNCHANGED <<queue, hostLed, owed>>

\* Mutant: the next frame is chosen before the finished one is popped.
AckedNextBeforePop ==
  /\ state = "WAIT_ACK" /\ acked /\ attempts <= 1
  /\ popped # <<>> \/ latest_pending
  /\ queue' = popped
  /\ send_next(queue)
  /\ UNCHANGED <<hostLed, owed>>

\* retire(hw, now, 0) of a frame sent once: the next frame follows at once.
AckedNext ==
  /\ state = "WAIT_ACK" /\ acked /\ attempts <= 1
  /\ popped # <<>> \/ latest_pending
  /\ queue' = popped
  /\ send_next(popped)
  /\ UNCHANGED <<hostLed, owed>>

AckedIdle ==
  /\ state = "WAIT_ACK" /\ acked /\ attempts <= 1
  /\ popped = <<>> /\ ~latest_pending
  /\ retire_to("IDLE")
  /\ line' = FALSE /\ lineAge' = 0
  /\ UNCHANGED <<last_latest, age, out, slotVars, hostVars, owed>>

\* retire(hw, now, 0) of a frame sent more than once: `since' is kept.
AckedResent ==
  /\ state = "WAIT_ACK" /\ acked /\ attempts > 1
  /\ retire_to("QUARANTINE")
  /\ UNCHANGED <<last_latest, age, out, line, lineAge, slotVars, hostVars, owed>>

\* Mutant: an abandoned LED state is not reported lost.
AbandonForgets ==
  /\ state = "WAIT_ACK" /\ ~acked
  /\ age >= AckTimeout
  /\ attempts >= max_attempts
  /\ retire_to("QUARANTINE")
  /\ UNCHANGED <<last_latest, age, out, line, lineAge, slotVars, hostVars, owed>>

\* retire(hw, now, 1)
Abandon ==
  /\ state = "WAIT_ACK" /\ ~acked
  /\ age >= AckTimeout
  /\ attempts >= max_attempts
  /\ retire_to("QUARANTINE")
  /\ latest_lost' = (latest_lost \/ (sending_latest /\ ~latest_pending))
  /\ UNCHANGED <<last_latest, age, out, line, lineAge, latest_pending,
                 latest_val, hostVars, owed>>

Resend ==
  /\ state = "WAIT_ACK" /\ ~acked
  /\ age >= AckTimeout
  /\ attempts < max_attempts
  /\ transmit(out, attempts + 1)
  /\ wire' = wire \cup {SentCopy(out, attempts + 1)}
  /\ UNCHANGED <<sending_latest, last_latest, queue, slotVars, outReceived,
                 hostLed, owed>>

\* Mutant: the quarantine is one ACK timeout, like any other wait.
QuarantineShort ==
  /\ state = "QUARANTINE"
  /\ age >= AckTimeout
  /\ have_pending
  /\ send_next(queue)
  /\ UNCHANGED <<queue, hostLed, owed>>

QuarantineNext ==
  /\ state = "QUARANTINE"
  /\ age >= Quarantine
  /\ have_pending
  /\ send_next(queue)
  /\ UNCHANGED <<queue, hostLed, owed>>

QuarantineIdle ==
  /\ state = "QUARANTINE"
  /\ age >= Quarantine
  /\ ~have_pending
  /\ go_idle
  /\ UNCHANGED <<attempts, acked, sending_latest, last_latest, age, out, queue,
                 slotVars, hostVars, owed>>

HostWake_Step ==
  \/ WakeHost \/ GuardElapsed \/ AckedNext \/ AckedIdle \/ AckedResent
  \/ Abandon \/ Resend \/ QuarantineNext \/ QuarantineIdle
-----------------------------------------------------------------------------
(***************************************************************************)
(* The host and the wire (external): a copy is received or lost, and the   *)
(* ACK of a received copy arrives or is lost.  host_wake.h's assumption: an *)
(* ACK arrives less than two ACK timeouts after its copy was sent.          *)
(***************************************************************************)

HostReceive(c) ==
  /\ ~c.got
  /\ wire' = (wire \ {c}) \cup {[c EXCEPT !.got = TRUE]}
  /\ outReceived' = (outReceived \/ ~c.stale)
  /\ hostLed' = IF c.frame \in Led THEN c.frame ELSE hostLed
  /\ UNCHANGED <<sendVars, queue, slotVars, owed>>

HostWake_OnAck == acked' = (acked \/ state = "WAIT_ACK")

HostAck(c) ==
  /\ c.got
  /\ wire' = wire \ {c}
  /\ HostWake_OnAck
  /\ UNCHANGED <<state, attempts, sending_latest, last_latest, age, out, line,
                 lineAge, queue, slotVars, outReceived, hostLed, owed>>

Lose(c) ==
  /\ wire' = wire \ {c}
  /\ UNCHANGED <<sendVars, queue, slotVars, outReceived, hostLed, owed>>

Least(a, b) == IF a <= b THEN a ELSE b

Tick ==
  /\ \A c \in wire : c.age + 1 < Quarantine
  /\ age' = Least(age + 1, MaxAge)
  /\ lineAge' = IF line THEN Least(lineAge + 1, Guard) ELSE lineAge
  /\ wire' = {[c EXCEPT !.age = @ + 1] : c \in wire}
  /\ UNCHANGED <<state, attempts, acked, sending_latest, last_latest, out, line,
                 queue, slotVars, outReceived, hostLed, owed>>

Owner ==
  \/ \E f \in Status : HostWake_Enqueue(f)
  \/ \E v \in Led : HostWake_SetLatest(v)
  \/ KeyboardUart_TakeLedLost

Settle == \E c \in wire : HostAck(c) \/ Lose(c)

Next ==
  \/ Owner
  \/ HostWake_Step
  \/ Settle
  \/ \E c \in wire : HostReceive(c)
  \/ Tick

Spec == Init /\ [][Next]_vars

\* The main loop calls HostWake_Step on every pass while anything is pending
\* (KeyboardUart_HostWakeIdle keeps it from idling), time passes, and a copy is
\* eventually answered or lost.  Nothing is assumed of the owner's calls.
Fairness ==
  /\ WF_vars(HostWake_Step)
  /\ WF_vars(Tick)
  /\ WF_vars(Settle)

FairSpec == Spec /\ Fairness
-----------------------------------------------------------------------------
HostWake_Idle == state = "IDLE" /\ ~have_pending

(***************************************************************************)
(* An ACK never retires a frame the host has not received: whenever the    *)
(* sender holds an ACK for the outstanding frame, the host has received a   *)
(* copy of that very frame, however late earlier ACKs arrive                *)
(* (host_wake.c, OnAck and the quarantine of retire/Step).                  *)
(***************************************************************************)
AckAttribution == state = "WAIT_ACK" /\ acked => outReceived

(***************************************************************************)
(* While a queued frame is outstanding it stays at the head of the queue,   *)
(* so that retire() pops the frame that was sent and nothing else, and the  *)
(* count never underflows (host_wake.c, send_next and retire).              *)
(***************************************************************************)
OutstandingIsHead ==
  state = "WAIT_ACK" =>
    IF sending_latest THEN out \in Led ELSE queue # <<>> /\ out = Head(queue)

(***************************************************************************)
(* The host's LED state is the newest one set whenever the sender is idle,  *)
(* or the loss is on record: flagged in latest_lost or taken by the owner   *)
(* (host_wake.c, SetLatest while a copy is out, retire's latest_lost).      *)
(***************************************************************************)
LedConverges ==
  HostWake_Idle => hostLed = latest_val \/ latest_lost \/ owed

(***************************************************************************)
(* A frame is sent only once CHWAKE has been high for the guard time: the   *)
(* host is awake for every copy, first frames, followers and resends alike  *)
(* (host_wake.c, the GUARD state and the line driven by each return).       *)
(***************************************************************************)
Sends == \E c \in wire' \ wire : c.age = 0 /\ ~c.got

SentToAwakeHost == [][Sends => line /\ lineAge >= Guard]_vars

(***************************************************************************)
(* Neither path starves the other (host_wake.c, send_next's last_latest):   *)
(* under endless LED changes a queued frame still leaves the queue,          *)
(* acknowledged or abandoned, and under endless status traffic a value       *)
(* waiting in the slot is still sent.                                        *)
(***************************************************************************)
NothingStarves ==
  /\ []<>(queue = <<>>) \/ []<><<queue # <<>> /\ queue' = Tail(queue)>>_vars
  /\ latest_pending ~> sending_latest

(***************************************************************************)
(* The LED path is a slot for the newest value, as the LED relay of         *)
(* rf_task.c takes it to be (host_wake.c, SetLatest, send_next and retire): *)
(* through resends, late copies and abandoned ones it is done with the slot *)
(* only when the host has the newest value or the loss is flagged.          *)
(***************************************************************************)
Slot == INSTANCE LatestSlot
          WITH val <- latest_val, busy <- latest_pending \/ sending_latest,
               host <- hostLed, lost <- latest_lost, owed <- owed

ImplementsLatestSlot == Slot!Spec
=============================================================================
