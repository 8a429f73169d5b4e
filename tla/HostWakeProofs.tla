--------------------------- MODULE HostWakeProofs ---------------------------
(***************************************************************************)
(* Proofs about HostWake for every queue size, guard, timeout, number of    *)
(* attempts and set of frames: what is delivered and when the host is       *)
(* spoken to, that the LED path implements LatestSlot, and that the drain   *)
(* budget of keyboard_uart.h is enough.                                     *)
(***************************************************************************)
EXTENDS HostWakeDrain, TLAPS

(***************************************************************************)
(* The inductive invariant, in named parts.                                 *)
(***************************************************************************)

\* Every copy whose ACK may still arrive is a copy of the outstanding or last
\* frame, no younger than the current wait and less than two timeouts old.
WireInv ==
  \A c \in wire :
    /\ ~c.stale
    /\ c.frame = out
    /\ c.age >= age
    /\ c.age < Quarantine
    /\ c.got => outReceived

\* Nothing is in flight when no frame is outstanding or quarantined; a frame
\* sent once and acknowledged has no other copy.
AckInv ==
  /\ state \in {"IDLE", "GUARD"} => wire = {}
  /\ acked => state = "WAIT_ACK" /\ outReceived
  /\ state = "WAIT_ACK" =>
       /\ attempts >= 1
       /\ \A c \in wire : c.n <= attempts
       /\ \A c, d \in wire : c.n = d.n => c = d
       /\ acked /\ attempts = 1 => wire = {}

\* There is something to send when the guard ends, and what is outstanding is
\* what retire() will pop.
QueueInv ==
  /\ state = "GUARD" => have_pending
  /\ latest_pending => latest_val \in Led
  /\ state = "WAIT_ACK" => out \in Frames
  /\ OutstandingIsHead

\* CHWAKE is high exactly outside IDLE, for the guard time once a frame was sent.
LineInv ==
  /\ line <=> state # "IDLE"
  /\ state = "IDLE" => lineAge = 0
  /\ state = "GUARD" => lineAge >= Least(age, Guard)
  /\ state \in {"WAIT_ACK", "QUARANTINE"} => lineAge >= Guard

\* The newest LED state is waiting, outstanding, with the host, or on record as
\* lost; a copy in flight never carries an older one unless a newer one waits.
LedInv ==
  /\ \/ latest_pending \/ latest_lost \/ owed
     \/ hostLed = latest_val
     \/ state = "WAIT_ACK" /\ sending_latest
  /\ wire # {} /\ out \in Led => latest_pending \/ out = latest_val
  /\ state = "WAIT_ACK" /\ sending_latest =>
       /\ latest_pending \/ out = latest_val
       /\ outReceived => hostLed = out

IInv == TypeOK /\ WireInv /\ AckInv /\ QueueInv /\ LineInv /\ LedInv
-----------------------------------------------------------------------------
LEMMA ConstantTypes ==
  /\ Quarantine \in Nat /\ Quarantine >= 2
  /\ MaxAge \in Nat /\ MaxAge >= Quarantine
  /\ max_attempts \in Nat /\ max_attempts >= 1
BY TicksAssumption DEF Quarantine, MaxAge, max_attempts

LEMMA InitInv == Init => IInv
<1> SUFFICES ASSUME Init PROVE IInv
  OBVIOUS
<1> USE DEF Init, HostWake_Init
<1>1. TypeOK
  <2>1. FlagsOK
    BY Zenon DEF FlagsOK
  <2>2. FieldsOK
    BY TicksAssumption, ConstantTypes DEF FieldsOK, States
  <2> QED
    BY <2>1, <2>2 DEF TypeOK
<1>2. WireInv /\ AckInv /\ QueueInv
  BY DEF WireInv, AckInv, QueueInv, OutstandingIsHead
<1>3. LineInv /\ LedInv
  BY DEF LineInv, LedInv
<1> QED
  BY <1>1, <1>2, <1>3 DEF IInv

\* Sending the next frame from a state with nothing in flight.
LEMMA SendNextInv ==
  ASSUME TypeOK, wire = {}, line, lineAge >= Guard,
         NEW q \in Seq(Status), Len(q) <= QueueSize, queue' = q,
         q # <<>> \/ latest_pending,
         latest_pending => latest_val \in Led,
         latest_pending \/ latest_lost \/ owed \/ hostLed = latest_val,
         send_next(q), UNCHANGED <<hostLed, owed>>
  PROVE  IInv'
<1> DEFINE frame == IF slot_first(q) THEN latest_val ELSE Head(q)
<1>1. frame \in Frames /\ (slot_first(q) => frame \in Led)
      /\ (~slot_first(q) => q # <<>> /\ frame = Head(q))
  BY DEF slot_first, Frames
<1>2. /\ out' = frame /\ attempts' = 1 /\ age' = 0 /\ acked' = FALSE
      /\ state' = "WAIT_ACK" /\ line' = TRUE /\ lineAge' = lineAge
      /\ wire' = {SentCopy(frame, 1)} /\ outReceived' = FALSE
      /\ sending_latest' = slot_first(q) /\ last_latest' = slot_first(q)
      /\ latest_pending' = (latest_pending /\ ~slot_first(q))
      /\ UNCHANGED <<latest_val, latest_lost, hostLed, owed>>
  BY DEF send_next, transmit
<1>3. SentCopy(frame, 1) \in Copy
  BY <1>1, ConstantTypes DEF SentCopy, Copy
<1> HIDE DEF frame
<1>4. TypeOK'
  <2>1. FlagsOK'
    BY <1>2, Zenon DEF TypeOK, FlagsOK, slot_first
  <2>2. FieldsOK'
    BY <1>1, <1>2, <1>3, ConstantTypes, TicksAssumption
       DEF TypeOK, FieldsOK, States
  <2> QED
    BY <2>1, <2>2 DEF TypeOK
<1>5. WireInv'
  BY <1>2, ConstantTypes DEF WireInv, SentCopy
<1>6. AckInv'
  BY <1>2 DEF AckInv, SentCopy
<1>7. QueueInv'
  BY <1>1, <1>2 DEF QueueInv, OutstandingIsHead
<1>8. LineInv'
  BY <1>2 DEF LineInv
<1>9. LedInv'
  <2>1. CASE slot_first(q)
    BY <1>2, <2>1 DEF LedInv, frame
  <2>2. CASE ~slot_first(q)
    <3>1. out' \notin Led
      BY <1>1, <1>2, <2>2, FramesAssumption
    <3>2. ~sending_latest'
      BY <1>2, <2>2
    <3>3. latest_pending' \/ latest_lost' \/ owed' \/ hostLed' = latest_val'
      <4>1. latest_lost' = latest_lost /\ owed' = owed
            /\ (hostLed' = latest_val' <=> hostLed = latest_val)
        BY <1>2
      <4>2. latest_pending => latest_pending'
        BY <1>2, <2>2
      <4> QED
        BY <4>1, <4>2
    <3> QED
      BY <3>1, <3>2, <3>3 DEF LedInv
  <2> QED
    BY <2>1, <2>2
<1> QED
  BY <1>4, <1>5, <1>6, <1>7, <1>8, <1>9 DEF IInv
-----------------------------------------------------------------------------
(***************************************************************************)
(* The owner's calls.                                                      *)
(***************************************************************************)
LEMMA OwnerInv == IInv /\ Owner => IInv'
<1> USE DEF IInv, TypeOK, sendVars, slotVars, hostVars
<1>1. ASSUME IInv, NEW f \in Status, HostWake_Enqueue(f) PROVE IInv'
  <2> USE <1>1 DEF HostWake_Enqueue
  <2>1. FlagsOK'
    BY DEF FlagsOK
  <2>2. FieldsOK'
    BY TicksAssumption DEF FieldsOK
  <2>3. queue' # <<>> /\ (queue # <<>> => Head(queue') = Head(queue))
    BY DEF FieldsOK
  <2>4. WireInv' /\ AckInv'
    BY DEF WireInv, AckInv
  <2>5. QueueInv'
    BY <2>3 DEF QueueInv, OutstandingIsHead, have_pending
  <2>6. LineInv' /\ LedInv'
    BY DEF LineInv, LedInv
  <2> QED
    BY <2>1, <2>2, <2>4, <2>5, <2>6
<1>2. ASSUME IInv, NEW v \in Led, HostWake_SetLatest(v) PROVE IInv'
  <2> USE <1>2 DEF HostWake_SetLatest
  <2>1. FlagsOK'
    BY DEF FlagsOK
  <2>2. FieldsOK'
    BY DEF FieldsOK
  <2>3. WireInv' /\ AckInv'
    BY DEF WireInv, AckInv
  <2>4. QueueInv'
    BY DEF QueueInv, OutstandingIsHead, have_pending
  <2>5. LineInv' /\ LedInv'
    BY DEF LineInv, LedInv
  <2> QED
    BY <2>1, <2>2, <2>3, <2>4, <2>5
<1>3. ASSUME IInv, KeyboardUart_TakeLedLost PROVE IInv'
  <2> USE <1>3 DEF KeyboardUart_TakeLedLost
  <2>1. FlagsOK'
    BY DEF FlagsOK
  <2>2. FieldsOK'
    BY DEF FieldsOK
  <2>3. WireInv' /\ AckInv'
    BY DEF WireInv, AckInv
  <2>4. QueueInv'
    BY DEF QueueInv, OutstandingIsHead, have_pending
  <2>5. LineInv' /\ LedInv'
    BY DEF LineInv, LedInv
  <2> QED
    BY <2>1, <2>2, <2>3, <2>4, <2>5
<1> QED
  BY <1>1, <1>2, <1>3 DEF Owner
-----------------------------------------------------------------------------
(***************************************************************************)
(* HostWake_Step.                                                          *)
(***************************************************************************)

\* What retire() leaves queued.
LEMMA PoppedType ==
  ASSUME IInv, state = "WAIT_ACK"
  PROVE  popped \in Seq(Status) /\ Len(popped) <= QueueSize
<1>1. CASE sending_latest
  BY <1>1 DEF IInv, TypeOK, FieldsOK, popped
<1>2. CASE ~sending_latest
  <2>1. queue # <<>>
    BY <1>2 DEF IInv, QueueInv, OutstandingIsHead
  <2> QED
    BY <1>2, <2>1, TicksAssumption DEF IInv, TypeOK, FieldsOK, popped
<1> QED
  BY <1>1, <1>2

\* Two timeouts after the last send no ACK is on its way any more.
LEMMA QuarantineEmpties ==
  ASSUME IInv, age >= Quarantine
  PROVE  wire = {}
<1>1. \A c \in wire : c.age \in Nat /\ age \in Nat
  BY ConstantTypes DEF IInv, TypeOK, FieldsOK, Copy
<1> QED
  BY <1>1, ConstantTypes DEF IInv, WireInv

\* The steps that send a next frame.
LEMMA SendingInv ==
  IInv /\ (GuardElapsed \/ AckedNext \/ QuarantineNext) => IInv'
<1>1. ASSUME IInv, GuardElapsed PROVE IInv'
  <2>1. wire = {} /\ line /\ have_pending
    BY <1>1 DEF IInv, GuardElapsed, AckInv, LineInv, QueueInv
  <2>2. lineAge >= Guard
    BY <1>1, TicksAssumption, ConstantTypes
       DEF IInv, GuardElapsed, LineInv, Least, TypeOK, FieldsOK
  <2>3. latest_pending \/ latest_lost \/ owed \/ hostLed = latest_val
    BY <1>1 DEF IInv, LedInv, GuardElapsed
  <2> QED
    BY <1>1, <2>1, <2>2, <2>3, SendNextInv
       DEF IInv, TypeOK, FieldsOK, QueueInv, GuardElapsed, have_pending
<1>2. ASSUME IInv, AckedNext PROVE IInv'
  <2>1. wire = {} /\ line /\ lineAge >= Guard
    <3>1. attempts = 1
      BY <1>2, ConstantTypes DEF IInv, TypeOK, FieldsOK, AckInv, AckedNext
    <3> QED
      BY <1>2, <3>1 DEF IInv, AckInv, LineInv, AckedNext
  <2>2. popped \in Seq(Status) /\ Len(popped) <= QueueSize
    BY <1>2, PoppedType DEF AckedNext
  <2>3. latest_pending \/ latest_lost \/ owed \/ hostLed = latest_val
    BY <1>2 DEF IInv, LedInv, AckInv, AckedNext
  <2> QED
    BY <1>2, <2>1, <2>2, <2>3, SendNextInv DEF IInv, QueueInv, AckedNext
<1>3. ASSUME IInv, QuarantineNext PROVE IInv'
  <2>1. wire = {}
    BY <1>3, QuarantineEmpties DEF QuarantineNext
  <2>2. line /\ lineAge >= Guard
    BY <1>3 DEF IInv, LineInv, QuarantineNext
  <2>3. latest_pending \/ latest_lost \/ owed \/ hostLed = latest_val
    BY <1>3 DEF IInv, LedInv, QuarantineNext
  <2> QED
    BY <1>3, <2>1, <2>2, <2>3, SendNextInv
       DEF IInv, TypeOK, FieldsOK, QueueInv, QuarantineNext, have_pending
<1> QED
  BY <1>1, <1>2, <1>3

\* The steps that wake, retire, give up or fall idle.
LEMMA RetiringInv ==
  IInv /\ (WakeHost \/ AckedIdle \/ AckedResent \/ Abandon \/ QuarantineIdle)
    => IInv'
<1> USE DEF IInv, TypeOK, slotVars, hostVars
<1>1. ASSUME IInv, WakeHost PROVE IInv'
  <2> USE <1>1 DEF WakeHost
  <2>1. FlagsOK'
    BY DEF FlagsOK
  <2>2. FieldsOK'
    BY ConstantTypes DEF FieldsOK, States
  <2>3. WireInv' /\ AckInv'
    BY DEF WireInv, AckInv
  <2>4. QueueInv'
    BY DEF QueueInv, OutstandingIsHead, have_pending
  <2>5. LineInv' /\ LedInv'
    BY TicksAssumption DEF LineInv, LedInv, Least
  <2> QED
    BY <2>1, <2>2, <2>3, <2>4, <2>5
<1>2. ASSUME IInv, AckedIdle PROVE IInv'
  <2> USE <1>2 DEF AckedIdle, retire_to
  <2>1. FlagsOK'
    BY DEF FlagsOK
  <2>2. FieldsOK'
    BY PoppedType, ConstantTypes, TicksAssumption DEF FieldsOK, States
  <2>3. wire = {} /\ outReceived
    BY ConstantTypes DEF FieldsOK, AckInv
  <2>4. WireInv' /\ AckInv'
    BY <2>3 DEF WireInv, AckInv
  <2>5. QueueInv'
    BY DEF QueueInv, OutstandingIsHead
  <2>6. LineInv' /\ LedInv'
    BY <2>3 DEF LineInv, LedInv
  <2> QED
    BY <2>1, <2>2, <2>4, <2>5, <2>6
<1>3. ASSUME IInv, AckedResent PROVE IInv'
  <2> USE <1>3 DEF AckedResent, retire_to
  <2>1. FlagsOK'
    BY DEF FlagsOK
  <2>2. FieldsOK'
    BY PoppedType, ConstantTypes DEF FieldsOK, States
  <2>3. WireInv' /\ AckInv'
    BY DEF WireInv, AckInv
  <2>4. QueueInv'
    BY DEF QueueInv, OutstandingIsHead
  <2>5. LineInv' /\ LedInv'
    BY DEF LineInv, LedInv, AckInv
  <2> QED
    BY <2>1, <2>2, <2>3, <2>4, <2>5
<1>4. ASSUME IInv, Abandon PROVE IInv'
  <2> USE <1>4 DEF Abandon, retire_to
  <2>1. FlagsOK'
    BY Zenon DEF FlagsOK
  <2>2. FieldsOK'
    BY PoppedType, ConstantTypes DEF FieldsOK, States
  <2>3. WireInv' /\ AckInv'
    BY DEF WireInv, AckInv
  <2>4. QueueInv'
    BY DEF QueueInv, OutstandingIsHead
  <2>5. LineInv' /\ LedInv'
    BY DEF LineInv, LedInv
  <2> QED
    BY <2>1, <2>2, <2>3, <2>4, <2>5
<1>5. ASSUME IInv, QuarantineIdle PROVE IInv'
  <2> USE <1>5 DEF QuarantineIdle, go_idle
  <2>1. FlagsOK'
    BY DEF FlagsOK
  <2>2. FieldsOK'
    BY TicksAssumption DEF FieldsOK, States
  <2>3. wire = {}
    BY QuarantineEmpties
  <2>4. WireInv' /\ AckInv'
    BY <2>3 DEF WireInv, AckInv
  <2>5. QueueInv'
    BY DEF QueueInv, OutstandingIsHead
  <2>6. LineInv' /\ LedInv'
    BY DEF LineInv, LedInv
  <2> QED
    BY <2>1, <2>2, <2>4, <2>5, <2>6
<1> QED
  BY <1>1, <1>2, <1>3, <1>4, <1>5

\* A further copy of the outstanding frame is numbered above every earlier one.
LEMMA ResendInv == IInv /\ Resend => IInv'
<1> SUFFICES ASSUME IInv, Resend PROVE IInv'
  OBVIOUS
<1> DEFINE copy == SentCopy(out, attempts + 1)
<1> USE DEF IInv, TypeOK, slotVars, Resend, transmit
<1>1. attempts \in Nat /\ attempts >= 1 /\ attempts + 1 \in 1..max_attempts
  BY ConstantTypes DEF FieldsOK, AckInv
<1>2. copy \in Copy
  BY <1>1, ConstantTypes DEF QueueInv, SentCopy, Copy
<1>3. FlagsOK'
  BY DEF FlagsOK
<1>4. FieldsOK'
  BY <1>1, <1>2, ConstantTypes DEF FieldsOK, States
<1>5. \A c \in wire : c.age \in Nat /\ c.n \in Nat
  BY ConstantTypes DEF FieldsOK, Copy
<1>6. WireInv'
  BY <1>5, ConstantTypes DEF WireInv, SentCopy
<1>7. AckInv'
  <2>1. \A c \in wire : c.n <= attempts
    BY DEF AckInv
  <2>2. copy.n = attempts + 1
    BY DEF SentCopy
  <2>3. wire' = wire \cup {copy}
    OBVIOUS
  <2> HIDE DEF copy
  <2> QED
    BY <1>1, <1>5, <2>1, <2>2, <2>3 DEF AckInv
<1>8. QueueInv'
  BY DEF QueueInv, OutstandingIsHead
<1>9. LineInv'
  BY DEF LineInv
<1>10. LedInv'
  <2>1. out \in Led => sending_latest
    BY FramesAssumption DEF FieldsOK, QueueInv, OutstandingIsHead
  <2> QED
    BY <2>1 DEF LedInv
<1> QED
  BY <1>3, <1>4, <1>6, <1>7, <1>8, <1>9, <1>10
-----------------------------------------------------------------------------
(***************************************************************************)
(* The host, the wire and time.                                            *)
(***************************************************************************)
LEMMA SettleInv == IInv /\ Settle => IInv'
<1> USE DEF IInv, TypeOK, sendVars, slotVars
<1>1. ASSUME IInv, NEW c \in wire, HostAck(c) PROVE IInv'
  <2> USE <1>1 DEF HostAck, HostWake_OnAck
  <2>1. FlagsOK'
    BY Zenon DEF FlagsOK
  <2>2. FieldsOK'
    BY DEF FieldsOK
  <2>3. WireInv'
    BY DEF WireInv
  <2>4. AckInv'
    <3>1. acked' => state = "WAIT_ACK" /\ outReceived
      BY DEF AckInv, WireInv
    <3>2. ASSUME state = "WAIT_ACK", attempts = 1 PROVE wire' = {}
      <4>1. \A d \in wire : d.n = 1
        BY <3>2 DEF AckInv, FieldsOK, Copy
      <4> QED
        BY <3>2, <4>1 DEF AckInv
    <3> QED
      BY <3>1, <3>2 DEF AckInv
  <2>5. QueueInv'
    BY DEF QueueInv, OutstandingIsHead, have_pending
  <2>6. LineInv' /\ LedInv'
    BY DEF LineInv, LedInv
  <2> QED
    BY <2>1, <2>2, <2>3, <2>4, <2>5, <2>6
<1>2. ASSUME IInv, NEW c \in wire, Lose(c) PROVE IInv'
  <2> USE <1>2 DEF Lose
  <2>1. FlagsOK'
    BY DEF FlagsOK
  <2>2. FieldsOK'
    BY DEF FieldsOK
  <2>3. WireInv' /\ AckInv'
    BY DEF WireInv, AckInv
  <2>4. QueueInv'
    BY DEF QueueInv, OutstandingIsHead, have_pending
  <2>5. LineInv' /\ LedInv'
    BY DEF LineInv, LedInv
  <2> QED
    BY <2>1, <2>2, <2>3, <2>4, <2>5
<1> QED
  BY <1>1, <1>2 DEF Settle

LEMMA HostReceiveInv ==
  ASSUME IInv, NEW c \in wire, HostReceive(c)
  PROVE  IInv'
<1> DEFINE copy == [c EXCEPT !.got = TRUE]
<1> USE DEF IInv, TypeOK, sendVars, slotVars, HostReceive
<1>1. c \in Copy /\ copy \in Copy
  BY DEF FieldsOK, Copy
<1>2. /\ copy.frame = c.frame /\ copy.n = c.n /\ copy.age = c.age
      /\ copy.got /\ (copy.stale <=> c.stale)
  BY <1>1 DEF Copy
<1>3. c.frame = out /\ ~c.stale
  BY DEF WireInv
<1>4. outReceived' /\ hostLed' = IF out \in Led THEN out ELSE hostLed
  BY <1>3
<1>5. wire' = (wire \ {c}) \cup {copy}
  OBVIOUS
<1> HIDE DEF copy, HostReceive
<1>6. /\ UNCHANGED <<state, queue, attempts, acked, sending_latest, last_latest,
                     age, latest_pending, latest_val, latest_lost, out, line,
                     lineAge, owed>>
      /\ outReceived' \in BOOLEAN
  BY Zenon DEF HostReceive, FlagsOK
<1>7. FlagsOK'
  BY <1>6 DEF FlagsOK
<1>8. FieldsOK'
  BY <1>1, <1>4, <1>5, <1>6 DEF FieldsOK, Frames
<1>9. WireInv'
  BY <1>2, <1>3, <1>4, <1>5, <1>6 DEF WireInv
<1>10. AckInv'
  BY <1>2, <1>4, <1>5, <1>6 DEF AckInv
<1>11. QueueInv'
  BY <1>6 DEF QueueInv, OutstandingIsHead, have_pending
<1>12. LineInv'
  BY <1>6 DEF LineInv
<1>13. LedInv'
  BY <1>4, <1>6 DEF LedInv, QueueInv, OutstandingIsHead
<1> QED
  BY <1>7, <1>8, <1>9, <1>10, <1>11, <1>12, <1>13

LEMMA TickInv == IInv /\ Tick => IInv'
<1> SUFFICES ASSUME IInv, Tick PROVE IInv'
  OBVIOUS
<1> DEFINE older(c) == [c EXCEPT !.age = @ + 1]
<1> USE DEF IInv, TypeOK, slotVars, Tick
<1>1. ASSUME NEW c \in wire
      PROVE  /\ older(c) \in Copy
             /\ older(c).frame = c.frame /\ older(c).n = c.n
             /\ older(c).age = c.age + 1 /\ older(c).age < Quarantine
             /\ (older(c).got <=> c.got) /\ (older(c).stale <=> c.stale)
             /\ c.age \in Nat
  <2>1. c \in Copy
    BY DEF FieldsOK
  <2>2. c.age \in Nat /\ c.age + 1 \in 0..Quarantine /\ c.age + 1 < Quarantine
    BY <2>1, ConstantTypes DEF Copy
  <2>3. older(c) \in Copy
    BY <2>1, <2>2 DEF Copy
  <2> QED
    BY <2>1, <2>2, <2>3 DEF Copy
<1>2. wire' = {older(c) : c \in wire}
  OBVIOUS
<1>3. age' \in 0..MaxAge /\ age' <= age + 1
  BY ConstantTypes DEF FieldsOK, Least
<1>4. lineAge' \in 0..Guard /\ lineAge' >= lineAge
  BY TicksAssumption DEF FieldsOK, Least
<1> HIDE DEF older
<1>5. FlagsOK'
  BY DEF FlagsOK
<1>6. FieldsOK'
  BY <1>1, <1>2, <1>3, <1>4 DEF FieldsOK
<1>7. WireInv'
  <2>1. ASSUME NEW c \in wire
        PROVE  /\ ~older(c).stale /\ older(c).frame = out'
               /\ older(c).age >= age' /\ older(c).age < Quarantine
               /\ older(c).got => outReceived'
    <3>1. c.age >= age /\ age \in Nat /\ age' \in Nat
      BY <1>3, ConstantTypes DEF WireInv, FieldsOK
    <3> QED
      BY <1>1, <1>3, <3>1 DEF WireInv
  <2> QED
    BY <1>2, <2>1 DEF WireInv
<1>8. AckInv'
  BY <1>1, <1>2 DEF AckInv
<1>9. QueueInv'
  BY DEF QueueInv, OutstandingIsHead, have_pending
<1>10. LineInv'
  BY <1>3, <1>4, TicksAssumption, ConstantTypes DEF LineInv, FieldsOK, Least
<1>11. LedInv'
  BY <1>2 DEF LedInv
<1> QED
  BY <1>5, <1>6, <1>7, <1>8, <1>9, <1>10, <1>11
-----------------------------------------------------------------------------
LEMMA StepInv == IInv /\ [Next]_vars => IInv'
<1> SUFFICES ASSUME IInv, [Next]_vars PROVE IInv'
  OBVIOUS
<1>1. CASE HostWake_Step
  BY <1>1, SendingInv, RetiringInv, ResendInv DEF HostWake_Step
<1>2. ASSUME NEW c \in wire, HostReceive(c) PROVE IInv'
  BY <1>2, HostReceiveInv
<1>3. CASE UNCHANGED vars
  <2> USE <1>3 DEF vars, sendVars, slotVars, hostVars
  <2>1. TypeOK'
    BY DEF IInv, TypeOK, FlagsOK, FieldsOK
  <2>2. WireInv' /\ AckInv'
    BY DEF IInv, WireInv, AckInv
  <2>3. QueueInv'
    BY DEF IInv, QueueInv, OutstandingIsHead, have_pending
  <2>4. LineInv' /\ LedInv'
    BY DEF IInv, LineInv, LedInv
  <2> QED
    BY <2>1, <2>2, <2>3, <2>4 DEF IInv
<1> QED
  BY <1>1, <1>2, <1>3, OwnerInv, SettleInv, TickInv DEF Next

(***************************************************************************)
(* The invariant of every behaviour.                                       *)
(***************************************************************************)
THEOREM Invariance == Spec => []IInv
BY InitInv, StepInv, PTL DEF Spec

(***************************************************************************)
(* The queue never grows past HOST_WAKE_QUEUE_SIZE and the attempts never   *)
(* past max_attempts, in host_wake.c's Enqueue, transmit and retire.        *)
(***************************************************************************)
THEOREM TypeCorrect == Spec => []TypeOK
<1>1. IInv => TypeOK
  BY DEF IInv
<1> QED
  BY Invariance, <1>1, PTL

(***************************************************************************)
(* host_wake.c never retires a frame on another frame's ACK: the ACK held    *)
(* for the outstanding frame follows the host's receipt of that frame.      *)
(***************************************************************************)
THEOREM AcksAttributed == Spec => []AckAttribution
<1>1. IInv => AckAttribution
  BY DEF IInv, AckInv, AckAttribution
<1> QED
  BY Invariance, <1>1, PTL

(***************************************************************************)
(* retire() in host_wake.c pops exactly the frame that send_next sent.      *)
(***************************************************************************)
THEOREM PopsWhatWasSent == Spec => []OutstandingIsHead
<1>1. IInv => OutstandingIsHead
  BY DEF IInv, QueueInv
<1> QED
  BY Invariance, <1>1, PTL

(***************************************************************************)
(* An idle sender's host shows the newest LED state, or host_wake.c has put  *)
(* the loss on record for its owner.                                        *)
(***************************************************************************)
THEOREM LedDelivered == Spec => []LedConverges
<1>1. IInv => LedConverges
  BY DEF IInv, LedInv, LedConverges, HostWake_Idle, have_pending
<1> QED
  BY Invariance, <1>1, PTL

LEMMA SendingStep ==
  ASSUME IInv, [Next]_vars, Sends
  PROVE  line /\ lineAge >= Guard
<1> USE DEF IInv
<1>1. CASE Resend \/ AckedNext \/ QuarantineNext
  BY <1>1 DEF Resend, AckedNext, QuarantineNext, LineInv
<1>2. CASE GuardElapsed
  BY <1>2, TicksAssumption, ConstantTypes
     DEF GuardElapsed, LineInv, Least, TypeOK, FieldsOK
<1>3. CASE wire' \subseteq wire
  BY <1>3 DEF Sends
<1>4. ASSUME NEW c \in wire, HostReceive(c) PROVE FALSE
  <2>1. [c EXCEPT !.got = TRUE].got
    BY DEF TypeOK, FieldsOK, Copy
  <2> QED
    BY <1>4, <2>1 DEF HostReceive, Sends
<1>5. CASE Tick
  <2>1. \A c \in wire : [c EXCEPT !.age = @ + 1].age # 0
    BY ConstantTypes DEF TypeOK, FieldsOK, Copy
  <2> QED
    BY <1>5, <2>1 DEF Tick, Sends
<1>6. CASE Owner \/ WakeHost \/ AckedIdle \/ AckedResent \/ Abandon
             \/ QuarantineIdle \/ Settle \/ UNCHANGED vars
  <2>1. wire' \subseteq wire
    BY <1>6 DEF Owner, HostWake_Enqueue, HostWake_SetLatest,
         KeyboardUart_TakeLedLost, WakeHost, AckedIdle, AckedResent, Abandon,
         QuarantineIdle, Settle, HostAck, Lose, vars, hostVars
  <2> QED
    BY <1>3, <2>1
<1> QED
  BY <1>1, <1>2, <1>4, <1>5, <1>6 DEF Next, HostWake_Step

(***************************************************************************)
(* host_wake.c sends, first or again, only to a host that CHWAKE has kept    *)
(* awake for the guard time.                                                *)
(***************************************************************************)
THEOREM AwakeWhenSent == Spec => SentToAwakeHost
<1>1. IInv /\ [Next]_vars => [Sends => line /\ lineAge >= Guard]_vars
  BY SendingStep
<1> QED
  BY Invariance, <1>1, PTL DEF Spec, SentToAwakeHost

-----------------------------------------------------------------------------
(***************************************************************************)
(* The LED path of host wake implements LatestSlot, for every instance.     *)
(*                                                                         *)
(* The mapping takes the slot to be busy while a value waits or is out, so   *)
(* that a step of the sender is Finish exactly when it retires the only LED  *)
(* value at hand; IInv says what the host shows by then.                    *)
(***************************************************************************)

busy == latest_pending \/ sending_latest

\* Only an outstanding frame is taken from the slot.
SlotInv == IInv /\ (state # "WAIT_ACK" => ~sending_latest)

\* What a step does to the slot as its owner sees it.
SlotStep == [Slot!Next]_(Slot!vars)

SameSlot == /\ (latest_pending' \/ sending_latest') <=> busy
            /\ UNCHANGED <<latest_val, hostLed, latest_lost, owed>>

LEMMA SameSlotStutters == SameSlot => SlotStep
BY Zenon DEF SameSlot, SlotStep, Slot!vars, busy

\* The outstanding value goes and none waits: the slot is done.
LEMMA Finishes ==
  ASSUME sending_latest, ~latest_pending, ~latest_pending', ~sending_latest',
         UNCHANGED <<latest_val, hostLed, owed>>,
         latest_lost' \in {latest_lost, TRUE},
         hostLed = latest_val \/ latest_lost'
  PROVE  SlotStep
<1>1. Slot!Finish
  BY Zenon DEF Slot!Finish
<1> QED
  BY <1>1 DEF SlotStep, Slot!Next
-----------------------------------------------------------------------------
\* send_next moves a waiting value from the slot to the wire.
LEMMA SendNextSlot ==
  ASSUME TypeOK, NEW q, send_next(q)
  PROVE  /\ (latest_pending' \/ sending_latest') <=> latest_pending
         /\ UNCHANGED <<latest_val, latest_lost>>
BY Zenon DEF send_next, slot_first, TypeOK, FlagsOK

\* An acknowledged LED value is the host's, and the newest unless one waits.
LEMMA AckedValue ==
  ASSUME IInv, state = "WAIT_ACK", acked, sending_latest, ~latest_pending
  PROVE  hostLed = latest_val
BY DEF IInv, AckInv, LedInv

LEMMA AckedSlot ==
  ASSUME IInv, AckedNext \/ AckedIdle \/ AckedResent
  PROVE  SlotStep
<1>1. /\ (latest_pending' \/ sending_latest') <=> latest_pending
      /\ UNCHANGED <<latest_val, latest_lost, hostLed, owed>>
      /\ state = "WAIT_ACK" /\ acked
  <2>1. CASE AckedNext
    BY <2>1, SendNextSlot, Zenon DEF IInv, AckedNext
  <2>2. CASE AckedIdle \/ AckedResent
    <3>1. /\ UNCHANGED <<latest_pending, latest_val, latest_lost, hostLed, owed>>
          /\ state = "WAIT_ACK" /\ acked /\ ~sending_latest'
      BY <2>2 DEF AckedIdle, AckedResent, retire_to, slotVars, hostVars
    <3> QED
      BY <3>1, Zenon
  <2> QED
    BY <2>1, <2>2
<1>2. CASE sending_latest /\ ~latest_pending
  <2>1. hostLed = latest_val
    BY <1>1, <1>2, AckedValue
  <2> QED
    BY <1>1, <1>2, <2>1, Finishes
<1>3. CASE ~(sending_latest /\ ~latest_pending)
  BY <1>1, <1>3, SameSlotStutters, Zenon DEF SameSlot, busy
<1> QED
  BY <1>2, <1>3

LEMMA AbandonSlot == ASSUME IInv, Abandon PROVE SlotStep
<1>1. /\ ~sending_latest' /\ latest_pending' = latest_pending
      /\ latest_lost' = (latest_lost \/ (sending_latest /\ ~latest_pending))
      /\ UNCHANGED <<latest_val, hostLed, owed>>
      /\ latest_lost \in BOOLEAN
  BY Zenon DEF Abandon, retire_to, hostVars, IInv, TypeOK, FlagsOK
<1>2. CASE sending_latest /\ ~latest_pending
  <2>1. latest_lost' = TRUE
    BY <1>1, <1>2, Zenon
  <2> QED
    BY <1>1, <1>2, <2>1, Finishes, Zenon
<1>3. CASE ~(sending_latest /\ ~latest_pending)
  <2>1. latest_lost' = latest_lost
    BY <1>1, <1>3, Zenon
  <2> QED
    BY <1>1, <1>3, <2>1, SameSlotStutters, Zenon DEF SameSlot, busy
<1> QED
  BY <1>2, <1>3

LEMMA SendingSlot ==
  ASSUME SlotInv, GuardElapsed \/ QuarantineNext
  PROVE  SlotStep
<1>1. /\ (latest_pending' \/ sending_latest') <=> latest_pending
      /\ UNCHANGED <<latest_val, latest_lost, hostLed, owed>>
      /\ ~sending_latest
  BY SendNextSlot, Zenon DEF SlotInv, IInv, GuardElapsed, QuarantineNext
<1> QED
  BY <1>1, SameSlotStutters, Zenon DEF SameSlot, busy

\* A copy that arrives once the slot is done carries what the host shows.
LEMMA ReceiveSlot ==
  ASSUME IInv, NEW c \in wire, HostReceive(c)
  PROVE  SlotStep
<1>1. /\ UNCHANGED <<latest_pending, sending_latest, latest_val, latest_lost,
                     owed>>
      /\ hostLed' = IF c.frame \in Led THEN c.frame ELSE hostLed
  BY DEF HostReceive, sendVars, slotVars
<1>2. CASE hostLed' = hostLed
  BY <1>1, <1>2, SameSlotStutters, Zenon DEF SameSlot, busy
<1>3. CASE hostLed' # hostLed
  <2>1. c.frame \in Led /\ c.frame = out /\ hostLed' = out
    BY <1>1, <1>3 DEF IInv, WireInv
  <2>2. busy \/ latest_lost \/ owed
    BY <1>3, <2>1 DEF IInv, LedInv, busy
  <2>3. Slot!HostGets
    BY <1>1, <2>1, <2>2, Zenon DEF Slot!HostGets, busy
  <2> QED
    BY <2>3 DEF SlotStep, Slot!Next
<1> QED
  BY <1>2, <1>3

LEMMA OwnerSlot == ASSUME Owner PROVE SlotStep
<1>1. ASSUME NEW f \in Status, HostWake_Enqueue(f) PROVE SlotStep
  <2>1. SameSlot
    BY <1>1, Zenon DEF HostWake_Enqueue, sendVars, slotVars, hostVars,
                       SameSlot, busy
  <2> QED
    BY <2>1, SameSlotStutters
<1>2. ASSUME NEW v \in Led, HostWake_SetLatest(v) PROVE SlotStep
  <2>1. Slot!Set(v)
    BY <1>2, Zenon DEF HostWake_SetLatest, Slot!Set, hostVars
  <2> QED
    BY <2>1 DEF SlotStep, Slot!Next
<1>3. CASE KeyboardUart_TakeLedLost
  <2>1. Slot!Take
    BY <1>3, Zenon DEF KeyboardUart_TakeLedLost, Slot!Take, sendVars, hostVars
  <2> QED
    BY <2>1 DEF SlotStep, Slot!Next
<1> QED
  BY <1>1, <1>2, <1>3 DEF Owner

LEMMA NextSlot ==
  ASSUME SlotInv, [Next]_vars
  PROVE  SlotStep
<1>1. IInv
  BY DEF SlotInv
<1>2. CASE HostWake_Step
  <2>1. CASE WakeHost \/ Resend \/ QuarantineIdle
    <3>1. UNCHANGED <<latest_pending, sending_latest, latest_val, hostLed,
                      latest_lost, owed>>
      BY <2>1 DEF WakeHost, Resend, QuarantineIdle, slotVars, hostVars
    <3> QED
      BY <3>1, SameSlotStutters, Zenon DEF SameSlot, busy
  <2> QED
    BY <1>1, <1>2, <2>1, AckedSlot, AbandonSlot, SendingSlot DEF HostWake_Step
<1>3. CASE Settle \/ Tick \/ UNCHANGED vars
  <2>1. UNCHANGED <<latest_pending, sending_latest, latest_val, hostLed,
                    latest_lost, owed>>
    BY <1>3 DEF Settle, HostAck, Lose, Tick, vars, sendVars, slotVars, hostVars
  <2> QED
    BY <2>1, SameSlotStutters, Zenon DEF SameSlot, busy
<1> QED
  BY <1>1, <1>2, <1>3, OwnerSlot, ReceiveSlot DEF Next
-----------------------------------------------------------------------------
LEMMA SlotInvInit == Init => SlotInv
BY InitInv DEF SlotInv, Init, HostWake_Init

LEMMA SlotInvStep == SlotInv /\ [Next]_vars => SlotInv'
<1> SUFFICES ASSUME SlotInv, [Next]_vars PROVE SlotInv'
  OBVIOUS
<1>1. IInv'
  BY StepInv DEF SlotInv
<1>2. state' # "WAIT_ACK" => ~sending_latest'
  <2> USE DEF SlotInv
  <2>1. CASE Owner \/ Settle \/ Tick \/ UNCHANGED vars
             \/ (\E c \in wire : HostReceive(c))
    BY <2>1 DEF Owner, HostWake_Enqueue, HostWake_SetLatest,
         KeyboardUart_TakeLedLost, Settle, HostAck, Lose, HostReceive, Tick,
         vars, sendVars
  <2>2. CASE GuardElapsed \/ AckedNext \/ QuarantineNext \/ Resend
    BY <2>2 DEF GuardElapsed, AckedNext, QuarantineNext, Resend, send_next,
                transmit
  <2>3. CASE AckedIdle \/ AckedResent \/ Abandon
    BY <2>3 DEF AckedIdle, AckedResent, Abandon, retire_to
  <2>4. CASE WakeHost \/ QuarantineIdle
    BY <2>4 DEF WakeHost, QuarantineIdle
  <2> QED
    BY <2>1, <2>2, <2>3, <2>4 DEF Next, HostWake_Step
<1> QED
  BY <1>1, <1>2 DEF SlotInv

(***************************************************************************)
(* host_wake.c's LED path is a slot for the newest value, which is all that  *)
(* the LED relay of rf_task.c relies on: whatever is lost, late or repeated, *)
(* it is done with a value only when the host shows the newest one or its    *)
(* loss is flagged for the owner.                                           *)
(***************************************************************************)
THEOREM SlotImplemented == Spec => ImplementsLatestSlot
<1>1. Init => Slot!Init
  BY Zenon DEF Init, HostWake_Init, Slot!Init
<1>2. SlotInv /\ [Next]_vars => SlotStep
  BY NextSlot
<1> QED
  BY <1>1, <1>2, SlotInvInit, SlotInvStep, PTL
     DEF Spec, ImplementsLatestSlot, Slot!Spec, SlotStep

-----------------------------------------------------------------------------
(***************************************************************************)
(* The drain budget of keyboard_uart.h is enough, for every queue size,     *)
(* guard, ACK timeout and number of attempts.                               *)
(*                                                                         *)
(* The argument is a measure: the ticks that the frames at hand can still   *)
(* take.  No step of the sender or of the host increases it, every tick     *)
(* takes one off, and whatever is added leaves it within the budget.        *)
(***************************************************************************)

\* What one frame can take once the host is awake.
FrameCost == (max_attempts + 1) * AckTimeout

One(b) == IF b THEN 1 ELSE 0
backlog == Len(queue) + One(latest_pending) + One(sending_latest)

\* What the outstanding frame has taken so far.
taken == (attempts - 1) * AckTimeout + age

Remaining ==
  CASE state = "IDLE" -> Guard + backlog * FrameCost
    [] state = "GUARD" -> (Guard - age) + backlog * FrameCost
    [] state = "WAIT_ACK" -> backlog * FrameCost - taken
    [] state = "QUARANTINE" -> backlog * FrameCost + (Quarantine - age)

Budget == Guard + (QueueSize + 2) * FrameCost

\* A step that is due is not waited past, and only an outstanding frame is
\* taken from the slot.
AgeInv ==
  /\ state = "GUARD" => age <= Guard
  /\ state = "WAIT_ACK" => age <= AckTimeout
  /\ state = "QUARANTINE" => age <= Quarantine
  /\ state # "WAIT_ACK" => ~sending_latest

DrainInv ==
  /\ spent \in Nat
  /\ AgeInv
  /\ HostWake_Idle \/ spent + Remaining <= Budget
-----------------------------------------------------------------------------
LEMMA Products ==
  ASSUME NEW n \in Nat, NEW m \in Nat, NEW p \in Nat
  PROVE  /\ n * p \in Nat
         /\ (n + 1) * p = n * p + p
         /\ n <= m => n * p <= m * p
<1>1. n * p \in Nat
  BY SMT
<1>2. (n + 1) * p = n * p + p
  BY SMT
<1>3. ASSUME n <= m PROVE n * p <= m * p
  <2>1. PICK d \in Nat : m = n + d
    <3>1. m - n \in Nat /\ m = n + (m - n)
      BY <1>3, SMT
    <3> QED
      BY <3>1
  <2>2. m * p = n * p + d * p /\ d * p \in Nat
    BY <2>1, SMT
  <2> QED
    BY <1>1, <2>2, SMT
<1> QED
  BY <1>1, <1>2, <1>3

LEMMA Costs ==
  /\ FrameCost \in Nat /\ FrameCost >= Quarantine
  /\ Quarantine = AckTimeout + AckTimeout
  /\ \A k \in 1..max_attempts :
       (k - 1) * AckTimeout \in Nat
         /\ k * AckTimeout = (k - 1) * AckTimeout + AckTimeout
         /\ k * AckTimeout + AckTimeout <= FrameCost
<1>1. Quarantine = AckTimeout + AckTimeout
  BY TicksAssumption, SMT DEF Quarantine
<1>2. FrameCost = max_attempts * AckTimeout + AckTimeout
  BY ConstantTypes, TicksAssumption, Products DEF FrameCost
<1>3. 1 * AckTimeout <= max_attempts * AckTimeout
  BY ConstantTypes, TicksAssumption, Products
<1>4. ASSUME NEW k \in 1..max_attempts
      PROVE  /\ (k - 1) * AckTimeout \in Nat
             /\ k * AckTimeout = (k - 1) * AckTimeout + AckTimeout
             /\ k * AckTimeout <= max_attempts * AckTimeout
  <2>1. k - 1 \in Nat /\ k \in Nat /\ k = (k - 1) + 1 /\ k <= max_attempts
    BY ConstantTypes, SMT
  <2> QED
    BY <2>1, ConstantTypes, TicksAssumption, Products
<1> QED
  BY <1>1, <1>2, <1>3, <1>4, ConstantTypes, TicksAssumption, SMT

LEMMA Counted ==
  ASSUME TypeOK
  PROVE  /\ backlog \in Nat /\ backlog * FrameCost \in Nat
         /\ backlog <= QueueSize + 2
         /\ ~sending_latest => backlog <= QueueSize + 1
         /\ backlog = 0 => ~have_pending
         /\ ~sending_latest /\ ~have_pending => backlog = 0
<1>1. Len(queue) \in Nat /\ Len(queue) <= QueueSize /\ queue \in Seq(Status)
  BY DEF TypeOK, FieldsOK
<1>2. One(latest_pending) \in 0..1 /\ One(sending_latest) \in 0..1
      /\ (One(latest_pending) = 0 <=> ~latest_pending)
      /\ (One(sending_latest) = 0 <=> ~sending_latest)
  BY DEF One
<1>3. queue = <<>> <=> Len(queue) = 0
  BY <1>1
<1>4. backlog \in Nat
  BY <1>1, <1>2, SMT DEF backlog
<1>5. backlog * FrameCost \in Nat
  BY <1>4, Costs, Products
<1> QED
  BY <1>1, <1>2, <1>3, <1>4, <1>5, TicksAssumption, SMT
     DEF backlog, have_pending

\* What is left is a natural number, and within the budget whatever is added.
LEMMA RemainingBounds ==
  ASSUME IInv, AgeInv
  PROVE  Remaining \in Nat /\ Remaining <= Budget
<1>1. /\ backlog \in Nat /\ backlog * FrameCost \in Nat
      /\ backlog * FrameCost <= (QueueSize + 2) * FrameCost
      /\ (QueueSize + 2) * FrameCost \in Nat
  <2>1. QueueSize + 2 \in Nat /\ FrameCost \in Nat
    BY TicksAssumption, Costs, SMT
  <2> QED
    BY <2>1, Counted, Products DEF IInv
<1>2. age \in Nat /\ Guard \in Nat /\ AckTimeout \in Nat /\ Quarantine \in Nat
  BY TicksAssumption, ConstantTypes DEF IInv, TypeOK, FieldsOK
<1>3. state \in States
  BY DEF IInv, TypeOK, FieldsOK
<1>4. CASE state = "IDLE"
  BY <1>1, <1>2, <1>4, SMT DEF Remaining, Budget
<1>5. CASE state = "GUARD"
  BY <1>1, <1>2, <1>5, SMT DEF Remaining, Budget, AgeInv
<1>6. CASE state = "WAIT_ACK"
  <2>1. backlog >= 1
    <3>1. sending_latest \/ have_pending
      BY <1>6 DEF IInv, QueueInv, OutstandingIsHead, have_pending
    <3>2. CASE sending_latest
      <4>1. One(latest_pending) \in Nat /\ One(sending_latest) = 1
        BY <3>2 DEF One
      <4>2. Len(queue) \in Nat
        BY DEF IInv, TypeOK, FieldsOK
      <4> QED
        BY <4>1, <4>2, SMT DEF backlog
    <3>3. CASE have_pending
      BY <1>1, <3>3, Counted, SMT DEF IInv
    <3> QED
      BY <3>1, <3>2, <3>3
  <2>2. 1 * FrameCost <= backlog * FrameCost
    BY <1>1, <2>1, Costs, Products
  <2>3. attempts \in 1..max_attempts
    BY <1>6, ConstantTypes, SMT DEF IInv, TypeOK, FieldsOK, AckInv
  <2>4. taken \in Nat /\ taken <= FrameCost
    BY <1>2, <1>6, <2>3, Costs, SMT DEF taken, AgeInv
  <2> QED
    BY <1>1, <1>2, <1>6, <2>2, <2>4, Costs, SMT DEF Remaining, Budget
<1>7. CASE state = "QUARANTINE"
  <2>1. backlog + 1 <= QueueSize + 2 /\ backlog + 1 \in Nat
        /\ QueueSize + 2 \in Nat
    BY <1>1, <1>7, Counted, TicksAssumption, SMT DEF IInv, AgeInv
  <2>2. (backlog + 1) * FrameCost <= (QueueSize + 2) * FrameCost
    BY <2>1, Costs, Products
  <2>3. (backlog + 1) * FrameCost = backlog * FrameCost + FrameCost
    BY <1>1, Costs, Products
  <2> QED
    BY <1>1, <1>2, <1>7, <2>2, <2>3, Costs, SMT DEF Remaining, Budget, AgeInv
<1> QED
  BY <1>3, <1>4, <1>5, <1>6, <1>7 DEF States
-----------------------------------------------------------------------------
\* A frame just sent has taken nothing yet, and send_next only moves the LED
\* state from the slot to the wire.
LEMMA SendNextRemaining ==
  ASSUME TypeOK, NEW q \in Seq(Status), queue' = q, send_next(q)
  PROVE  /\ AgeInv' /\ state' = "WAIT_ACK"
         /\ backlog' = Len(q) + One(latest_pending)
         /\ Remaining' = (Len(q) + One(latest_pending)) * FrameCost
<1>1. state' = "WAIT_ACK" /\ age' = 0 /\ attempts' = 1
  BY DEF send_next, transmit
<1>2. AgeInv'
  BY <1>1, TicksAssumption, SMT DEF AgeInv
<1>3. Len(q) \in Nat
  OBVIOUS
<1>4. One(latest_pending') + One(sending_latest') = One(latest_pending)
  <2>1. CASE slot_first(q)
    <3>1. sending_latest' /\ ~latest_pending' /\ latest_pending
      BY <2>1, Zenon DEF send_next, slot_first
    <3> QED
      BY <3>1 DEF One
  <2>2. CASE ~slot_first(q)
    <3>1. ~sending_latest' /\ (latest_pending' <=> latest_pending)
      BY <2>2, Zenon DEF send_next, TypeOK, FlagsOK
    <3> QED
      BY <3>1 DEF One
  <2> QED
    BY <2>1, <2>2
<1>5. One(latest_pending') \in Nat /\ One(sending_latest') \in Nat
      /\ One(latest_pending) \in Nat
  BY DEF One
<1>6. backlog' = Len(q) + One(latest_pending)
  BY <1>3, <1>4, <1>5, SMT DEF backlog
<1>7. taken' = 0
  BY <1>1, TicksAssumption, SMT DEF taken
<1>8. Remaining' = backlog' * FrameCost - taken'
  BY <1>1, Zenon DEF Remaining
<1>9. backlog' * FrameCost \in Nat
  <2>1. backlog' \in Nat
    BY <1>3, <1>5, <1>6, SMT
  <2> QED
    BY <2>1, Costs, Products
<1>10. Remaining' = backlog' * FrameCost
  BY <1>7, <1>8, <1>9, SMT
<1> QED
  BY <1>1, <1>2, <1>6, <1>10

\* Done with, the outstanding frame leaves the backlog.
LEMMA PoppedBacklog ==
  ASSUME IInv, state = "WAIT_ACK"
  PROVE  /\ Len(popped) + One(latest_pending) \in Nat
         /\ backlog = (Len(popped) + One(latest_pending)) + 1
         /\ backlog * FrameCost
              = (Len(popped) + One(latest_pending)) * FrameCost + FrameCost
<1>1. One(latest_pending) \in Nat
  BY DEF One
<1>2. Len(popped) \in Nat
  BY PoppedType
<1>3. Len(queue) + One(sending_latest) = Len(popped) + 1
  <2>1. CASE sending_latest
    BY <1>2, <2>1, SMT DEF popped, One
  <2>2. CASE ~sending_latest
    <3>1. queue # <<>> /\ queue \in Seq(Status)
      BY <2>2 DEF IInv, TypeOK, FieldsOK, QueueInv, OutstandingIsHead
    <3>2. popped = Tail(queue) /\ One(sending_latest) = 0
      BY <2>2 DEF popped, One
    <3>3. Len(Tail(queue)) = Len(queue) - 1 /\ Len(queue) \in Nat
      BY <3>1
    <3> QED
      BY <3>2, <3>3, SMT
  <2> QED
    BY <2>1, <2>2
<1>4. Len(queue) \in Nat /\ One(sending_latest) \in Nat
  BY DEF IInv, TypeOK, FieldsOK, One
<1>5. backlog = (Len(popped) + One(latest_pending)) + 1
  BY <1>1, <1>2, <1>3, <1>4, SMT DEF backlog
<1>6. Len(popped) + One(latest_pending) \in Nat
  BY <1>1, <1>2, SMT
<1> QED
  BY <1>5, <1>6, Costs, Products
-----------------------------------------------------------------------------
\* No step of the sender adds to what is left, unless it leaves nothing.
LEMMA StepRemaining ==
  ASSUME IInv, AgeInv, HostWake_Step
  PROVE  AgeInv' /\ (HostWake_Idle' \/ Remaining' <= Remaining)
<1>1. /\ age \in Nat /\ Guard \in Nat /\ AckTimeout \in Nat
      /\ Quarantine \in Nat /\ FrameCost \in Nat
      /\ queue \in Seq(Status) /\ TypeOK
      /\ backlog \in Nat /\ backlog * FrameCost \in Nat
  BY TicksAssumption, ConstantTypes, Costs, Counted DEF IInv, TypeOK, FieldsOK
<1>2. ASSUME state = "WAIT_ACK"
      PROVE  /\ attempts \in 1..max_attempts
             /\ Remaining = backlog * FrameCost - taken
             /\ (attempts - 1) * AckTimeout \in Nat
             /\ popped \in Seq(Status)
  <2>1. attempts \in 1..max_attempts
    BY <1>2, ConstantTypes, SMT DEF IInv, TypeOK, FieldsOK, AckInv
  <2>2. Remaining = backlog * FrameCost - taken
    BY <1>2, Zenon DEF Remaining
  <2> QED
    BY <1>2, <2>1, <2>2, Costs, PoppedType
<1>3. CASE WakeHost
  <2>1. UNCHANGED <<queue, latest_pending, sending_latest>>
        /\ state = "IDLE" /\ state' = "GUARD" /\ age' = 0
    BY <1>3 DEF WakeHost, slotVars
  <2>2. backlog' = backlog
    BY <2>1 DEF backlog
  <2>3. AgeInv'
    BY <1>1, <2>1, SMT DEF AgeInv
  <2>4. Remaining = Guard + backlog * FrameCost
        /\ Remaining' = (Guard - age') + backlog' * FrameCost
    BY <2>1, Zenon DEF Remaining
  <2> QED
    BY <1>1, <2>1, <2>2, <2>3, <2>4, SMT
<1>4. CASE GuardElapsed
  <2>1. state = "GUARD" /\ age >= Guard /\ queue' = queue /\ send_next(queue)
        /\ ~sending_latest
    BY <1>4 DEF GuardElapsed, AgeInv
  <2>2. AgeInv' /\ Remaining' = (Len(queue) + One(latest_pending)) * FrameCost
    BY <1>1, <2>1, SendNextRemaining
  <2>3. Remaining = (Guard - age) + backlog * FrameCost
    BY <2>1, Zenon DEF Remaining
  <2>4. backlog = Len(queue) + One(latest_pending)
    BY <1>1, <2>1 DEF backlog, One
  <2> QED
    BY <1>1, <2>1, <2>2, <2>3, <2>4, SMT DEF AgeInv
<1>5. CASE AckedNext
  <2>1. state = "WAIT_ACK" /\ attempts <= 1 /\ queue' = popped
        /\ send_next(popped)
    BY <1>5 DEF AckedNext
  <2>2. AgeInv' /\ Remaining' = (Len(popped) + One(latest_pending)) * FrameCost
    BY <1>1, <1>2, <2>1, SendNextRemaining
  <2>3. taken <= FrameCost /\ taken \in Nat
    <3>1. attempts * AckTimeout = (attempts - 1) * AckTimeout + AckTimeout
          /\ attempts * AckTimeout + AckTimeout <= FrameCost
      BY <1>2, <2>1, Costs, Zenon
    <3>2. taken = (attempts - 1) * AckTimeout + age /\ age <= AckTimeout
      BY <2>1, Zenon DEF taken, AgeInv
    <3>3. (attempts - 1) * AckTimeout \in Nat /\ age \in Nat
          /\ AckTimeout \in Nat /\ FrameCost \in Nat
      BY <1>1, <1>2, <2>1, Zenon
    <3> DEFINE before == (attempts - 1) * AckTimeout
               upto == attempts * AckTimeout
    <3>4. before \in Nat /\ upto = before + AckTimeout
          /\ upto + AckTimeout <= FrameCost /\ taken = before + age
      BY <3>1, <3>2, <3>3, Zenon
    <3> HIDE DEF before, upto
    <3> QED
      BY <3>2, <3>3, <3>4, SMT
  <2>4. backlog * FrameCost = Remaining' + FrameCost
    BY <2>1, <2>2, PoppedBacklog
  <2> QED
    BY <1>1, <1>2, <2>1, <2>2, <2>3, <2>4, SMT
<1>6. CASE AckedIdle
  <2>1. state' = "IDLE" /\ queue' = popped /\ popped = <<>>
        /\ ~latest_pending /\ latest_pending' = latest_pending
        /\ ~sending_latest'
    BY <1>6 DEF AckedIdle, retire_to, slotVars
  <2> QED
    BY <2>1 DEF AgeInv, HostWake_Idle, have_pending
<1>7. CASE AckedResent \/ Abandon
  <2>1. /\ state = "WAIT_ACK" /\ state' = "QUARANTINE" /\ queue' = popped
        /\ ~sending_latest' /\ age' = age /\ latest_pending' = latest_pending
        /\ attempts > 1 \/ (age >= AckTimeout /\ attempts >= max_attempts)
    BY <1>7 DEF AckedResent, Abandon, retire_to, slotVars
  <2>2. backlog' = Len(popped) + One(latest_pending)
    <3>1. One(sending_latest') = 0 /\ One(latest_pending) \in Nat
          /\ Len(popped) \in Nat
      BY <1>2, <2>1 DEF One
    <3> QED
      BY <2>1, <3>1, SMT DEF backlog
  <2>3. Remaining' = backlog' * FrameCost + (Quarantine - age')
    BY <2>1, Zenon DEF Remaining
  <2>4. backlog * FrameCost = backlog' * FrameCost + FrameCost
        /\ backlog' * FrameCost \in Nat
    <3>1. backlog' * FrameCost \in Nat
      BY <2>1, <2>2, PoppedBacklog, Costs, Products
    <3> QED
      BY <2>1, <2>2, <3>1, PoppedBacklog
  <2>5. AgeInv'
    BY <1>1, <2>1, Costs, SMT DEF AgeInv
  <2>6. taken + (Quarantine - age) <= FrameCost
    <3>1. taken = (attempts - 1) * AckTimeout + age
          /\ attempts * AckTimeout = (attempts - 1) * AckTimeout + AckTimeout
          /\ attempts * AckTimeout + AckTimeout <= FrameCost
      BY <1>2, <2>1, Costs DEF taken
    <3> QED
      BY <1>1, <1>2, <2>1, <3>1, Costs, SMT
  <2>7. taken \in Nat
    BY <1>1, <1>2, <2>1, SMT DEF taken
  <2> QED
    BY <1>1, <1>2, <2>1, <2>3, <2>4, <2>5, <2>6, <2>7, SMT
<1>8. CASE Resend
  <2>1. /\ state = "WAIT_ACK" /\ state' = "WAIT_ACK" /\ age' = 0
        /\ age >= AckTimeout /\ attempts' = attempts + 1
        /\ UNCHANGED <<queue, latest_pending, sending_latest>>
    BY <1>8 DEF Resend, transmit, slotVars
  <2>2. backlog' = backlog
    BY <2>1 DEF backlog
  <2>3. Remaining' = backlog' * FrameCost - taken'
    BY <2>1, Zenon DEF Remaining
  <2>4. AgeInv'
    BY <1>1, <2>1, SMT DEF AgeInv
  <2>5. age = AckTimeout
    BY <1>1, <2>1, SMT DEF AgeInv
  <2>6. taken' = attempts * AckTimeout
    <3>1. attempts' - 1 = attempts /\ age' = 0 /\ attempts * AckTimeout \in Nat
      BY <1>1, <1>2, <2>1, Costs, SMT
    <3> QED
      BY <3>1, SMT DEF taken
  <2>7. taken = attempts * AckTimeout /\ taken \in Nat
    BY <1>1, <1>2, <2>1, <2>5, Costs, SMT DEF taken
  <2> QED
    BY <1>1, <1>2, <2>1, <2>2, <2>3, <2>4, <2>6, <2>7, SMT
<1>9. CASE QuarantineNext
  <2>1. state = "QUARANTINE" /\ queue' = queue /\ send_next(queue)
        /\ ~sending_latest
    BY <1>9 DEF QuarantineNext, AgeInv
  <2>2. AgeInv' /\ Remaining' = (Len(queue) + One(latest_pending)) * FrameCost
    BY <1>1, <2>1, SendNextRemaining
  <2>3. Remaining = backlog * FrameCost + (Quarantine - age)
    BY <2>1, Zenon DEF Remaining
  <2>4. backlog = Len(queue) + One(latest_pending)
    BY <1>1, <2>1 DEF backlog, One
  <2> QED
    BY <1>1, <2>1, <2>2, <2>3, <2>4, SMT DEF AgeInv
<1>10. CASE QuarantineIdle
  <2>1. /\ state = "QUARANTINE" /\ state' = "IDLE" /\ ~have_pending
        /\ UNCHANGED <<queue, latest_pending, sending_latest>>
    BY <1>10 DEF QuarantineIdle, go_idle, slotVars
  <2> QED
    BY <2>1 DEF AgeInv, HostWake_Idle, have_pending
<1> QED
  BY <1>3, <1>4, <1>5, <1>6, <1>7, <1>8, <1>9, <1>10 DEF HostWake_Step
\* The owner's taking latest_lost, the host and the wire leave it alone.
LEMMA OthersRemaining ==
  ASSUME IInv, AgeInv,
         \/ KeyboardUart_TakeLedLost
         \/ Settle
         \/ \E c \in wire : HostReceive(c)
  PROVE  /\ AgeInv' /\ Remaining' = Remaining
         /\ HostWake_Idle => HostWake_Idle'
<1>1. UNCHANGED <<state, queue, latest_pending, sending_latest, attempts, age>>
  BY DEF KeyboardUart_TakeLedLost, Settle, HostAck, Lose, HostReceive,
         sendVars, slotVars
<1>2. backlog' = backlog /\ taken' = taken
  BY <1>1 DEF backlog, taken
<1>3. Remaining' = Remaining
  BY <1>1, <1>2, Zenon DEF Remaining
<1> QED
  BY <1>1, <1>3 DEF AgeInv, HostWake_Idle, have_pending

\* With nothing due, a tick takes one off.
LEMMA TickRemaining ==
  ASSUME IInv, AgeInv, PromptTick
  PROVE  /\ AgeInv'
         /\ IF HostWake_Idle THEN HostWake_Idle' ELSE Remaining' = Remaining - 1
<1>1. /\ UNCHANGED <<state, queue, latest_pending, sending_latest, attempts>>
      /\ age' = Least(age + 1, MaxAge) /\ ~due
  BY DEF PromptTick, Tick, slotVars
<1>2. /\ age \in Nat /\ Guard \in Nat /\ AckTimeout \in Nat
      /\ Quarantine \in Nat /\ backlog * FrameCost \in Nat /\ state \in States
      /\ MaxAge = Guard + Quarantine /\ AckTimeout <= Quarantine
  BY TicksAssumption, ConstantTypes, Costs, Counted
     DEF IInv, TypeOK, FieldsOK, MaxAge
<1>3. backlog' = backlog
  BY <1>1 DEF backlog
<1>4. CASE state = "IDLE"
  <2>1. HostWake_Idle
    BY <1>1, <1>4 DEF due, HostWake_Idle
  <2>2. AgeInv' /\ HostWake_Idle'
    BY <1>1, <1>4, <2>1 DEF HostWake_Idle, have_pending, AgeInv
  <2> QED
    BY <2>1, <2>2
<1>5. ASSUME state # "IDLE" PROVE ~HostWake_Idle
  BY <1>5 DEF HostWake_Idle
<1>6. CASE state = "GUARD"
  <2>1. age < Guard
    BY <1>1, <1>2, <1>6, SMT DEF due
  <2>2. age' = age + 1
    BY <1>1, <1>2, <2>1, SMT DEF Least
  <2>3. Remaining = (Guard - age) + backlog * FrameCost
        /\ Remaining' = (Guard - age') + backlog' * FrameCost
    BY <1>1, <1>6, Zenon DEF Remaining
  <2>4. AgeInv'
    BY <1>1, <1>2, <1>6, <2>1, <2>2, SMT DEF AgeInv
  <2>5. Remaining' = Remaining - 1
    BY <1>2, <1>3, <2>2, <2>3, SMT
  <2> QED
    BY <1>5, <1>6, <2>4, <2>5
<1>7. CASE state = "WAIT_ACK"
  <2>1. age < AckTimeout
    BY <1>1, <1>2, <1>7, SMT DEF due
  <2>2. age' = age + 1
    BY <1>1, <1>2, <2>1, SMT DEF Least
  <2>3. Remaining = backlog * FrameCost - taken
        /\ Remaining' = backlog' * FrameCost - taken'
    BY <1>1, <1>7, Zenon DEF Remaining
  <2>4. AgeInv'
    BY <1>1, <1>2, <1>7, <2>1, <2>2, SMT DEF AgeInv
  <2>5. taken' = taken + 1 /\ taken \in Nat
    <3>1. attempts \in 1..max_attempts
      BY <1>7, ConstantTypes, SMT DEF IInv, TypeOK, FieldsOK, AckInv
    <3>2. (attempts - 1) * AckTimeout \in Nat
      BY <3>1, Costs
    <3>3. taken' = (attempts - 1) * AckTimeout + age'
      BY <1>1 DEF taken
    <3> QED
      BY <1>2, <2>2, <3>2, <3>3, SMT DEF taken
  <2>6. Remaining' = Remaining - 1
    BY <1>2, <1>3, <2>3, <2>5, SMT
  <2> QED
    BY <1>5, <1>7, <2>4, <2>6
<1>8. CASE state = "QUARANTINE"
  <2>1. age < Quarantine
    BY <1>1, <1>2, <1>8, SMT DEF due
  <2>2. age' = age + 1
    BY <1>1, <1>2, <2>1, SMT DEF Least
  <2>3. Remaining = backlog * FrameCost + (Quarantine - age)
        /\ Remaining' = backlog' * FrameCost + (Quarantine - age')
    BY <1>1, <1>8, Zenon DEF Remaining
  <2>4. AgeInv'
    BY <1>1, <1>2, <1>8, <2>1, <2>2, SMT DEF AgeInv
  <2>5. Remaining' = Remaining - 1
    BY <1>2, <1>3, <2>2, <2>3, SMT
  <2> QED
    BY <1>5, <1>8, <2>4, <2>5
<1> QED
  BY <1>2, <1>4, <1>6, <1>7, <1>8 DEF States
-----------------------------------------------------------------------------
WithinBudget == Remaining \in Nat /\ Remaining <= Budget

LEMMA RemainingBoundsNext == IInv' /\ AgeInv' => WithinBudget'
<1>1. IInv /\ AgeInv => WithinBudget
  BY RemainingBounds DEF WithinBudget
<1> QED
  BY <1>1, PTL

DrainIInv == IInv /\ DrainInv

LEMMA DrainInitInv == DrainInit => DrainIInv
<1> SUFFICES ASSUME DrainInit PROVE DrainIInv
  OBVIOUS
<1>1. IInv
  BY InitInv DEF DrainInit
<1>2. AgeInv /\ HostWake_Idle /\ spent \in Nat
  BY DEF DrainInit, Init, HostWake_Init, AgeInv, HostWake_Idle, have_pending
<1> QED
  BY <1>1, <1>2 DEF DrainIInv, DrainInv

LEMMA DrainStepInv == DrainIInv /\ [DrainNext]_<<vars, spent>> => DrainIInv'
<1> SUFFICES ASSUME DrainIInv, [DrainNext]_<<vars, spent>> PROVE DrainIInv'
  OBVIOUS
<1>1. IInv /\ AgeInv /\ spent \in Nat
      /\ (HostWake_Idle \/ spent + Remaining <= Budget)
  BY DEF DrainIInv, DrainInv
<1>2. IInv'
  <2>1. [Next]_vars
    BY DEF DrainNext, Adds, Others, PromptTick, Next, Owner
  <2> QED
    BY <1>1, <2>1, StepInv
<1>3. Remaining \in Nat /\ Budget \in Nat
  <2>1. (QueueSize + 2) * FrameCost \in Nat
    <3>1. QueueSize + 2 \in Nat
      BY TicksAssumption, SMT
    <3> QED
      BY <3>1, Costs, Products
  <2>2. Budget \in Nat
    BY <2>1, TicksAssumption, SMT DEF Budget
  <2> QED
    BY <1>1, <2>2, RemainingBounds
<1>4. ASSUME AgeInv' PROVE Remaining' \in Nat /\ Remaining' <= Budget
  <2>1. Budget' = Budget
    BY DEF Budget, FrameCost, max_attempts
  <2> QED
    BY <1>2, <1>4, <2>1, RemainingBoundsNext DEF WithinBudget
<1>5. CASE Adds
  <2>1. spent' = 0 /\ UNCHANGED <<state, age, sending_latest>>
    BY <1>5 DEF Adds, HostWake_Enqueue, HostWake_SetLatest, sendVars
  <2>2. AgeInv'
    BY <1>1, <2>1 DEF AgeInv
  <2>3. spent' + Remaining' <= Budget
    BY <1>3, <1>4, <2>1, <2>2, SMT
  <2> QED
    BY <1>2, <2>1, <2>2, <2>3 DEF DrainIInv, DrainInv, Budget
<1>6. CASE Others
  <2>1. /\ AgeInv' /\ spent' = spent
        /\ HostWake_Idle' \/ (~HostWake_Idle /\ Remaining' <= Remaining)
    <3>1. CASE HostWake_Step
      <4>1. AgeInv' /\ (HostWake_Idle' \/ Remaining' <= Remaining)
        BY <1>1, <3>1, StepRemaining
      <4>2. ~HostWake_Idle
        BY <3>1 DEF HostWake_Idle, HostWake_Step, WakeHost, GuardElapsed,
              AckedNext, AckedIdle, AckedResent, Abandon, Resend,
              QuarantineNext, QuarantineIdle
      <4> QED
        BY <1>6, <4>1, <4>2 DEF Others
    <3>2. CASE ~HostWake_Step
      <4>1. AgeInv' /\ Remaining' = Remaining
            /\ (HostWake_Idle => HostWake_Idle')
        BY <1>1, <1>6, <3>2, OthersRemaining DEF Others
      <4> QED
        BY <1>3, <1>6, <4>1, SMT DEF Others
    <3> QED
      BY <3>1, <3>2
  <2>2. HostWake_Idle' \/ spent' + Remaining' <= Budget
    BY <1>1, <1>3, <1>4, <2>1, SMT
  <2> QED
    BY <1>1, <1>2, <2>1, <2>2 DEF DrainIInv, DrainInv, Budget
<1>7. CASE PromptTick
  <2>1. spent' = spent + 1
    BY <1>7 DEF PromptTick
  <2>2. /\ AgeInv'
        /\ IF HostWake_Idle THEN HostWake_Idle' ELSE Remaining' = Remaining - 1
    BY <1>1, <1>7, TickRemaining
  <2>3. HostWake_Idle' \/ spent' + Remaining' <= Budget
    BY <1>1, <1>3, <1>4, <2>1, <2>2, SMT
  <2>4. spent' \in Nat
    BY <1>1, <2>1, SMT
  <2> QED
    BY <1>2, <2>2, <2>3, <2>4 DEF DrainIInv, DrainInv, Budget
<1>8. CASE UNCHANGED <<vars, spent>>
  <2>1. UNCHANGED <<state, queue, latest_pending, sending_latest, attempts,
                    age, spent>>
    BY <1>8 DEF vars, sendVars, slotVars
  <2>2. backlog' = backlog /\ taken' = taken
    BY <2>1 DEF backlog, taken
  <2>3. Remaining' = Remaining
    BY <2>1, <2>2, Zenon DEF Remaining
  <2> QED
    BY <1>1, <1>2, <2>1, <2>3
       DEF DrainIInv, DrainInv, AgeInv, HostWake_Idle, have_pending, Budget
<1> QED
  BY <1>5, <1>6, <1>7, <1>8 DEF DrainNext

(***************************************************************************)
(* With a wake guard at all, whatever is pending when the last frame or LED *)
(* state is added, KBD_HOST_WAKE_BACKLOG_MAX_US (keyboard_uart.h) is time   *)
(* enough to deliver or abandon it: the drain before a sleep (main.c,       *)
(* Power_Service) leaves nothing on its way to the host.                    *)
(***************************************************************************)
THEOREM DrainBounded ==
  ASSUME Guard > 0
  PROVE  DrainSpec => []DrainedInBudget
<1>1. DrainIInv => DrainedInBudget
  <2> SUFFICES ASSUME DrainIInv, spent >= KBD_HOST_WAKE_BACKLOG_MAX_US,
                      ~HostWake_Idle
               PROVE  FALSE
    BY DEF DrainedInBudget
  <2>1. spent + Remaining <= Budget /\ spent \in Nat /\ Remaining \in Nat
    BY RemainingBounds DEF DrainIInv, DrainInv
  <2>2. KBD_HOST_WAKE_BACKLOG_MAX_US = (QueueSize + 2) * (Guard + FrameCost)
    BY DEF KBD_HOST_WAKE_BACKLOG_MAX_US, KBD_HOST_WAKE_FRAME_MAX_US, FrameCost
  <2>3. /\ QueueSize + 1 \in Nat /\ QueueSize + 1 >= 1
        /\ QueueSize + 2 = (QueueSize + 1) + 1
        /\ Guard \in Nat /\ FrameCost \in Nat
    BY TicksAssumption, Costs, SMT
  <2>4. (QueueSize + 2) * Guard = (QueueSize + 1) * Guard + Guard
        /\ 1 * Guard <= (QueueSize + 1) * Guard
    BY <2>3, Products
  <2>5. (QueueSize + 2) * (Guard + FrameCost)
          = (QueueSize + 2) * Guard + (QueueSize + 2) * FrameCost
        /\ (QueueSize + 2) * FrameCost \in Nat
        /\ (QueueSize + 1) * Guard \in Nat
    BY <2>3, SMT
  <2>6. KBD_HOST_WAKE_BACKLOG_MAX_US > Budget /\ Budget \in Nat
    BY <2>2, <2>3, <2>4, <2>5, SMT DEF Budget
  <2> QED
    BY <2>1, <2>2, <2>6, SMT
<1> QED
  BY DrainInitInv, DrainStepInv, <1>1, PTL DEF DrainSpec
=============================================================================
