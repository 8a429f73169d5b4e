------------------------------- MODULE UartRx -------------------------------
(***************************************************************************)
(* Receiving host frames, firmware/src/keyboard_uart.c (KBD_IDLE_WFI): the  *)
(* UART's FIFO, UART1_IRQHandler, the ring, KeyboardUart_Poll and the       *)
(* resynchronising parser.                                                  *)
(*                                                                         *)
(* A byte in the receiver is the position it has in `wire', the sequence of *)
(* values the host sent.  The host sends frames; it may break one off (its  *)
(* reset), and noise may add a byte between two: at most MaxFaults times.   *)
(* A pending interrupt is taken before the main loop's next step.           *)
(***************************************************************************)
EXTENDS Integers, Sequences

CONSTANTS
  Bytes,      \* byte values
  Frames,     \* the frames frame_is_valid accepts
  Expected,   \* value -> length of the frame it heads, 0 if it heads none
  MaxFrame,   \* KBD_UART_MAX_FRAME
  RingSize,   \* KBD_UART_RING_SIZE
  FifoSize,   \* the UART's receive FIFO
  MaxBytes, MaxFaults   \* Bounds on the bytes sent and the faults

ASSUME UartRxAssumption ==
  /\ Expected \in [Bytes -> 0..MaxFrame]
  /\ Frames \subseteq Seq(Bytes)
  /\ \A f \in Frames : f # <<>> /\ Len(f) = Expected[f[1]]
  /\ {RingSize, FifoSize} \subseteq Nat \ {0}
  /\ {MaxFrame, MaxBytes, MaxFaults} \subseteq Nat

VARIABLES
  wire,         \* the bytes sent so far (host)
  sending,      \* what is left to send of the current frame (host)
  begun,        \* where the current frame begins (history)
  starts,       \* where the frames sent whole begin (history)
  faults,       \* noise bytes and frames broken off (host)
  fifo,         \* the UART's receive FIFO
  over,         \* RB_LSR_OVER_ERR
  isr,          \* UART1_IRQHandler is running
  rx_ring, rx_overrun_latch,
  rx_buf,       \* rx_buf[0..rx_len-1]; rx_expected follows from its head
  poll,         \* where KeyboardUart_Poll is
  lost,         \* bytes have been lost (history)
  delivered     \* the stretches of `wire' dispatched (history)

host == <<wire, sending, begun, starts, faults>>
parser == <<rx_buf, delivered>>
vars == <<host, fifo, over, isr, rx_ring, rx_overrun_latch, poll, lost, parser>>

Init ==
  /\ wire = <<>> /\ sending = <<>> /\ begun = 0 /\ starts = {} /\ faults = 0
  /\ fifo = <<>> /\ over = FALSE /\ isr = FALSE
  /\ rx_ring = <<>> /\ rx_overrun_latch = FALSE
  /\ rx_buf = <<>> /\ poll = "out"
  /\ lost = FALSE /\ delivered = {}
-----------------------------------------------------------------------------
(* The host and the UART.  A byte that finds the FIFO full is lost.         *)
Receive(b) ==
  /\ Len(wire) < MaxBytes
  /\ wire' = Append(wire, b)
  /\ IF Len(fifo) < FifoSize
     THEN fifo' = Append(fifo, Len(wire')) /\ UNCHANGED <<over, lost>>
     ELSE over' = TRUE /\ lost' = TRUE /\ UNCHANGED fifo
  /\ UNCHANGED <<isr, rx_ring, rx_overrun_latch, poll, parser>>

(* The next byte of the frame that began at `first'; with its last one the  *)
(* frame is sent whole.                                                     *)
SendByte(rest, first) ==
  /\ Receive(rest[1])
  /\ sending' = Tail(rest) /\ begun' = first
  /\ starts' = IF Len(rest) = 1 THEN starts \cup {first} ELSE starts
  /\ UNCHANGED faults

SendFirst == sending = <<>> /\ \E f \in Frames : SendByte(f, Len(wire) + 1)
SendNext == sending # <<>> /\ SendByte(sending, begun)

BreakOff ==
  /\ sending # <<>> /\ faults < MaxFaults
  /\ sending' = <<>> /\ faults' = faults + 1
  /\ UNCHANGED <<wire, begun, starts, fifo, over, isr, rx_ring, rx_overrun_latch,
                 poll, lost, parser>>

Noise ==
  /\ sending = <<>> /\ faults < MaxFaults
  /\ \E b \in Bytes : Receive(b)
  /\ faults' = faults + 1
  /\ UNCHANGED <<sending, begun, starts>>
-----------------------------------------------------------------------------
(* UART1_IRQHandler: the overrun first, then every byte the FIFO holds; a   *)
(* byte may still arrive while it runs.                                     *)
Pending == fifo # <<>> \/ over

IrqEnter ==
  /\ ~isr /\ Pending
  /\ isr' = TRUE
  /\ over' = FALSE /\ rx_overrun_latch' = (rx_overrun_latch \/ over)
  /\ UNCHANGED <<host, fifo, rx_ring, poll, lost, parser>>

IrqByte ==
  /\ isr /\ fifo # <<>>
  /\ fifo' = Tail(fifo)
  /\ IF Len(rx_ring) < RingSize
     THEN /\ rx_ring' = Append(rx_ring, Head(fifo))
          /\ UNCHANGED <<rx_overrun_latch, lost>>
     ELSE /\ rx_overrun_latch' = TRUE /\ lost' = TRUE
          /\ UNCHANGED rx_ring
  /\ UNCHANGED <<host, over, isr, poll, parser>>

IrqExit ==
  /\ isr /\ fifo = <<>>
  /\ isr' = FALSE
  /\ UNCHANGED <<host, fifo, over, rx_ring, rx_overrun_latch, poll, lost, parser>>
-----------------------------------------------------------------------------
(* KeyboardUart_Poll, its steps as the interrupt may come between them:     *)
(* "check" the latch, then the ring; "parse" the byte at the ring's tail,   *)
(* which leaves the ring when the parser is done with it.                   *)
MainAt(pc) == poll = pc /\ ~isr /\ ~Pending

Enter ==
  /\ MainAt("out")
  /\ poll' = "check"
  /\ UNCHANGED <<host, fifo, over, isr, rx_ring, rx_overrun_latch, lost, parser>>

\* Mutant: the latch is not cleared with the ring.
HoleKept ==
  /\ MainAt("check") /\ rx_overrun_latch
  /\ rx_ring' = <<>> /\ rx_buf' = <<>>
  /\ UNCHANGED <<host, fifo, over, isr, rx_overrun_latch, poll, lost, delivered>>

(* A hole in the stream: everything queued and the parser are dropped.      *)
PollHole ==
  /\ MainAt("check") /\ rx_overrun_latch
  /\ rx_ring' = <<>> /\ rx_overrun_latch' = FALSE /\ rx_buf' = <<>>
  /\ UNCHANGED <<host, fifo, over, isr, poll, lost, delivered>>

PollCheck ==
  /\ MainAt("check") /\ ~rx_overrun_latch
  /\ poll' = "take"
  /\ UNCHANGED <<host, fifo, over, isr, rx_ring, rx_overrun_latch, lost, parser>>

PollDone ==
  /\ MainAt("take") /\ rx_ring = <<>>
  /\ poll' = "out"
  /\ UNCHANGED <<host, fifo, over, isr, rx_ring, rx_overrun_latch, lost, parser>>

expected_for_header(pos) == Expected[wire[pos]]
values(buf) == [k \in 1..Len(buf) |-> wire[buf[k]]]

(* feed_byte.  A byte that heads no frame is ignored by an empty parser.     *)
PollFeed ==
  /\ MainAt("take") /\ rx_ring # <<>>
  /\ rx_buf' = IF rx_buf = <<>> /\ expected_for_header(Head(rx_ring)) = 0
               THEN rx_buf
               ELSE IF Len(rx_buf) >= MaxFrame THEN <<>>
               ELSE Append(rx_buf, Head(rx_ring))
  /\ poll' = "parse"
  /\ UNCHANGED <<host, fifo, over, isr, rx_ring, rx_overrun_latch, lost, delivered>>

\* Mutant: the rest of the buffer is dropped with the frame.
ShiftAll(n) == <<>>

(* What shift_rx_buf(n) leaves: nothing, unless a header comes first.        *)
shift_rx_buf(n) ==
  IF n >= Len(rx_buf) \/ expected_for_header(rx_buf[n + 1]) = 0 THEN <<>>
  ELSE SubSeq(rx_buf, n + 1, Len(rx_buf))

(* What resync_parser leaves: the buffer from its next header on.            *)
resync_parser ==
  LET headers == {k \in 2..Len(rx_buf) : expected_for_header(rx_buf[k]) # 0}
  IN IF headers = {} THEN <<>>
     ELSE shift_rx_buf((CHOOSE k \in headers : \A l \in headers : k <= l) - 1)

Complete == rx_buf # <<>> /\ Len(rx_buf) >= expected_for_header(rx_buf[1])

frame_is_valid ==
  values(SubSeq(rx_buf, 1, expected_for_header(rx_buf[1]))) \in Frames

(* One turn of process_rx_buf: dispatch_frame and the shift ...              *)
Dispatch ==
  /\ MainAt("parse") /\ Complete /\ frame_is_valid
  /\ LET n == expected_for_header(rx_buf[1])
     IN /\ delivered' = delivered \cup {<<rx_buf[1], rx_buf[n]>>}
        /\ rx_buf' = shift_rx_buf(n)
  /\ UNCHANGED <<host, fifo, over, isr, rx_ring, rx_overrun_latch, poll, lost>>

(* ... or the resynchronisation.                                             *)
Resync ==
  /\ MainAt("parse") /\ Complete /\ ~frame_is_valid
  /\ rx_buf' = resync_parser
  /\ UNCHANGED <<host, fifo, over, isr, rx_ring, rx_overrun_latch, poll, lost,
                 delivered>>

\* Mutant: the latch is looked at once per call, not before every byte.
FedUnchecked ==
  /\ MainAt("parse") /\ ~Complete
  /\ rx_ring' = Tail(rx_ring) /\ poll' = "take"
  /\ UNCHANGED <<host, fifo, over, isr, rx_overrun_latch, lost, parser>>

PollFed ==
  /\ MainAt("parse") /\ ~Complete
  /\ rx_ring' = Tail(rx_ring) /\ poll' = "check"
  /\ UNCHANGED <<host, fifo, over, isr, rx_overrun_latch, lost, parser>>
-----------------------------------------------------------------------------
HostSend == SendFirst \/ SendNext \/ BreakOff \/ Noise
UART1_IRQHandler == IrqEnter \/ IrqByte \/ IrqExit
KeyboardUart_Poll == \/ Enter \/ PollHole \/ PollCheck \/ PollDone
                     \/ PollFeed \/ Dispatch \/ Resync \/ PollFed

Next == HostSend \/ UART1_IRQHandler \/ KeyboardUart_Poll

(* The handler runs when it is pending, and the main loop never stops        *)
(* polling: neither is promised anything of the host.                        *)
Fairness == WF_vars(UART1_IRQHandler) /\ WF_vars(KeyboardUart_Poll)

Spec == Init /\ [][Next]_vars /\ Fairness
-----------------------------------------------------------------------------
Positions == 1..Len(wire)
TypeOK ==
  /\ wire \in Seq(Bytes) /\ Len(wire) <= MaxBytes
  /\ sending \in Seq(Bytes) /\ starts \subseteq Positions
  /\ begun \in 0..Len(wire)
  /\ faults \in 0..MaxFaults
  /\ {fifo, rx_ring, rx_buf} \subseteq Seq(Positions)
  /\ Len(fifo) <= FifoSize /\ Len(rx_ring) <= RingSize
  /\ {over, isr, rx_overrun_latch, lost} \subseteq BOOLEAN
  /\ poll \in {"out", "check", "take", "parse"}
  /\ delivered \subseteq Positions \X Positions

(* The receiver implements the frame channel: no frame is put together       *)
(* across a hole of the byte stream, whichever interrupt finds the hole and  *)
(* wherever Poll then is, and none is dispatched twice or out of order.      *)
Channel == INSTANCE FrameChannel WITH wire <- wire, delivered <- delivered
ImplementsFrameChannel == Channel!Spec

Held(pos) == \E q \in {fifo, rx_ring, rx_buf} : \E k \in DOMAIN q : q[k] = pos

(* A frame sent whole is dispatched or still somewhere in the receiver, as   *)
(* long as no byte was lost: a frame broken off or a stray byte ahead of it  *)
(* delays it, behind a header that waits for more bytes, but does not lose   *)
(* it.  And a parser at rest does wait for bytes: what it holds is shorter   *)
(* than the frame it heads, so no complete frame sits there until the next   *)
(* byte comes.                                                               *)
NoFramePassedOver ==
  /\ ~lost => \A s \in starts : Held(s) \/ \E d \in delivered : d[1] = s
  /\ poll # "parse" /\ rx_buf # <<>> =>
       Len(rx_buf) < expected_for_header(rx_buf[1])

(* Every byte is looked at: once the host pauses, FIFO, ring and latch empty.*)
Drains == []<>(fifo = <<>> /\ rx_ring = <<>> /\ ~over /\ ~rx_overrun_latch)
=============================================================================
