---------------------------- MODULE UartRxProofs ----------------------------
(***************************************************************************)
(* That the UART receiver implements the frame channel, for every set of     *)
(* frames, every size of the FIFO and the ring and any number of faults, and *)
(* that no frame is passed over.  Two arguments carry the proofs.            *)
(*                                                                         *)
(* The stream: as long as no overrun is on record, FIFO, ring and parser     *)
(* hold one stretch of the wire that ends with its newest byte.  With one on *)
(* record they still rise, and the byte that Poll takes follows the parser's *)
(* last one, because an empty queue always has room for the first byte lost  *)
(* to a full one.                                                            *)
(*                                                                         *)
(* The boundaries: the parser stands at the boundary of a frame, or the one  *)
(* fault is behind it and every frame ahead of it is followed by another.    *)
(***************************************************************************)
EXTENDS UartRx, SequenceTheorems, WellFoundedInduction, TLAPS

Rising(q) == \A i, j \in 1..Len(q) : i < j => q[i] < q[j]

\* No byte that waits comes before pos, and it is pos itself only if Poll has
\* just fed it to the parser.
Passed(pos) ==
  /\ \A i \in 1..Len(rx_ring) :
       pos < rx_ring[i] \/ (poll = "parse" /\ i = 1 /\ pos = rx_ring[1])
  /\ \A j \in 1..Len(fifo) : pos < fifo[j]

\* The bytes go through the receiver in the order of the wire.
Ordered ==
  /\ Rising(fifo) /\ Rising(rx_ring)
  /\ \A i \in 1..Len(rx_ring), j \in 1..Len(fifo) : rx_ring[i] < fifo[j]
  /\ \A k \in 1..Len(rx_buf) : Passed(rx_buf[k])
  /\ \A d \in delivered :
       Passed(d[2]) /\ \A k \in 1..Len(rx_buf) : d[2] < rx_buf[k]

\* The parser holds an unbroken stretch of the wire that begins with a header.
Run ==
  /\ \A k \in 1..Len(rx_buf) : rx_buf[k] = rx_buf[1] + k - 1
  /\ rx_buf # <<>> => expected_for_header(rx_buf[1]) # 0

\* While Poll has a byte to look at, the parser's last byte is that one;
\* between the check of the latch and the feed the next byte follows it.
Adjacent ==
  /\ poll = "parse" => rx_ring # <<>>
  /\ rx_buf # <<>> =>
       LET last == rx_buf[Len(rx_buf)]
       IN /\ poll = "parse" => rx_ring[1] = last
          /\ poll = "take" =>
               /\ rx_ring # <<>> => rx_ring[1] = last + 1
               /\ rx_ring = <<>> /\ fifo # <<>> => fifo[1] = last + 1
               /\ rx_ring = <<>> /\ fifo = <<>> => Len(wire) = last

\* A parser at rest waits for more bytes.
ParserWaits ==
  poll # "parse" /\ rx_buf # <<>> =>
    Len(rx_buf) < expected_for_header(rx_buf[1])

\* The first position not fed to the parser, and the first it still holds.
next == Len(wire) - Len(fifo) - Len(rx_ring) + (IF poll = "parse" THEN 2 ELSE 1)
first == next - Len(rx_buf)

Stream ==
  ~over /\ ~rx_overrun_latch =>
    /\ \A k \in 1..Len(fifo) : fifo[k] = Len(wire) - Len(fifo) + k
    /\ \A k \in 1..Len(rx_ring) :
         rx_ring[k] = Len(wire) - Len(fifo) - Len(rx_ring) + k
    /\ rx_buf # <<>> => rx_buf[1] = first

RxInv ==
  /\ TypeOK /\ Ordered /\ Run /\ Adjacent /\ ParserWaits /\ Stream
  /\ over \/ rx_overrun_latch => lost

\* A frame under way has begun.
Underway == sending # <<>> => begun # 0
-----------------------------------------------------------------------------
\* The position after the frame that starts at s.
End(s) == s + expected_for_header(s)

\* Where a frame starts or is about to.
Boundary(p) ==
  \/ p \in starts
  \/ sending # <<>> /\ p = begun
  \/ sending = <<>> /\ p = Len(wire) + 1

\* At s the wire and then `rest' hold a frame.
FrameAt(s, rest) ==
  \E f \in Frames :
    /\ Len(f) = expected_for_header(s)
    /\ \A k \in 1..Len(f) :
         f[k] = IF s + k - 1 <= Len(wire) THEN wire[s + k - 1]
                ELSE rest[s + k - 1 - Len(wire)]

\* The frames sent whole are on the wire one after the other, and the one under
\* way comes last.
Layout ==
  /\ \A s \in starts :
       /\ FrameAt(s, <<>>) /\ End(s) <= Len(wire) + 1
       /\ sending # <<>> => End(s) <= begun
  /\ \A s, t \in starts : s < t => End(s) <= t
  /\ sending # <<>> =>
       /\ begun \in Positions /\ FrameAt(begun, sending)
       /\ End(begun) = Len(wire) + 1 + Len(sending)

\* From p on every frame is followed by another.
Sound(p) == \A s \in starts : p <= s => Boundary(End(s))

\* The parser holds no more than the frame it is at.
Tight ==
  rx_buf # <<>> => Len(rx_buf) <= expected_for_header(rx_buf[1])

\* As long as no byte is lost, the parser has gone past no frame that it did not
\* dispatch.  Without a fault it is at a boundary; after the one fault, it is
\* still before the gap that the fault left, or has it behind it.
Kept ==
  ~lost =>
    /\ \A s \in starts : s < first => \E d \in delivered : d[1] = s
    /\ sending # <<>> => first <= begun
    /\ Sound(first) \/ (Boundary(first) /\ Tight)
    /\ faults = 0 => Boundary(first) /\ Tight

\* One fault leaves one gap between two frames.
OneGap ==
  /\ faults = 0 => Sound(1)
  /\ \A s, t \in starts : s < t => Boundary(End(s)) \/ Boundary(End(t))

KeptInv == Layout /\ OneGap /\ Kept

\* A stretch of the wire that passes for a frame begins where a frame was sent:
\* the checksum does not let another one through.
Genuine ==
  \A a, b \in Positions : SubSeq(wire, a, b) \in Frames => a \in starts
-----------------------------------------------------------------------------
\* TypeOK, variable by variable.
LEMMA Types ==
  ASSUME TypeOK
  PROVE  /\ wire \in Seq(Bytes) /\ Len(wire) \in Nat /\ Len(wire) <= MaxBytes
         /\ fifo \in Seq(Positions) /\ rx_ring \in Seq(Positions)
         /\ rx_buf \in Seq(Positions)
         /\ Len(fifo) \in 0..FifoSize /\ Len(rx_ring) \in 0..RingSize
         /\ Len(rx_buf) \in Nat
         /\ over \in BOOLEAN /\ isr \in BOOLEAN
         /\ rx_overrun_latch \in BOOLEAN /\ lost \in BOOLEAN
         /\ poll \in {"out", "check", "take", "parse"}
         /\ delivered \subseteq Positions \X Positions
<1>1. /\ wire \in Seq(Bytes) /\ Len(wire) <= MaxBytes
      /\ fifo \in Seq(Positions) /\ rx_ring \in Seq(Positions)
      /\ rx_buf \in Seq(Positions)
      /\ Len(fifo) <= FifoSize /\ Len(rx_ring) <= RingSize
      /\ over \in BOOLEAN /\ isr \in BOOLEAN
      /\ rx_overrun_latch \in BOOLEAN /\ lost \in BOOLEAN
      /\ poll \in {"out", "check", "take", "parse"}
      /\ delivered \subseteq Positions \X Positions
  BY Zenon DEF TypeOK
<1>2. /\ Len(wire) \in Nat /\ Len(rx_buf) \in Nat
      /\ Len(fifo) \in 0..FifoSize /\ Len(rx_ring) \in 0..RingSize
  BY <1>1, UartRxAssumption
<1> QED
  BY <1>1, <1>2

LEMMA HostTypes ==
  ASSUME TypeOK
  PROVE  /\ sending \in Seq(Bytes) /\ starts \subseteq Positions
         /\ begun \in 0..Len(wire) /\ faults \in 0..MaxFaults
BY Zenon DEF TypeOK

LEMMA TypesBack ==
  ASSUME wire' \in Seq(Bytes), Len(wire') <= MaxBytes,
         sending' \in Seq(Bytes), starts' \subseteq Positions',
         begun' \in 0..Len(wire'), faults' \in 0..MaxFaults,
         fifo' \in Seq(Positions'), rx_ring' \in Seq(Positions'),
         rx_buf' \in Seq(Positions'),
         Len(fifo') <= FifoSize, Len(rx_ring') <= RingSize,
         over' \in BOOLEAN, isr' \in BOOLEAN,
         rx_overrun_latch' \in BOOLEAN, lost' \in BOOLEAN,
         poll' \in {"out", "check", "take", "parse"},
         delivered' \subseteq Positions' \X Positions'
  PROVE  TypeOK'
<1>1. {over', isr', rx_overrun_latch', lost'} \subseteq BOOLEAN
  BY Zenon
<1>2. {fifo', rx_ring', rx_buf'} \subseteq Seq(Positions')
  BY Zenon
<1> QED
  BY <1>1, <1>2, Zenon DEF TypeOK

LEMMA RxInit == Init => RxInv
<1> SUFFICES ASSUME Init PROVE RxInv
  OBVIOUS
<1> USE DEF Init
<1>1. TypeOK
  <2>1. {over, isr, rx_overrun_latch, lost} \subseteq BOOLEAN
    BY Zenon
  <2>2. {fifo, rx_ring, rx_buf} \subseteq Seq(Positions)
    BY SMT DEF Positions
  <2>3. /\ wire \in Seq(Bytes) /\ Len(wire) <= MaxBytes
        /\ sending \in Seq(Bytes) /\ starts \subseteq Positions
        /\ begun \in 0..Len(wire) /\ faults \in 0..MaxFaults
        /\ Len(fifo) <= FifoSize /\ Len(rx_ring) <= RingSize
        /\ poll \in {"out", "check", "take", "parse"}
        /\ delivered \subseteq Positions \X Positions
    BY UartRxAssumption
  <2> QED
    BY <2>1, <2>2, <2>3 DEF TypeOK
<1>2. Ordered /\ Run /\ Adjacent /\ ParserWaits /\ Stream
  BY DEF Ordered, Run, Adjacent, ParserWaits, Stream, Rising
<1> QED
  BY <1>1, <1>2 DEF RxInv
LEMMA Sizes ==
  /\ FifoSize \in Nat /\ FifoSize > 0 /\ RingSize \in Nat /\ RingSize > 0
  /\ MaxFrame \in Nat /\ MaxBytes \in Nat /\ MaxFaults \in Nat
BY UartRxAssumption

\* Every byte in the receiver is a position of the wire.
LEMMA Bounds ==
  ASSUME TypeOK
  PROVE  /\ \A j \in 1..Len(fifo) : fifo[j] \in Nat /\ fifo[j] <= Len(wire)
         /\ \A i \in 1..Len(rx_ring) : rx_ring[i] \in Nat /\ rx_ring[i] <= Len(wire)
         /\ \A k \in 1..Len(rx_buf) : rx_buf[k] \in Nat /\ rx_buf[k] <= Len(wire)
         /\ \A d \in delivered : d[2] \in Nat /\ d[2] <= Len(wire)
BY Types DEF Positions

LEMMA Widen ==
  ASSUME NEW m \in Nat, NEW n \in Nat, m <= n, NEW q \in Seq(1..m)
  PROVE  q \in Seq(1..n)
OBVIOUS

LEMMA RisingAppend ==
  ASSUME NEW n \in Nat, NEW q \in Seq(1..n), NEW e \in Nat, Rising(q),
         \A i \in 1..Len(q) : q[i] < e
  PROVE  Rising(Append(q, e))
<1>0. Len(q) \in Nat /\ Len(Append(q, e)) = Len(q) + 1
  OBVIOUS
<1> SUFFICES ASSUME NEW i \in 1..(Len(q) + 1), NEW j \in 1..(Len(q) + 1), i < j
             PROVE  Append(q, e)[i] < Append(q, e)[j]
  BY <1>0 DEF Rising
<1>1. CASE j <= Len(q)
  BY <1>1 DEF Rising
<1>2. CASE j = Len(q) + 1
  BY <1>2
<1>3. j <= Len(q) \/ j = Len(q) + 1
  BY <1>0
<1> QED
  BY <1>1, <1>2, <1>3

LEMMA RisingTail ==
  ASSUME NEW n \in Nat, NEW q \in Seq(1..n), q # <<>>, Rising(q)
  PROVE  /\ Rising(Tail(q))
         /\ \A i \in 1..Len(Tail(q)) : Head(q) < Tail(q)[i]
BY DEF Rising

\* A queue that holds the last bytes up to w still does with the next one.
LEMMA AppendNext ==
  ASSUME NEW q \in Seq(Nat), NEW w \in Nat,
         \A k \in 1..Len(q) : q[k] = w - Len(q) + k
  PROVE  \A k \in 1..Len(Append(q, w + 1)) :
           Append(q, w + 1)[k] = (w + 1) - Len(Append(q, w + 1)) + k
<1>1. Len(q) \in Nat /\ Len(Append(q, w + 1)) = Len(q) + 1
  OBVIOUS
<1> SUFFICES ASSUME NEW k \in 1..(Len(q) + 1)
             PROVE  Append(q, w + 1)[k] = (w + 1) - (Len(q) + 1) + k
  BY <1>1
<1>2. CASE k = Len(q) + 1
  <2>1. Append(q, w + 1)[k] = w + 1
    BY <1>2
  <2> QED
    BY <1>1, <1>2, <2>1
<1>3. CASE k \in 1..Len(q)
  <2>1. Append(q, w + 1)[k] = q[k]
    BY <1>3
  <2> QED
    BY <1>1, <1>3, <2>1
<1> QED
  BY <1>1, <1>2, <1>3

\* A byte is sent: the stream grows at its end, or a hole is on record.
LEMMA ReceiveKeeps ==
  ASSUME RxInv, NEW b \in Bytes, Receive(b),
         sending' \in Seq(Bytes), starts' \subseteq Positions',
         begun' \in 0..Len(wire'), faults' \in 0..MaxFaults
  PROVE  RxInv'
<1> USE DEF RxInv
<1>1. /\ wire' = Append(wire, b) /\ wire' \in Seq(Bytes)
      /\ Len(wire') = Len(wire) + 1 /\ Len(wire') <= MaxBytes
      /\ \A p \in Positions : wire'[p] = wire[p]
  BY Types, Sizes DEF Receive, Positions
<1>2. UNCHANGED <<isr, rx_ring, rx_overrun_latch, poll, rx_buf, delivered>>
  BY DEF Receive, parser
<1>3. /\ fifo \in Seq(Positions') /\ rx_ring' \in Seq(Positions')
      /\ rx_buf' \in Seq(Positions') /\ Len(wire') \in Positions'
  BY <1>1, <1>2, Types, Widen DEF Positions
<1>4. /\ isr' \in BOOLEAN /\ rx_overrun_latch' \in BOOLEAN
      /\ poll' \in {"out", "check", "take", "parse"}
      /\ Len(rx_ring') <= RingSize
  BY <1>2, Types
<1>5. delivered' \subseteq Positions' \X Positions'
  BY <1>1, <1>2, Types DEF Positions
<1>6. rx_buf # <<>> =>
        expected_for_header(rx_buf[1])' = expected_for_header(rx_buf[1])
  BY <1>1, <1>2, Types DEF expected_for_header, Positions
<1>7. Run' /\ ParserWaits'
  BY <1>2, <1>6 DEF Run, ParserWaits
<1>8. CASE Len(fifo) < FifoSize
  <2>1. fifo' = Append(fifo, Len(wire)+1) /\ UNCHANGED <<over, lost>>
    BY <1>8, <1>1 DEF Receive
  <2>2. /\ fifo' \in Seq(Positions') /\ Len(fifo') = Len(fifo) + 1
    BY <1>1, <1>3, <2>1
  <2>3. TypeOK'
    <3>1. /\ Len(fifo') <= FifoSize
          /\ over' \in BOOLEAN /\ lost' \in BOOLEAN
      BY <1>8, <2>1, <2>2, Types, Sizes
    <3> QED
      BY <1>1, <1>3, <1>4, <1>5, <2>2, <3>1, TypesBack, Zenon
  <2>4. Ordered'
    <3>1. Rising(fifo') /\ Rising(rx_ring')
      <4>1. \A j \in 1..Len(fifo) : fifo[j] < Len(wire) + 1
        BY Bounds
      <4>0. /\ Rising(fifo) /\ Len(wire) \in Nat /\ Len(wire) + 1 \in Nat
            /\ fifo \in Seq(1..Len(wire))
        BY Types DEF Ordered, Positions
      <4>2. Rising(Append(fifo, Len(wire) + 1))
        BY <4>0, <4>1, RisingAppend
      <4> QED
        BY <1>2, <2>1, <4>2 DEF Ordered
    <3>2. ASSUME NEW i \in 1..Len(rx_ring), NEW j \in 1..Len(fifo')
          PROVE  rx_ring[i] < fifo'[j]
      <4>1. CASE j = Len(fifo) + 1
        <5>1. fifo'[j] = Len(wire) + 1
          BY <2>1, <4>1
        <5> QED
          BY <5>1, Bounds
      <4>2. CASE j \in 1..Len(fifo)
        <5>1. fifo'[j] = fifo[j]
          BY <2>1, <4>2
        <5> QED
          BY <4>2, <5>1 DEF Ordered
      <4>3. j = Len(fifo) + 1 \/ j \in 1..Len(fifo)
        BY <2>2
      <4> QED
        BY <4>1, <4>2, <4>3
    <3>3. ASSUME NEW p \in Nat, p <= Len(wire), Passed(p) PROVE Passed(p)'
      BY <1>2, <2>1, <3>3 DEF Passed
    <3> QED
      BY <1>2, <3>1, <3>2, <3>3, Bounds DEF Ordered, Rising
  <2>5. Adjacent'
    <3>1. fifo' # <<>> /\ (fifo # <<>> => fifo'[1] = fifo[1])
      BY <2>1
    <3>2. fifo = <<>> => fifo'[1] = Len(wire) + 1
      BY <2>1
    <3> QED
      BY <1>2, <3>1, <3>2 DEF Adjacent
  <2>6. Stream'
    <3>1. first' = first /\ next' = next
      BY <1>1, <1>2, <2>2 DEF first, next
    <3>2. SUFFICES ASSUME ~over, ~rx_overrun_latch
                   PROVE  Stream!2'
      BY <1>2, <2>1 DEF Stream
    <3>3. \A k \in 1..Len(fifo') : fifo'[k] = Len(wire') - Len(fifo') + k
      <4>1. \A k \in 1..Len(fifo) : fifo[k] = Len(wire) - Len(fifo) + k
        BY <3>2 DEF Stream
      <4>2. Len(wire) \in Nat /\ fifo \in Seq(Nat)
        BY Types DEF Positions
      <4>3. \A k \in 1..Len(Append(fifo, Len(wire) + 1)) :
              Append(fifo, Len(wire) + 1)[k] =
                (Len(wire) + 1) - Len(Append(fifo, Len(wire) + 1)) + k
        BY <4>1, <4>2, AppendNext
      <4> QED
        BY <1>1, <2>1, <4>3
    <3>4. \A k \in 1..Len(rx_ring') :
            rx_ring'[k] = Len(wire') - Len(fifo') - Len(rx_ring') + k
      <4>1. \A k \in 1..Len(rx_ring) :
              rx_ring[k] = Len(wire) - Len(fifo) - Len(rx_ring) + k
        BY <3>2 DEF Stream
      <4>2. Len(wire') - Len(fifo') = Len(wire) - Len(fifo)
        BY <1>1, <2>2
      <4> QED
        BY <1>2, <4>1, <4>2
    <3> QED
      BY <1>2, <3>1, <3>2, <3>3, <3>4 DEF Stream
  <2> QED
    BY <1>2, <1>7, <2>1, <2>3, <2>4, <2>5, <2>6
<1>9. CASE ~(Len(fifo) < FifoSize)
  <2>1. fifo' = fifo /\ over' = TRUE /\ lost' = TRUE
    BY <1>9 DEF Receive
  <2>3. TypeOK'
    <3>1. /\ Len(fifo') <= FifoSize /\ fifo' \in Seq(Positions')
          /\ over' \in BOOLEAN /\ lost' \in BOOLEAN
      BY <1>3, <2>1, Types, Sizes
    <3> QED
      BY <1>1, <1>3, <1>4, <1>5, <3>1, TypesBack, Zenon
  <2>4. Ordered'
    BY <1>2, <2>1 DEF Ordered, Rising, Passed
  <2>5. Adjacent'
    BY <1>2, <1>9, <2>1, Sizes DEF Adjacent
  <2>6. Stream'
    BY <2>1 DEF Stream
  <2> QED
    BY <1>7, <2>1, <2>3, <2>4, <2>5, <2>6
<1> QED
  BY <1>8, <1>9
\* A step that moves no byte.  Poll gets between check and feed only with no
\* overrun on record.
LEMMA QuietKeeps ==
  ASSUME RxInv, TypeOK',
         UNCHANGED <<wire, fifo, rx_ring, rx_buf, delivered, lost>>,
         poll' = poll \/ (poll # "parse" /\ poll' # "parse"),
         poll' = "take" =>
           poll = "take" \/ (fifo = <<>> /\ ~over /\ ~rx_overrun_latch),
         over' \/ rx_overrun_latch' <=> over \/ rx_overrun_latch
  PROVE  RxInv'
<1> USE DEF RxInv
<1>1. poll' = "parse" <=> poll = "parse"
  OBVIOUS
<1>2. Ordered'
  BY <1>1 DEF Ordered, Rising, Passed
<1>3. \A p : expected_for_header(p)' = expected_for_header(p)
  BY DEF expected_for_header
<1>4. Run'
  BY <1>3 DEF Run
<1>5. ParserWaits'
  BY <1>1, <1>3 DEF ParserWaits
<1>6. Stream'
  BY <1>1 DEF Stream, first, next
<1>7. Adjacent'
  <2>1. CASE poll = "take" \/ poll' # "take"
    BY <1>1, <2>1 DEF Adjacent
  <2>2. CASE poll' = "take" /\ poll # "take"
    <3>1. rx_buf # <<>> => rx_buf[1] = Len(wire) - Len(rx_ring) + 1 - Len(rx_buf)
      BY <1>1, <2>2, Types DEF Stream, first, next
    <3>2. rx_buf # <<>> =>
            rx_buf[Len(rx_buf)] = rx_buf[1] + Len(rx_buf) - 1
      BY Types DEF Run
    <3>3. rx_ring # <<>> => rx_ring[1] = Len(wire) - Len(rx_ring) + 1
      BY <2>2, Types DEF Stream
    <3> QED
      BY <1>1, <2>2, <3>1, <3>2, <3>3, Types, Bounds DEF Adjacent
  <2> QED
    BY <2>1, <2>2
<1> QED
  BY <1>2, <1>4, <1>5, <1>6, <1>7

LEMMA HostStays ==
  ASSUME TypeOK, UNCHANGED host
  PROVE  /\ wire' \in Seq(Bytes) /\ Len(wire') <= MaxBytes
         /\ sending' \in Seq(Bytes) /\ starts' \subseteq Positions'
         /\ begun' \in 0..Len(wire') /\ faults' \in 0..MaxFaults
         /\ wire' = wire /\ Positions' = Positions
BY Types, HostTypes DEF host, Positions

\* The steps of the interrupt and of Poll that move no byte, and a frame broken
\* off.
LEMMA QuietSteps ==
  ASSUME RxInv,
         BreakOff \/ IrqEnter \/ IrqExit \/ Enter \/ PollCheck \/ PollDone
           \/ UNCHANGED vars
  PROVE  RxInv'
<1> USE DEF RxInv
<1>1. CASE BreakOff
  <2>1. /\ UNCHANGED <<wire, begun, starts, fifo, over, isr, rx_ring,
                       rx_overrun_latch, poll, lost, rx_buf, delivered>>
        /\ sending' = <<>> /\ faults' = faults + 1 /\ faults < MaxFaults
    BY <1>1 DEF BreakOff, parser
  <2>2. TypeOK'
    <3>1. /\ sending' \in Seq(Bytes) /\ faults' \in 0..MaxFaults
          /\ begun' \in 0..Len(wire')
      BY <2>1, Types, HostTypes, Sizes
    <3>2. Positions' = Positions
      BY <2>1 DEF Positions
    <3> QED
      BY <2>1, <3>1, <3>2, Types, HostTypes, TypesBack
  <2> QED
    BY <2>1, <2>2, QuietKeeps
<1>2. CASE IrqEnter
  <2>1. /\ UNCHANGED <<host, fifo, rx_ring, poll, lost, rx_buf, delivered>>
        /\ isr' = TRUE /\ over' = FALSE
        /\ rx_overrun_latch' = (rx_overrun_latch \/ over)
    BY <1>2 DEF IrqEnter, parser
  <2>2. TypeOK'
    <3>1. isr' \in BOOLEAN /\ over' \in BOOLEAN /\ rx_overrun_latch' \in BOOLEAN
      BY <2>1, Zenon
    <3> QED
      BY <2>1, <3>1, Types, HostStays, TypesBack
  <2> QED
    BY <2>1, <2>2, QuietKeeps, HostStays
<1>3. CASE IrqExit
  <2>1. /\ UNCHANGED <<host, fifo, over, rx_ring, rx_overrun_latch, poll, lost,
                       rx_buf, delivered>>
        /\ isr' = FALSE
    BY <1>3 DEF IrqExit, parser
  <2>2. TypeOK'
    <3>1. isr' \in BOOLEAN
      BY <2>1, Zenon
    <3> QED
      BY <2>1, <3>1, Types, HostStays, TypesBack
  <2> QED
    BY <2>1, <2>2, QuietKeeps, HostStays
<1>4. CASE Enter \/ PollCheck \/ PollDone
  <2>1. /\ UNCHANGED <<host, fifo, over, isr, rx_ring, rx_overrun_latch, lost,
                       rx_buf, delivered>>
        /\ poll # "parse" /\ poll' \in {"check", "take", "out"}
        /\ poll' = "take" => fifo = <<>> /\ ~over /\ ~rx_overrun_latch
    BY <1>4 DEF Enter, PollCheck, PollDone, MainAt, Pending, parser
  <2>2. TypeOK'
    BY <2>1, Types, HostStays, TypesBack
  <2> QED
    BY <2>1, <2>2, QuietKeeps, HostStays
<1>5. CASE UNCHANGED vars
  <2>1. UNCHANGED <<host, fifo, over, isr, rx_ring, rx_overrun_latch, poll, lost,
                    rx_buf, delivered>>
    BY <1>5 DEF vars, parser
  <2>2. TypeOK'
    BY <2>1, Types, HostStays, TypesBack
  <2> QED
    BY <2>1, <2>2, QuietKeeps, HostStays
<1> QED
  BY <1>1, <1>2, <1>3, <1>4, <1>5
\* The interrupt takes a byte from the FIFO into the ring, or records its loss.
LEMMA IrqByteKeeps ==
  ASSUME RxInv, IrqByte
  PROVE  RxInv'
<1> USE DEF RxInv
<1>1. /\ UNCHANGED <<host, wire, over, isr, poll, rx_buf, delivered>>
      /\ fifo # <<>> /\ fifo' = Tail(fifo)
  BY DEF IrqByte, parser, host
<1>2. /\ fifo' \in Seq(Positions) /\ Len(fifo') = Len(fifo) - 1
      /\ Head(fifo) = fifo[1] /\ Head(fifo) \in Positions
      /\ 1 \in 1..Len(fifo)
      /\ \A j \in 1..Len(fifo') : j + 1 \in 1..Len(fifo) /\ fifo'[j] = fifo[j + 1]
  BY <1>1, Types
<1>3. Rising(fifo') /\ \A j \in 1..Len(fifo') : Head(fifo) < fifo'[j]
  BY <1>1, Types, RisingTail DEF Ordered, Positions
<1>4. \A p : expected_for_header(p)' = expected_for_header(p)
  BY <1>1 DEF expected_for_header
<1>5. Run' /\ ParserWaits'
  BY <1>1, <1>4 DEF Run, ParserWaits
<1>6. CASE Len(rx_ring) < RingSize
  <2>1. rx_ring' = Append(rx_ring, Head(fifo)) /\ UNCHANGED <<rx_overrun_latch, lost>>
    BY <1>6 DEF IrqByte
  <2>2. rx_ring' \in Seq(Positions) /\ Len(rx_ring') = Len(rx_ring) + 1
    BY <1>2, <2>1, Types
  <2>3. TypeOK'
    BY <1>1, <1>2, <1>6, <2>1, <2>2, Types, HostStays, TypesBack, Sizes
  <2>4. Ordered'
    <3>1. Rising(rx_ring')
      <4>1. Head(fifo) \in Nat /\ \A i \in 1..Len(rx_ring) : rx_ring[i] < Head(fifo)
        BY <1>2 DEF Ordered, Positions
      <4>2. Rising(Append(rx_ring, Head(fifo)))
        BY <4>1, Types, RisingAppend DEF Ordered, Positions
      <4> QED
        BY <2>1, <4>2
    <3>2. ASSUME NEW i \in 1..Len(rx_ring'), NEW j \in 1..Len(fifo')
          PROVE  rx_ring'[i] < fifo'[j]
      <4>1. CASE i = Len(rx_ring) + 1
        <5>1. rx_ring'[i] = Head(fifo)
          BY <1>2, <2>1, <4>1, Types
        <5> QED
          BY <1>3, <5>1
      <4>2. CASE i \in 1..Len(rx_ring)
        <5>1. rx_ring'[i] = rx_ring[i]
          BY <1>2, <2>1, <4>2, Types
        <5> QED
          BY <1>2, <4>2, <5>1 DEF Ordered
      <4>3. i = Len(rx_ring) + 1 \/ i \in 1..Len(rx_ring)
        BY <2>2, Types
      <4> QED
        BY <4>1, <4>2, <4>3
    <3>3. ASSUME NEW p \in Nat, Passed(p) PROVE Passed(p)'
      <4>1. \A j \in 1..Len(fifo') : p < fifo'[j]
        BY <1>2, <3>3 DEF Passed
      <4>2. ASSUME NEW i \in 1..Len(rx_ring')
            PROVE  p < rx_ring'[i] \/ (poll = "parse" /\ i = 1 /\ p = rx_ring'[1])
        <5>1. CASE i = Len(rx_ring) + 1
          BY <1>2, <2>1, <3>3, <5>1, Types DEF Passed
        <5>2. CASE i \in 1..Len(rx_ring)
          BY <1>2, <2>1, <3>3, <5>2, Types DEF Passed
        <5>3. i = Len(rx_ring) + 1 \/ i \in 1..Len(rx_ring)
          BY <2>2, Types
        <5> QED
          BY <5>1, <5>2, <5>3
      <4> QED
        BY <1>1, <4>1, <4>2 DEF Passed
    <3> QED
      BY <1>1, <1>3, <3>1, <3>2, <3>3, Bounds DEF Ordered, Rising
  <2>5. Adjacent'
    <3>1. /\ rx_ring' # <<>> /\ (rx_ring # <<>> => rx_ring'[1] = rx_ring[1])
          /\ rx_ring = <<>> => rx_ring'[1] = fifo[1]
      BY <1>2, <2>1, Types
    <3> QED
      BY <1>1, <3>1 DEF Adjacent
  <2>6. Stream'
    <3>1. first' = first
      BY <1>1, <1>2, <2>2, Types DEF first, next
    <3>2. SUFFICES ASSUME ~over, ~rx_overrun_latch
                   PROVE  Stream!2'
      BY <1>1, <2>1 DEF Stream
    <3>3. \A k \in 1..Len(fifo') : fifo'[k] = Len(wire) - Len(fifo') + k
      BY <1>2, <3>2, Types DEF Stream
    <3>4. \A k \in 1..Len(rx_ring') :
            rx_ring'[k] = Len(wire) - Len(fifo') - Len(rx_ring') + k
      <4>1. PICK w \in Nat : w = Len(wire) - Len(fifo)
        <5>1. fifo[1] = Len(wire) - Len(fifo) + 1 /\ fifo[1] >= 1
          BY <1>2, <3>2, Types DEF Stream, Positions
        <5> QED
          BY <5>1, Types
      <4>2. \A k \in 1..Len(rx_ring) : rx_ring[k] = w - Len(rx_ring) + k
        BY <3>2, <4>1, Types DEF Stream
      <4>3. Head(fifo) = w + 1
        BY <1>2, <3>2, <4>1, Types DEF Stream
      <4>4. \A k \in 1..Len(rx_ring') : rx_ring'[k] = (w + 1) - Len(rx_ring') + k
        <5>1. rx_ring \in Seq(Nat) /\ rx_ring' = Append(rx_ring, w + 1)
          BY <2>1, <4>3, Types DEF Positions
        <5> QED
          BY <4>2, <5>1, AppendNext
      <4>5. w + 1 = Len(wire) - Len(fifo')
        BY <1>2, <4>1, Types
      <4> QED
        BY <4>4, <4>5
    <3> QED
      BY <1>1, <3>1, <3>2, <3>3, <3>4 DEF Stream
  <2> QED
    BY <1>1, <1>5, <2>1, <2>3, <2>4, <2>5, <2>6
<1>7. CASE ~(Len(rx_ring) < RingSize)
  <2>1. rx_ring' = rx_ring /\ rx_overrun_latch' = TRUE /\ lost' = TRUE
    BY <1>7 DEF IrqByte
  <2>2. rx_overrun_latch' \in BOOLEAN /\ lost' \in BOOLEAN
    BY <2>1, Zenon
  <2>3. TypeOK'
    BY <1>1, <1>2, <2>1, <2>2, Types, HostStays, TypesBack, Sizes
  <2>4. Ordered'
    BY <1>1, <1>2, <1>3, <2>1 DEF Ordered, Passed, Rising
  <2>5. Adjacent'
    BY <1>1, <1>7, <2>1, Types, Sizes DEF Adjacent
  <2>6. Stream'
    BY <2>1 DEF Stream
  <2> QED
    BY <1>5, <2>1, <2>3, <2>4, <2>5, <2>6
<1> QED
  BY <1>6, <1>7

\* Poll finds the latch set: what is queued and the parser go.
LEMMA PollHoleKeeps ==
  ASSUME RxInv, PollHole
  PROVE  RxInv'
<1> USE DEF RxInv
<1>1. /\ UNCHANGED <<host, wire, fifo, over, isr, poll, lost, delivered>>
      /\ poll = "check" /\ fifo = <<>> /\ ~over
      /\ rx_ring' = <<>> /\ rx_buf' = <<>> /\ rx_overrun_latch' = FALSE
  BY DEF PollHole, MainAt, Pending, host
<1>2. rx_overrun_latch' \in BOOLEAN
  BY <1>1, Zenon
<1>3. TypeOK'
  BY <1>1, <1>2, Types, HostStays, TypesBack, Sizes
<1>4. Ordered'
  BY <1>1, Types DEF Ordered, Passed, Rising
<1>5. Run' /\ Adjacent' /\ ParserWaits' /\ Stream'
  BY <1>1 DEF Run, Adjacent, ParserWaits, Stream
<1> QED
  BY <1>1, <1>3, <1>4, <1>5
\* Poll feeds the byte at the ring's tail to the parser, which has room for it.
LEMMA PollFeedKeeps ==
  ASSUME RxInv, PollFeed
  PROVE  /\ RxInv'
         /\ rx_buf' = IF rx_buf = <<>> /\ expected_for_header(Head(rx_ring)) = 0
                      THEN <<>> ELSE Append(rx_buf, Head(rx_ring))
<1> USE DEF RxInv
<1>1. /\ UNCHANGED <<host, wire, fifo, over, isr, rx_ring, rx_overrun_latch, lost,
                     delivered>>
      /\ poll = "take" /\ poll' = "parse" /\ rx_ring # <<>>
  BY DEF PollFeed, MainAt, host
<1>2. /\ 1 \in 1..Len(rx_ring) /\ Head(rx_ring) = rx_ring[1]
      /\ Head(rx_ring) \in Positions /\ Head(rx_ring) \in Nat
  BY <1>1, Types DEF Positions
<1>3. \A p \in Positions :
        /\ expected_for_header(p)' = expected_for_header(p)
        /\ expected_for_header(p) \in 0..MaxFrame
  <2>1. Expected \in [Bytes -> 0..MaxFrame]
    BY UartRxAssumption
  <2> QED
    BY <1>1, <2>1, Types DEF expected_for_header, Positions
<1>4. rx_buf # <<>> => Len(rx_buf) < MaxFrame
  BY <1>1, <1>3, Types, Sizes DEF ParserWaits
<1>5. rx_buf' = IF rx_buf = <<>> /\ expected_for_header(Head(rx_ring)) = 0
                THEN <<>> ELSE Append(rx_buf, Head(rx_ring))
  <2>1. CASE rx_buf = <<>> /\ expected_for_header(Head(rx_ring)) = 0
    BY <2>1 DEF PollFeed
  <2>2. CASE ~(rx_buf = <<>> /\ expected_for_header(Head(rx_ring)) = 0)
    <3>1. Len(rx_buf) < MaxFrame
      <4>1. CASE rx_buf # <<>>
        BY <1>4, <4>1
      <4>2. CASE rx_buf = <<>>
        BY <1>2, <1>3, <2>2, <4>2, Sizes
      <4> QED
        BY <4>1, <4>2
    <3> QED
      BY <2>2, <3>1, Types, Sizes DEF PollFeed
  <2> QED
    BY <2>1, <2>2
<1>6. rx_buf' = <<>> \/ rx_buf' = Append(rx_buf, Head(rx_ring))
  BY <1>5
<1>7. rx_buf' \in Seq(Positions)
  <2>1. <<>> \in Seq(Positions)
    BY DEF Positions
  <2>2. Append(rx_buf, Head(rx_ring)) \in Seq(Positions)
    BY <1>2, Types
  <2> QED
    BY <1>6, <2>1, <2>2
<1>8. TypeOK'
  BY <1>1, <1>7, Types, HostStays, TypesBack
<1>9. \A k \in 1..Len(rx_buf') :
        \/ k \in 1..Len(rx_buf) /\ rx_buf'[k] = rx_buf[k]
        \/ rx_buf'[k] = rx_ring[1]
  <2>1. CASE rx_buf' = <<>>
    BY <2>1
  <2>2. CASE rx_buf' = Append(rx_buf, Head(rx_ring))
    BY <1>2, <2>2, Types
  <2> QED
    BY <1>6, <2>1, <2>2
<1>10. Ordered'
  <2>1. ASSUME NEW p \in Nat, Passed(p) PROVE Passed(p)'
    BY <1>1, <2>1 DEF Passed
  <2>2. Passed(rx_ring[1])'
    BY <1>1, <1>2, Bounds DEF Passed, Ordered, Rising
  <2>3. ASSUME NEW k \in 1..Len(rx_buf'), NEW p, p = rx_buf'[k]
        PROVE  Passed(p)'
    <3>1. CASE k \in 1..Len(rx_buf) /\ rx_buf'[k] = rx_buf[k]
      BY <2>1, <2>3, <3>1, Bounds DEF Ordered
    <3>2. CASE rx_buf'[k] = rx_ring[1]
      BY <1>1, <2>2, <2>3, <3>2 DEF Passed
    <3> QED
      BY <1>9, <3>1, <3>2
  <2>4. \A d \in delivered : \A k \in 1..Len(rx_buf') : d[2] < rx_buf'[k]
    BY <1>1, <1>2, <1>9 DEF Ordered, Passed
  <2>5. \A d \in delivered : Passed(d[2])'
    BY <2>1, Bounds DEF Ordered
  <2>6. (\A k \in 1..Len(rx_buf) : Passed(rx_buf[k]))'
    BY <2>3 DEF Passed
  <2>7. Rising(fifo') /\ Rising(rx_ring')
    BY <1>1 DEF Ordered
  <2> QED
    BY <1>1, <2>4, <2>5, <2>6, <2>7 DEF Ordered, Rising
<1>11. CASE rx_buf' = <<>>
  <2>1. Run' /\ Adjacent' /\ ParserWaits' /\ Stream'
    BY <1>1, <1>11 DEF Run, Adjacent, ParserWaits, Stream
  <2> QED
    BY <1>1, <1>5, <1>8, <1>10, <2>1
<1>12. CASE rx_buf' = Append(rx_buf, Head(rx_ring)) /\ rx_buf' # <<>>
  <2>1. /\ Len(rx_buf') = Len(rx_buf) + 1
        /\ rx_buf'[Len(rx_buf')] = rx_ring[1]
        /\ rx_buf # <<>> => rx_buf'[1] = rx_buf[1]
        /\ rx_buf = <<>> => rx_buf'[1] = rx_ring[1]
    <3>1. /\ Len(rx_buf') = Len(rx_buf) + 1
          /\ rx_buf'[Len(rx_buf) + 1] = rx_ring[1]
      BY <1>2, <1>12, Types
    <3>2. rx_buf # <<>> => rx_buf'[1] = rx_buf[1]
      BY <1>2, <1>12, Types
    <3>3. rx_buf = <<>> => Len(rx_buf) = 0
      OBVIOUS
    <3> QED
      BY <3>1, <3>2, <3>3
  <2>2. Run'
    <3>1. expected_for_header(rx_buf'[1]) # 0
      <4>1. CASE rx_buf = <<>>
        BY <1>2, <1>5, <1>12, <2>1, <4>1
      <4>2. CASE rx_buf # <<>>
        BY <2>1, <4>2 DEF Run
      <4> QED
        BY <4>1, <4>2
    <3>3. rx_buf # <<>> =>
            rx_ring[1] = rx_buf[Len(rx_buf)] + 1 /\ Len(rx_buf) \in 1..Len(rx_buf)
      BY <1>1, Types DEF Adjacent
    <3>4. rx_buf # <<>> => rx_ring[1] = rx_buf[1] + Len(rx_buf)
      <4>1. rx_buf # <<>> => rx_buf[Len(rx_buf)] = rx_buf[1] + Len(rx_buf) - 1
        BY <3>3 DEF Run
      <4>2. rx_buf # <<>> => rx_buf[1] \in Nat
        BY <3>3, Types, Bounds
      <4> QED
        BY <3>3, <4>1, <4>2, Types
    <3>5. ASSUME NEW k \in 1..Len(rx_buf')
          PROVE  rx_buf'[k] = rx_buf'[1] + k - 1
      <4>1. CASE rx_buf = <<>>
        BY <1>2, <2>1, <3>5, <4>1
      <4>2. CASE rx_buf # <<>> /\ k = Len(rx_buf) + 1
        BY <2>1, <3>4, <4>2, Types, Bounds
      <4>3. CASE rx_buf # <<>> /\ k \in 1..Len(rx_buf)
        BY <1>2, <1>12, <2>1, <4>3, Types DEF Run
      <4>4. k = Len(rx_buf) + 1 \/ k \in 1..Len(rx_buf)
        BY <2>1, Types
      <4> QED
        BY <4>1, <4>2, <4>3, <4>4
    <3>6. expected_for_header(rx_buf[1])' # 0
      BY <1>1, <3>1 DEF expected_for_header
    <3> QED
      BY <3>5, <3>6 DEF Run
  <2>3. Adjacent' /\ ParserWaits'
    BY <1>1, <2>1 DEF Adjacent, ParserWaits
  <2>4. Stream'
    <3>1. next' = next + 1 /\ first' = first /\ first \in Int
      BY <1>1, <2>1, Types DEF first, next
    <3>2. ~over /\ ~rx_overrun_latch /\ rx_buf = <<>> => rx_ring[1] = first
      <4>1. rx_buf = <<>> => first = Len(wire) - Len(fifo) - Len(rx_ring) + 1
        BY <1>1, Types DEF first, next
      <4> QED
        BY <1>2, <4>1 DEF Stream
    <3> QED
      BY <1>1, <2>1, <3>1, <3>2 DEF Stream
  <2> QED
    BY <1>1, <1>5, <1>8, <1>10, <2>2, <2>3, <2>4
<1> QED
  BY <1>6, <1>11, <1>12
LEMMA Expects ==
  ASSUME TypeOK
  PROVE  /\ \A p \in Positions : expected_for_header(p) \in 0..MaxFrame
         /\ \A k \in 1..Len(rx_buf) :
              expected_for_header(rx_buf[k]) \in 0..MaxFrame
<1>1. Expected \in [Bytes -> 0..MaxFrame]
  BY UartRxAssumption
<1>2. \A p \in Positions : wire[p] \in Bytes
  BY Types DEF Positions
<1>3. \A p \in Positions : expected_for_header(p) \in 0..MaxFrame
  BY <1>1, <1>2 DEF expected_for_header
<1> QED
  BY <1>3, Types

\* The parser is done with the byte, which leaves the ring.
LEMMA PollFedKeeps ==
  ASSUME RxInv, PollFed
  PROVE  RxInv' /\ next' = next
<1> USE DEF RxInv
<1>1. /\ UNCHANGED <<host, wire, fifo, over, isr, rx_overrun_latch, lost, rx_buf,
                     delivered>>
      /\ poll = "parse" /\ poll' = "check" /\ rx_ring' = Tail(rx_ring) /\ ~Complete
  BY DEF PollFed, MainAt, host, parser
<1>2. /\ rx_ring # <<>> /\ rx_ring' \in Seq(Positions)
      /\ Len(rx_ring') = Len(rx_ring) - 1
      /\ \A i \in 1..Len(rx_ring') :
           i + 1 \in 1..Len(rx_ring) /\ i + 1 # 1 /\ rx_ring'[i] = rx_ring[i + 1]
  BY <1>1, Types DEF Adjacent
<1>3. TypeOK'
  BY <1>1, <1>2, Types, HostStays, TypesBack, Sizes
<1>4. Ordered'
  <2>1. Rising(fifo') /\ Rising(rx_ring')
    BY <1>1, <1>2, Types, RisingTail DEF Ordered, Positions
  <2>2. ASSUME NEW p, Passed(p) PROVE Passed(p)'
    BY <1>1, <1>2, <2>2 DEF Passed
  <2>3. \A i \in 1..Len(rx_ring'), j \in 1..Len(fifo) : rx_ring'[i] < fifo[j]
    BY <1>2 DEF Ordered
  <2> QED
    BY <1>1, <2>1, <2>2, <2>3 DEF Ordered, Rising
<1>5. Run' /\ Adjacent'
  BY <1>1 DEF Run, Adjacent, expected_for_header
<1>6. ParserWaits'
  <2>1. rx_buf # <<>> => Len(rx_buf) < expected_for_header(rx_buf[1])
    BY <1>1, Types, Expects, Sizes DEF Complete
  <2> QED
    BY <1>1, <2>1 DEF ParserWaits, expected_for_header
<1>7. next' = next /\ first' = first
  BY <1>1, <1>2, Types DEF first, next
<1>8. Stream'
  <2>1. SUFFICES ASSUME ~over, ~rx_overrun_latch PROVE Stream!2'
    BY <1>1 DEF Stream
  <2>2. \A k \in 1..Len(rx_ring') :
          rx_ring'[k] = Len(wire) - Len(fifo) - Len(rx_ring') + k
    BY <1>2, <2>1, Types DEF Stream
  <2> QED
    BY <1>1, <1>7, <2>1, <2>2 DEF Stream
<1> QED
  BY <1>1, <1>3, <1>4, <1>5, <1>6, <1>7, <1>8

\* The parser drops its first m bytes and keeps the rest, which a header heads.
Drop(m) ==
  /\ rx_buf' \in Seq(Positions) /\ Len(rx_buf') = Len(rx_buf) - m
  /\ \A k \in 1..Len(rx_buf') : rx_buf'[k] = rx_buf[m + k]
  /\ m < Len(rx_buf) => expected_for_header(rx_buf[m + 1]) # 0

LEMMA SubSeqIs ==
  ASSUME NEW S, NEW s \in Seq(S), NEW a \in 1..Len(s), NEW n \in Nat, n >= 1,
         a + n - 1 <= Len(s)
  PROVE  SubSeq(s, a, a + n - 1) = [k \in 1..n |-> s[a + k - 1]]
<1> DEFINE t == [k \in 1..n |-> s[a + k - 1]]
<1>1. \A i \in a..(a + n - 1) : s[i] \in S
  OBVIOUS
<1>2. /\ SubSeq(s, a, a + n - 1) \in Seq(S) /\ Len(SubSeq(s, a, a + n - 1)) = n
      /\ \A k \in 1..n : SubSeq(s, a, a + n - 1)[k] = s[a + k - 1]
  BY <1>1, SubSeqProperties
<1>3. \A k \in 1..n : s[a + k - 1] \in S
  OBVIOUS
<1>4. t \in Seq(S) /\ Len(t) = n
  BY <1>3
<1> QED
  BY <1>2, <1>4, SeqEqual

LEMMA ShiftIs ==
  ASSUME TypeOK, NEW n \in 1..Len(rx_buf), rx_buf' = shift_rx_buf(n)
  PROVE  \/ Drop(n)
         \/ /\ Drop(Len(rx_buf)) /\ n < Len(rx_buf)
            /\ expected_for_header(rx_buf[n + 1]) = 0
<1>1. CASE n >= Len(rx_buf)
  <2>1. rx_buf' = <<>> /\ n = Len(rx_buf)
    BY <1>1 DEF shift_rx_buf
  <2> QED
    BY <2>1 DEF Drop, Positions
<1>2. CASE n < Len(rx_buf) /\ expected_for_header(rx_buf[n + 1]) = 0
  <2>1. rx_buf' = <<>>
    BY <1>2 DEF shift_rx_buf
  <2> QED
    BY <1>2, <2>1 DEF Drop, Positions
<1>3. CASE n < Len(rx_buf) /\ expected_for_header(rx_buf[n + 1]) # 0
  <2>1. rx_buf' = SubSeq(rx_buf, n + 1, Len(rx_buf))
    BY <1>3 DEF shift_rx_buf
  <2>2. /\ rx_buf' \in Seq(Positions) /\ Len(rx_buf') = Len(rx_buf) - n
        /\ \A k \in 1..Len(rx_buf') : rx_buf'[k] = rx_buf[n + k]
    <3>1. PICK l \in Nat : l = Len(rx_buf) - n /\ l >= 1
      BY <1>3
    <3>2. n + 1 \in 1..Len(rx_buf) /\ (n + 1) + l - 1 = Len(rx_buf)
      BY <1>3, <3>1
    <3>3. rx_buf' = [k \in 1..l |-> rx_buf[(n + 1) + k - 1]]
      BY <2>1, <3>1, <3>2, SubSeqIs
    <3>4. \A k \in 1..l : (n + 1) + k - 1 = n + k /\ rx_buf[n + k] \in Positions
      BY <3>1, Types
    <3> QED
      BY <3>1, <3>3, <3>4
  <2> QED
    BY <1>3, <2>2 DEF Drop
<1> QED
  BY <1>1, <1>2, <1>3

LEMMA Least ==
  ASSUME NEW T, T \subseteq Nat, T # {}
  PROVE  \E x \in T : \A y \in T : x <= y
<1>1. \E x \in T : \A y \in T : ~(<<y, x>> \in OpToRel(<, Nat))
  BY NatLessThanWellFounded, WFMin, Zenon
<1>2. \A x, y \in Nat : y < x => <<y, x>> \in OpToRel(<, Nat)
  BY DEF OpToRel
<1> HIDE DEF OpToRel
<1>3. PICK x \in T : \A y \in T : ~(<<y, x>> \in OpToRel(<, Nat))
  BY <1>1
<1>4. \A y \in T : ~(y < x)
  BY <1>2, <1>3, Zenon
<1> QED
  BY <1>4

LEMMA ResyncIs ==
  ASSUME TypeOK, rx_buf # <<>>, rx_buf' = resync_parser
  PROVE  \E m \in 1..Len(rx_buf) :
           /\ Drop(m)
           /\ \A k \in 2..m : expected_for_header(rx_buf[k]) = 0
<1> DEFINE headers == {k \in 2..Len(rx_buf) : expected_for_header(rx_buf[k]) # 0}
<1> USE Types
<1>1. CASE headers = {}
  <2>1. rx_buf' = <<>>
    BY <1>1 DEF resync_parser
  <2>2. Drop(Len(rx_buf)) /\ Len(rx_buf) \in 1..Len(rx_buf)
    BY <2>1 DEF Drop, Positions
  <2> QED
    BY <1>1, <2>2
<1>2. CASE headers # {}
  <2>1. \E k \in headers : \A l \in headers : k <= l
    <3>1. headers \subseteq Nat
      OBVIOUS
    <3> QED
      BY <1>2, <3>1, Least
  <2> DEFINE k == CHOOSE k \in headers : \A l \in headers : k <= l
  <2>2. k \in headers /\ \A l \in headers : k <= l
    BY <2>1, Zenon
  <2>3. rx_buf' = shift_rx_buf(k - 1)
    BY <1>2 DEF resync_parser
  <2> HIDE DEF k
  <2>4. k \in 2..Len(rx_buf) /\ expected_for_header(rx_buf[k]) # 0
    BY <2>2
  <2>5. k - 1 \in 1..Len(rx_buf) /\ k - 1 < Len(rx_buf) /\ (k - 1) + 1 = k
    BY <2>4
  <2>6. Drop(k - 1)
    BY <2>3, <2>4, <2>5, ShiftIs
  <2>7. \A l \in 2..(k - 1) : expected_for_header(rx_buf[l]) = 0
    BY <2>2, <2>5
  <2> QED
    BY <2>5, <2>6, <2>7
<1> QED
  BY <1>1, <1>2
\* Dropping bytes from the front of the parser keeps the rest in order, and a
\* frame dispatched from among them is behind the rest.
LEMMA DropKeeps ==
  ASSUME RxInv, poll = "parse",
         UNCHANGED <<host, fifo, over, isr, rx_ring, rx_overrun_latch, poll, lost>>,
         NEW m \in 1..Len(rx_buf), Drop(m),
         \A d \in delivered' :
           d \in delivered \/ \E n \in 1..m : d = <<rx_buf[1], rx_buf[n]>>
  PROVE  RxInv' /\ next' = next /\ first' = first + m
<1> USE DEF RxInv
<1>1. /\ rx_buf' \in Seq(Positions) /\ Len(rx_buf') = Len(rx_buf) - m
      /\ \A k \in 1..Len(rx_buf') :
           m + k \in 1..Len(rx_buf) /\ rx_buf'[k] = rx_buf[m + k]
      /\ rx_buf' # <<>> => expected_for_header(rx_buf[m + 1]) # 0
  BY Types DEF Drop
<1>2. wire' = wire
  BY DEF host
<1>10. /\ rx_buf[1] \in Nat /\ 1 \in 1..Len(rx_buf) /\ Len(rx_buf') \in Nat
       /\ \A k \in 1..Len(rx_buf) : rx_buf[k] = rx_buf[1] + k - 1
  BY <1>1, Types, Bounds DEF Run
<1>11. ASSUME NEW k \in 1..Len(rx_buf')
       PROVE  rx_buf'[k] = rx_buf[1] + m + k - 1
  <2>1. m + k \in 1..Len(rx_buf) /\ rx_buf'[k] = rx_buf[m + k]
    BY <1>1
  <2>2. rx_buf[m + k] = rx_buf[1] + (m + k) - 1
    BY <1>10, <2>1
  <2> QED
    BY <1>10, <2>1, <2>2
<1>12. rx_buf' # <<>> => 1 \in 1..Len(rx_buf') /\ Len(rx_buf') \in 1..Len(rx_buf')
  BY <1>1
<1>3. TypeOK'
  <2>1. \A d \in delivered' : d \in Positions \X Positions
    BY Types
  <2> QED
    BY <1>1, <2>1, Types, HostStays, TypesBack
<1>4. Ordered'
  <2>1. ASSUME NEW p PROVE Passed(p)' <=> Passed(p)
    BY DEF Passed
  <2>2. \A k \in 1..Len(rx_buf') : Passed(rx_buf'[k])
    BY <1>1 DEF Ordered
  <2>3. (\A k \in 1..Len(rx_buf) : Passed(rx_buf[k]))'
    BY <2>2 DEF Passed
  <2>4. ASSUME NEW d \in delivered'
        PROVE  Passed(d[2]) /\ \A k \in 1..Len(rx_buf') : d[2] < rx_buf'[k]
    <3>1. CASE d \in delivered
      BY <1>1, <3>1 DEF Ordered
    <3>2. CASE \E n \in 1..m : d = <<rx_buf[1], rx_buf[n]>>
      <4>1. PICK n \in 1..m : d = <<rx_buf[1], rx_buf[n]>>
        BY <3>2
      <4>2. n \in 1..Len(rx_buf) /\ d[2] = rx_buf[n]
        BY <4>1, Types
      <4>3. rx_buf[n] = rx_buf[1] + n - 1
        BY <1>10, <4>2
      <4>4. \A k \in 1..Len(rx_buf') : rx_buf[n] < rx_buf'[k]
        <5> TAKE k \in 1..Len(rx_buf')
        <5>1. rx_buf'[k] = rx_buf[1] + m + k - 1
          BY <1>11
        <5>2. PICK f \in Nat : f = rx_buf[1]
          BY <1>10
        <5> QED
          <6>1. rx_buf[n] = f + n - 1 /\ rx_buf'[k] = f + m + k - 1
            BY <4>3, <5>1, <5>2
          <6>2. k \in Nat /\ k >= 1 /\ n \in Nat /\ m \in Nat /\ n <= m
            BY <1>10, <4>1
          <6> QED
            BY <6>1, <6>2
      <4> QED
        BY <4>2, <4>4 DEF Ordered
    <3> QED
      BY <3>1, <3>2
  <2>5. \A d \in delivered' : Passed(d[2])'
    BY <2>1, <2>4
  <2>6. Rising(fifo') /\ Rising(rx_ring')
    BY DEF Ordered
  <2> QED
    BY <2>3, <2>4, <2>5, <2>6 DEF Ordered, Rising
<1>5. Run'
  <2>1. \A k \in 1..Len(rx_buf') : rx_buf'[k] = rx_buf'[1] + k - 1
    BY <1>10, <1>11, <1>12
  <2>2. rx_buf' # <<>> => rx_buf'[1] = rx_buf[m + 1]
    BY <1>1
  <2> QED
    BY <1>1, <1>2, <2>1, <2>2 DEF Run, expected_for_header
<1>6. Adjacent'
  <2>1. rx_buf' # <<>> => rx_buf'[Len(rx_buf')] = rx_buf[Len(rx_buf)]
    <3>1. Len(rx_buf) \in 1..Len(rx_buf)
      BY Types
    <3>2. rx_buf[Len(rx_buf)] = rx_buf[1] + Len(rx_buf) - 1
      BY <1>10, <3>1
    <3>3. rx_buf' # <<>> => rx_buf'[Len(rx_buf')] = rx_buf[1] + m + Len(rx_buf') - 1
      BY <1>11, <1>12
    <3> QED
      BY <1>1, <1>10, <3>2, <3>3, Types
  <2> QED
    BY <2>1 DEF Adjacent
<1>7. ParserWaits'
  BY DEF ParserWaits
<1>8. next' = next /\ first' = first + m
  BY <1>1, <1>2, Types DEF first, next
<1>9. Stream'
  <2>1. rx_buf' # <<>> => rx_buf'[1] = rx_buf[1] + m
    BY <1>10, <1>11, <1>12
  <2>2. rx_buf # <<>>
    BY Types
  <2> QED
    BY <1>2, <1>8, <2>1, <2>2, Types DEF Stream
<1> QED
  BY <1>3, <1>4, <1>5, <1>6, <1>7, <1>8, <1>9

LEMMA DispatchKeeps ==
  ASSUME RxInv, Dispatch
  PROVE  RxInv'
<1> DEFINE n == expected_for_header(rx_buf[1])
<1>1. /\ poll = "parse" /\ n \in 1..Len(rx_buf)
      /\ UNCHANGED <<host, fifo, over, isr, rx_ring, rx_overrun_latch, poll, lost>>
      /\ delivered' = delivered \cup {<<rx_buf[1], rx_buf[n]>>}
      /\ rx_buf' = shift_rx_buf(n)
  BY Types, Expects, Sizes DEF Dispatch, MainAt, Complete, RxInv, Run
<1> HIDE DEF n
<1>2. PICK m \in n..Len(rx_buf) : Drop(m)
  BY <1>1, ShiftIs, Types DEF RxInv
<1> QED
  BY <1>1, <1>2, DropKeeps, Types DEF RxInv

LEMMA ResyncKeeps ==
  ASSUME RxInv, Resync
  PROVE  RxInv'
<1>1. /\ poll = "parse" /\ rx_buf # <<>>
      /\ UNCHANGED <<host, fifo, over, isr, rx_ring, rx_overrun_latch, poll, lost,
                     delivered>>
      /\ rx_buf' = resync_parser
  BY DEF Resync, MainAt, Complete
<1>2. PICK m \in 1..Len(rx_buf) : Drop(m)
  BY <1>1, ResyncIs DEF RxInv
<1> QED
  BY <1>1, <1>2, DropKeeps

LEMMA SendKeeps ==
  ASSUME RxInv, Underway, SendFirst \/ SendNext \/ Noise
  PROVE  RxInv'
<1> USE DEF RxInv
<1>1. ASSUME NEW rest \in Seq(Bytes), rest # <<>>, NEW from \in 1..(Len(wire) + 1),
             SendByte(rest, from)
      PROVE  RxInv'
  <2>1. Receive(rest[1]) /\ rest[1] \in Bytes
    BY <1>1 DEF SendByte
  <2>2. Len(wire') = Len(wire) + 1
    BY <2>1, Types DEF Receive
  <2>3. /\ sending' \in Seq(Bytes) /\ faults' \in 0..MaxFaults
        /\ begun' \in 0..Len(wire') /\ starts' \subseteq Positions'
    BY <1>1, <2>2, Types, HostTypes DEF SendByte, Positions
  <2> QED
    BY <2>1, <2>3, ReceiveKeeps
<1>2. CASE SendFirst
  <2>1. PICK f \in Frames : SendByte(f, Len(wire) + 1)
    BY <1>2 DEF SendFirst
  <2>2. f \in Seq(Bytes) /\ f # <<>>
    BY UartRxAssumption
  <2> QED
    BY <1>1, <2>1, <2>2, Types
<1>3. CASE SendNext
  BY <1>1, <1>3, Types, HostTypes DEF SendNext, Underway
<1>4. CASE Noise
  <2>1. PICK b \in Bytes : Receive(b)
    BY <1>4 DEF Noise
  <2>2. Len(wire') = Len(wire) + 1
    BY <2>1, Types DEF Receive
  <2>3. /\ sending' \in Seq(Bytes) /\ faults' \in 0..MaxFaults
        /\ begun' \in 0..Len(wire') /\ starts' \subseteq Positions'
    <3>1. UNCHANGED <<sending, begun, starts>> /\ faults' = faults + 1
      BY <1>4 DEF Noise
    <3>2. faults' \in 0..MaxFaults
      BY <1>4, <3>1, HostTypes, Sizes DEF Noise
    <3>3. begun' \in 0..Len(wire') /\ starts' \subseteq Positions'
      BY <2>2, <3>1, Types, HostTypes DEF Positions
    <3> QED
      BY <3>1, <3>2, <3>3, HostTypes
  <2> QED
    BY <2>1, <2>3, ReceiveKeeps
<1> QED
  BY <1>2, <1>3, <1>4

LEMMA RxStep == RxInv /\ Underway /\ [Next]_vars => RxInv' /\ Underway'
<1> SUFFICES ASSUME RxInv, Underway, [Next]_vars PROVE RxInv' /\ Underway'
  OBVIOUS
<1>1. RxInv'
  BY QuietSteps, SendKeeps, IrqByteKeeps, PollHoleKeeps, PollFeedKeeps,
     DispatchKeeps, ResyncKeeps, PollFedKeeps
  DEF Next, HostSend, UART1_IRQHandler, KeyboardUart_Poll
<1>2. Underway'
  <2>1. CASE SendFirst
    BY <2>1, Types DEF SendFirst, SendByte, Underway, RxInv
  <2>2. CASE SendNext
    BY <2>2 DEF SendNext, SendByte, Underway
  <2>3. CASE BreakOff
    BY <2>3 DEF BreakOff, Underway
  <2>4. CASE Noise
    BY <2>4 DEF Noise, Underway
  <2>5. CASE UNCHANGED host
    BY <2>5 DEF host, Underway
  <2>6. UART1_IRQHandler \/ KeyboardUart_Poll \/ UNCHANGED vars => UNCHANGED host
    BY Zenon DEF UART1_IRQHandler, IrqEnter, IrqByte, IrqExit,
       KeyboardUart_Poll, Enter, PollHole, PollCheck, PollDone, PollFeed,
       Dispatch, Resync, PollFed, vars
  <2> QED
    BY <2>1, <2>2, <2>3, <2>4, <2>5, <2>6, Zenon DEF Next, HostSend
<1> QED
  BY <1>1, <1>2

LEMMA RxAlways == Spec => [](RxInv /\ Underway)
<1>1. Init => Underway
  BY DEF Init, Underway
<1> QED
  BY <1>1, RxInit, RxStep, PTL DEF Spec
\* The stretch of the wire under the parser's first n bytes is what it has in
\* its buffer.
LEMMA Stretch ==
  ASSUME RxInv, NEW n \in 1..Len(rx_buf)
  PROVE  /\ rx_buf[n] = rx_buf[1] + n - 1 /\ rx_buf[1] \in Positions
         /\ rx_buf[n] \in Positions
         /\ SubSeq(wire, rx_buf[1], rx_buf[n]) = values(SubSeq(rx_buf, 1, n))
         /\ values(SubSeq(rx_buf, 1, n)) = [k \in 1..n |-> wire[rx_buf[1] + k - 1]]
<1>1. /\ rx_buf[n] = rx_buf[1] + n - 1
      /\ rx_buf[1] \in Positions /\ rx_buf[n] \in Positions
  BY Types DEF RxInv, Run
<1>2. /\ Len(SubSeq(rx_buf, 1, n)) = n
      /\ \A k \in 1..n : SubSeq(rx_buf, 1, n)[k] = rx_buf[k]
  BY Types DEF RxInv
<1>3. values(SubSeq(rx_buf, 1, n)) = [k \in 1..n |-> wire[rx_buf[1] + k - 1]]
  <2>1. \A k \in 1..n : rx_buf[k] = rx_buf[1] + k - 1
    BY Types DEF RxInv, Run
  <2> QED
    BY <1>2, <2>1 DEF values
<1>4. SubSeq(wire, rx_buf[1], rx_buf[n]) = [k \in 1..n |-> wire[rx_buf[1] + k - 1]]
  <2>1. /\ wire \in Seq(Bytes) /\ rx_buf[1] \in 1..Len(wire) /\ n \in Nat /\ n >= 1
        /\ rx_buf[1] + n - 1 <= Len(wire)
    BY <1>1, Types DEF RxInv, Positions
  <2>2. SubSeq(wire, rx_buf[1], rx_buf[1] + n - 1) =
          [k \in 1..n |-> wire[rx_buf[1] + k - 1]]
    BY <2>1, SubSeqIs
  <2> QED
    BY <1>1, <2>2
<1> QED
  BY <1>1, <1>3, <1>4

\* The types of the model's variables.
THEOREM UartTypes == Spec => []TypeOK
<1>1. RxInv => TypeOK
  BY DEF RxInv
<1> QED
  BY <1>1, RxAlways, PTL

(* What is dispatched is a frame: its bytes lie next to each other on the    *)
(* wire, none is missing, none counts twice and frames keep their order, for *)
(* every size of the FIFO and the ring and any number of faults              *)
(* (keyboard_uart.c, UART1_IRQHandler, KeyboardUart_Poll, process_rx_buf).   *)
THEOREM FrameChannelImplemented == Spec => ImplementsFrameChannel
<1>1. Init => Channel!Init
  BY DEF Init, Channel!Init
<1>2. RxInv /\ [Next]_vars => [Channel!Next]_(Channel!vars)
  <2> SUFFICES ASSUME RxInv, [Next]_vars PROVE [Channel!Next]_(Channel!vars)
    OBVIOUS
  <2> USE DEF Channel!vars
  <2>1. ASSUME NEW b \in Bytes, Receive(b) PROVE [Channel!Next]_(Channel!vars)
    BY <2>1 DEF Receive, parser, Channel!Next, Channel!Send
  <2>2. CASE SendFirst
    <3>1. PICK f \in Frames : Receive(f[1])
      BY <2>2 DEF SendFirst, SendByte
    <3>2. f \in Seq(Bytes) /\ f # <<>>
      BY UartRxAssumption
    <3> QED
      BY <2>1, <3>1, <3>2
  <2>3. CASE SendNext
    BY <2>1, <2>3, HostTypes DEF SendNext, SendByte, RxInv
  <2>4. CASE Noise
    BY <2>1, <2>4 DEF Noise
  <2>5. CASE Dispatch
    <3> DEFINE n == expected_for_header(rx_buf[1])
    <3>1. /\ n \in 1..Len(rx_buf)
          /\ values(SubSeq(rx_buf, 1, n)) \in Frames
          /\ delivered' = delivered \cup {<<rx_buf[1], rx_buf[n]>>}
          /\ wire' = wire
      BY <2>5, Types, Expects, Sizes
         DEF Dispatch, Complete, frame_is_valid, RxInv, Run, host
    <3> HIDE DEF n
    <3>2. /\ rx_buf[n] = rx_buf[1] + n - 1
          /\ rx_buf[1] \in 1..Len(wire) /\ rx_buf[n] \in 1..Len(wire)
          /\ SubSeq(wire, rx_buf[1], rx_buf[n]) \in Frames
      BY <3>1, Stretch DEF Positions
    <3>3. \A d \in delivered : d[2] < rx_buf[1]
      BY <3>1, Types DEF RxInv, Ordered
    <3>4. rx_buf[1] <= rx_buf[n]
      BY <3>1, <3>2
    <3>5. Channel!Deliver(rx_buf[1], rx_buf[n])
      BY <3>1, <3>2, <3>3 DEF Channel!Deliver
    <3> QED
      BY <3>2, <3>4, <3>5 DEF Channel!Next
  <2>6. CASE UNCHANGED <<wire, delivered>>
    BY <2>6
  <2>7. BreakOff \/ UART1_IRQHandler \/ UNCHANGED vars \/ Enter \/ PollHole
          \/ PollCheck \/ PollDone \/ PollFeed \/ Resync \/ PollFed =>
        UNCHANGED <<wire, delivered>>
    BY Zenon DEF BreakOff, UART1_IRQHandler, IrqEnter, IrqByte, IrqExit, vars,
       Enter, PollHole, PollCheck, PollDone, PollFeed, Resync, PollFed, host,
       parser
  <2> QED
    BY <2>2, <2>3, <2>4, <2>5, <2>6, <2>7 DEF Next, HostSend, KeyboardUart_Poll
<1> QED
  BY <1>1, <1>2, RxAlways, PTL DEF Spec, ImplementsFrameChannel, Channel!Spec
-----------------------------------------------------------------------------
LEMMA FrameFacts ==
  ASSUME NEW f \in Frames
  PROVE  /\ f \in Seq(Bytes) /\ Len(f) \in Nat /\ Len(f) >= 1
         /\ f[1] \in Bytes /\ Len(f) = Expected[f[1]]
<1>1. f \in Seq(Bytes) /\ f # <<>> /\ Len(f) = Expected[f[1]]
  BY UartRxAssumption
<1> QED
  BY <1>1

\* The header of a frame says how long it is.
LEMMA HeaderLength ==
  ASSUME TypeOK, Layout
  PROVE  /\ \A s \in starts :
              /\ s \in Nat /\ 1 <= s /\ s <= Len(wire)
              /\ expected_for_header(s) \in Nat /\ expected_for_header(s) >= 1
         /\ sending # <<>> =>
              /\ begun \in Nat /\ 1 <= begun /\ begun <= Len(wire)
              /\ expected_for_header(begun) \in Nat
              /\ expected_for_header(begun) >= 1
<1>1. \A s, rest : FrameAt(s, rest) =>
        expected_for_header(s) \in Nat /\ expected_for_header(s) >= 1
  BY FrameFacts DEF FrameAt
<1> QED
  BY <1>1, Types, HostTypes DEF Layout, Positions

\* What a byte that moves from `rest' to the wire changes of the two together.
LEMMA MoveByte ==
  ASSUME NEW S, NEW w \in Seq(S), NEW rest \in Seq(S), rest # <<>>
  PROVE  /\ Append(w, rest[1]) \in Seq(S) /\ Tail(rest) \in Seq(S)
         /\ Len(w) \in Nat /\ Len(rest) \in Nat /\ Len(rest) >= 1
         /\ Len(Append(w, rest[1])) = Len(w) + 1
         /\ Len(Tail(rest)) = Len(rest) - 1
         /\ Tail(rest) # <<>> <=> Len(rest) # 1
         /\ \A p \in 1..Len(w) : Append(w, rest[1])[p] = w[p]
         /\ Append(w, rest[1])[Len(w) + 1] = rest[1]
<1>1. rest[1] \in S /\ Len(w) \in Nat /\ Len(rest) \in Nat /\ Len(rest) >= 1
  OBVIOUS
<1>2. /\ Append(w, rest[1]) \in Seq(S) /\ Len(Append(w, rest[1])) = Len(w) + 1
      /\ \A p \in 1..Len(w) : Append(w, rest[1])[p] = w[p]
      /\ Append(w, rest[1])[Len(w) + 1] = rest[1]
  BY <1>1
<1>3. Tail(rest) \in Seq(S) /\ Len(Tail(rest)) = Len(rest) - 1
  OBVIOUS
<1>4. Tail(rest) # <<>> <=> Len(rest) # 1
  <2>1. Tail(rest) = <<>> <=> Len(Tail(rest)) = 0
    BY <1>3, EmptySeq, Zenon
  <2> QED
    BY <1>1, <1>3, <2>1
<1> QED
  BY <1>1, <1>2, <1>3, <1>4

LEMMA ByteSent ==
  ASSUME TypeOK, NEW rest \in Seq(Bytes), rest # <<>>,
         wire' = Append(wire, rest[1]), sending' = Tail(rest)
  PROVE  /\ wire \in Seq(Bytes) /\ Len(wire) \in Nat
         /\ Len(rest) \in Nat /\ Len(rest) >= 1
         /\ wire' \in Seq(Bytes) /\ Len(wire') = Len(wire) + 1
         /\ \A p \in 1..Len(wire) : wire'[p] = wire[p]
         /\ wire'[Len(wire) + 1] = rest[1]
         /\ sending' \in Seq(Bytes) /\ Len(sending') = Len(rest) - 1
         /\ sending' # <<>> <=> Len(rest) # 1
<1>1. wire \in Seq(Bytes)
  BY Types
<1> QED
  BY <1>1, MoveByte

LEMMA MoveByteAt ==
  ASSUME NEW S, NEW w \in Seq(S), NEW rest \in Seq(S), rest # <<>>,
         NEW p \in 1..(Len(w) + Len(rest))
  PROVE  (IF p <= Len(w) THEN w[p] ELSE rest[p - Len(w)]) =
         (IF p <= Len(w) + 1 THEN Append(w, rest[1])[p]
          ELSE Tail(rest)[p - (Len(w) + 1)])
<1>1. CASE p <= Len(w)
  BY <1>1
<1>2. CASE p = Len(w) + 1
  BY <1>2
<1>3. CASE p > Len(w) + 1
  <2>1. p - (Len(w) + 1) \in 1..Len(Tail(rest))
    BY <1>3
  <2>2. Tail(rest)[p - (Len(w) + 1)] = rest[(p - (Len(w) + 1)) + 1]
    BY <2>1
  <2>3. (p - (Len(w) + 1)) + 1 = p - Len(w)
    OBVIOUS
  <2> QED
    BY <1>3, <2>2, <2>3
<1> QED
  BY <1>1, <1>2, <1>3

\* A byte of a frame is sent: the frames sent whole stay where they are, and so
\* do the boundaries; a frame that ends with this byte is followed by one.
LEMMA SendStep ==
  ASSUME TypeOK, Layout,
         NEW rest \in Seq(Bytes), rest # <<>>, NEW from \in 1..(Len(wire) + 1),
         NEW f \in Frames, SendByte(rest, from),
         Len(f) = Len(wire) + 1 - from + Len(rest),
         \A k \in 1..Len(f) :
           f[k] = IF from + k - 1 <= Len(wire) THEN wire[from + k - 1]
                  ELSE rest[from + k - 1 - Len(wire)],
         \A s \in starts : End(s) <= from,
         \/ sending = <<>> /\ from = Len(wire) + 1
         \/ sending # <<>> /\ from = begun
  PROVE  /\ Layout'
         /\ \A p : Boundary(p) => Boundary(p)'
         /\ \A s \in starts : End(s)' = End(s)
         /\ \A s \in starts' : s \in starts \/ (s = from /\ Boundary(End(s))')
<1>1. /\ wire' = Append(wire, rest[1]) /\ sending' = Tail(rest) /\ begun' = from
      /\ starts' = IF Len(rest) = 1 THEN starts \cup {from} ELSE starts
  BY DEF SendByte, Receive
<1>2. /\ wire \in Seq(Bytes) /\ Len(wire) \in Nat
      /\ Len(rest) \in Nat /\ Len(rest) >= 1
      /\ wire' \in Seq(Bytes) /\ Len(wire') = Len(wire) + 1
      /\ \A p \in 1..Len(wire) : wire'[p] = wire[p]
      /\ wire'[Len(wire) + 1] = rest[1]
      /\ sending' \in Seq(Bytes) /\ Len(sending') = Len(rest) - 1
      /\ sending' # <<>> <=> Len(rest) # 1
  BY <1>1, ByteSent
<1>3. /\ Len(f) \in Nat /\ Len(f) >= 1 /\ Len(f) = Expected[f[1]]
  BY FrameFacts
<1>4. expected_for_header(from)' = Len(f)
  <2>1. wire'[from] = f[1]
    <3>1. f[1] = IF from <= Len(wire) THEN wire[from] ELSE rest[from - Len(wire)]
      BY <1>2, <1>3
    <3>2. CASE from <= Len(wire)
      BY <1>2, <3>1, <3>2
    <3>3. CASE from = Len(wire) + 1
      <4>1. from - Len(wire) = 1 /\ ~(from <= Len(wire))
        BY <1>2, <3>3
      <4> QED
        BY <1>2, <3>1, <3>3, <4>1
    <3> QED
      BY <1>2, <3>2, <3>3
  <2> QED
    BY <1>3, <2>1 DEF expected_for_header
<1>5. \A s \in starts :
        /\ s \in Nat /\ 1 <= s /\ s <= Len(wire) /\ End(s) \in Nat
        /\ expected_for_header(s)' = expected_for_header(s) /\ End(s)' = End(s)
  <2> SUFFICES ASSUME NEW s \in starts
               PROVE  /\ s \in Nat /\ 1 <= s /\ s <= Len(wire) /\ End(s) \in Nat
                      /\ expected_for_header(s)' = expected_for_header(s)
                      /\ End(s)' = End(s)
    OBVIOUS
  <2>1. /\ s \in Nat /\ 1 <= s /\ s <= Len(wire)
        /\ expected_for_header(s) \in Nat
    BY HeaderLength
  <2>2. expected_for_header(s)' = expected_for_header(s)
    BY <1>2, <2>1 DEF expected_for_header
  <2> QED
    BY <2>1, <2>2 DEF End
<1>6. End(from)' = Len(wire) + 1 + Len(rest)
  BY <1>2, <1>4 DEF End
<1>7. \A k \in 1..Len(f) :
        f[k] = IF from + k - 1 <= Len(wire') THEN wire'[from + k - 1]
               ELSE sending'[from + k - 1 - Len(wire')]
  <2> TAKE k \in 1..Len(f)
  <2>1. from + k - 1 \in 1..(Len(wire) + Len(rest))
    BY <1>2, <1>3
  <2>2. f[k] = IF from + k - 1 <= Len(wire) THEN wire[from + k - 1]
               ELSE rest[from + k - 1 - Len(wire)]
    OBVIOUS
  <2> QED
    BY <1>1, <1>2, <2>1, <2>2, MoveByteAt
<1>8. FrameAt(from, sending)'
  BY <1>4, <1>7 DEF FrameAt
<1>9. \A s \in starts : FrameAt(s, <<>>)'
  <2> SUFFICES ASSUME NEW s \in starts PROVE FrameAt(s, <<>>)'
    OBVIOUS
  <2>1. PICK g \in Frames :
          /\ Len(g) = expected_for_header(s)
          /\ \A k \in 1..Len(g) :
               g[k] = IF s + k - 1 <= Len(wire) THEN wire[s + k - 1]
                      ELSE <<>>[s + k - 1 - Len(wire)]
    BY DEF Layout, FrameAt
  <2>2. s + Len(g) <= Len(wire) + 1 /\ Len(g) \in Nat
    BY <2>1, FrameFacts DEF Layout, End
  <2>3. \A k \in 1..Len(g) : s + k - 1 <= Len(wire') /\ g[k] = wire'[s + k - 1]
    <3> TAKE k \in 1..Len(g)
    <3>1. s + k - 1 \in 1..Len(wire) /\ s + k - 1 <= Len(wire')
      <4>1. s \in Nat /\ 1 <= s /\ Len(wire) \in Nat /\ Len(wire') = Len(wire) + 1
        BY <1>2, <1>5
      <4> QED
        BY <2>2, <4>1
    <3>2. g[k] = wire[s + k - 1]
      BY <2>1, <3>1
    <3> QED
      BY <1>2, <3>1, <3>2
  <2> QED
    BY <1>5, <2>1, <2>3 DEF FrameAt
<1>10. \A p : Boundary(p) => Boundary(p)'
  BY <1>1, <1>2 DEF Boundary
<1>11. Len(rest) = 1 => FrameAt(from, <<>>)' /\ Boundary(End(from))'
  <2> SUFFICES ASSUME Len(rest) = 1 PROVE FrameAt(from, <<>>)' /\ Boundary(End(from))'
    OBVIOUS
  <2>1. \A k \in 1..Len(f) : from + k - 1 <= Len(wire') /\ f[k] = wire'[from + k - 1]
    <3> TAKE k \in 1..Len(f)
    <3>1. from + k - 1 <= Len(wire')
      BY <1>2, <1>3
    <3> QED
      BY <1>7, <3>1
  <2>2. FrameAt(from, <<>>)'
    BY <1>4, <2>1 DEF FrameAt
  <2>3. sending' = <<>> /\ End(from)' = Len(wire') + 1
    BY <1>2, <1>6
  <2>4. Boundary(End(from))'
    BY <2>3 DEF Boundary, End, expected_for_header
  <2> QED
    BY <2>2, <2>4
<1>12. Layout'
  <2>1. ASSUME NEW s \in starts' PROVE FrameAt(s, <<>>)' /\ End(s)' <= Len(wire') + 1
    <3>1. CASE s \in starts
      BY <1>2, <1>5, <1>9, <3>1 DEF Layout
    <3>2. CASE Len(rest) = 1 /\ s = from
      BY <1>2, <1>6, <1>11, <3>2
    <3> QED
      BY <1>1, <3>1, <3>2
  <2>2. ASSUME NEW s \in starts', sending' # <<>> PROVE End(s)' <= begun'
    BY <1>1, <1>2, <1>5, <2>2
  <2>3. ASSUME NEW s \in starts', NEW t \in starts', s < t PROVE End(s)' <= t
    <3>1. CASE s \in starts /\ t \in starts
      BY <1>5, <2>3, <3>1 DEF Layout
    <3>2. CASE s \in starts /\ t = from
      BY <1>5, <3>2
    <3>3. CASE s = from /\ t \in starts
      BY <1>5, <2>3, <3>3, HeaderLength DEF End
    <3> QED
      BY <1>1, <2>3, <3>1, <3>2, <3>3
  <2>4. sending' # <<>> =>
          /\ begun' \in Positions' /\ FrameAt(begun, sending)'
          /\ End(begun)' = Len(wire') + 1 + Len(sending')
    <3>1. from \in Positions'
      BY <1>2 DEF Positions
    <3>2. Len(wire) + 1 + Len(rest) = Len(wire') + 1 + Len(sending')
      BY <1>2
    <3> QED
      BY <1>1, <1>6, <1>8, <3>1, <3>2 DEF FrameAt, End, expected_for_header
  <2> QED
    BY <2>1, <2>2, <2>3, <2>4 DEF Layout
<1>13. \A s \in starts' : s \in starts \/ (s = from /\ Boundary(End(s))')
  BY <1>1, <1>11
<1> QED
  BY <1>5, <1>10, <1>12, <1>13
LEMMA KeptInit == Init => KeptInv
<1> SUFFICES ASSUME Init PROVE KeptInv
  OBVIOUS
<1>1. first = 1 /\ Len(wire) + 1 = 1
  BY DEF Init, first, next
<1>2. Layout /\ OneGap
  BY DEF Init, Layout, OneGap, Sound
<1>3. Boundary(first) /\ Tight /\ Sound(first)
  BY <1>1 DEF Init, Boundary, Tight, Sound
<1>4. Kept
  BY <1>3 DEF Init, Kept
<1> QED
  BY <1>2, <1>4 DEF KeptInv

\* The parser is never ahead of the wire.
LEMMA FirstBound ==
  ASSUME RxInv
  PROVE  /\ first \in Int /\ next \in Int /\ first <= next
         /\ next <= Len(wire) + 1
BY Types DEF RxInv, Adjacent, first, next

\* A byte that is not lost leaves the parser where it is.
LEMMA ReceiveKept ==
  ASSUME RxInv, NEW b \in Bytes, Receive(b), ~lost'
  PROVE  /\ ~lost /\ first' = first /\ UNCHANGED <<rx_buf, delivered>>
         /\ Len(wire') = Len(wire) + 1 /\ (Tight => Tight')
         /\ \A p \in 1..Len(wire) : expected_for_header(p)' = expected_for_header(p)
<1> USE DEF RxInv
<1>1. Len(fifo) < FifoSize
  BY Zenon DEF Receive
<1>2. /\ wire' = Append(wire, b) /\ Len(wire') = Len(wire) + 1
      /\ \A p \in 1..Len(wire) : wire'[p] = wire[p]
      /\ UNCHANGED <<rx_ring, poll, rx_buf, delivered, lost>>
      /\ fifo' = Append(fifo, Len(wire) + 1)
  BY <1>1, Types DEF Receive, parser
<1>3. Len(fifo') = Len(fifo) + 1
  BY <1>2, Types
<1>4. first' = first
  <2>1. /\ Len(wire') = Len(wire) + 1 /\ rx_ring' = rx_ring /\ poll' = poll
        /\ rx_buf' = rx_buf
    BY <1>2
  <2>2. Len(wire) \in Nat /\ Len(fifo) \in Nat
    BY Types
  <2>3. Len(rx_ring) \in Nat /\ Len(rx_buf) \in Nat
    BY Types
  <2> QED
    BY <1>3, <2>1, <2>2, <2>3 DEF first, next
<1>5. \A p \in 1..Len(wire) : expected_for_header(p)' = expected_for_header(p)
  BY <1>2 DEF expected_for_header
<1>6. rx_buf # <<>> => rx_buf[1] \in 1..Len(wire)
  BY Types DEF Positions
<1>7. Tight => Tight'
  BY <1>2, <1>5, <1>6 DEF Tight, expected_for_header
<1> QED
  BY <1>2, <1>4, <1>5, <1>7

LEMMA SendByteKept ==
  ASSUME RxInv, KeptInv,
         NEW rest \in Seq(Bytes), rest # <<>>, NEW from \in 1..(Len(wire) + 1),
         SendByte(rest, from), Layout',
         \A p : Boundary(p) => Boundary(p)',
         \A s \in starts : End(s)' = End(s),
         \A s \in starts' : s \in starts \/ (s = from /\ Boundary(End(s))'),
         \/ sending = <<>> /\ from = Len(wire) + 1
         \/ sending # <<>> /\ from = begun
  PROVE  KeptInv'
<1>1. ASSUME NEW s \in starts, Boundary(End(s)) PROVE Boundary(End(s))'
  BY <1>1 DEF Boundary, End, expected_for_header
<1>2. ASSUME NEW p, Sound(p) PROVE Sound(p)'
  BY <1>1, <1>2 DEF Sound
<1>3. faults' = faults /\ begun' = from /\ Receive(rest[1]) /\ rest[1] \in Bytes
  BY DEF SendByte
<1>4. OneGap'
  BY <1>1, <1>2, <1>3 DEF OneGap, KeptInv
<1>5. Kept'
  <2> SUFFICES ASSUME ~lost' PROVE Kept!2'
    BY DEF Kept
  <2>1. /\ ~lost /\ first' = first /\ delivered' = delivered /\ (Tight => Tight')
    BY <1>3, ReceiveKept
  <2>2. first <= from
    BY <2>1, FirstBound, Types DEF KeptInv, Kept, RxInv
  <2>3. \A s \in starts' : s < first => \E d \in delivered : d[1] = s
    BY <2>1, <2>2, FirstBound DEF KeptInv, Kept
  <2>4. ASSUME NEW p, p = first
        PROVE  /\ Sound(p)' \/ (Boundary(p)' /\ Tight')
               /\ faults' = 0 => Boundary(p)' /\ Tight'
    BY <1>2, <1>3, <2>1, <2>4 DEF KeptInv, Kept
  <2>5. /\ (Sound(first) \/ (Boundary(first) /\ Tight))'
        /\ (faults = 0 => Boundary(first) /\ Tight)'
    BY <2>1, <2>4 DEF Sound, Boundary
  <2> QED
    BY <1>3, <2>1, <2>2, <2>3, <2>5 DEF Kept
<1> QED
  BY <1>4, <1>5 DEF KeptInv

LEMMA SendKept ==
  ASSUME RxInv, KeptInv, SendFirst \/ SendNext
  PROVE  KeptInv'
<1>0. TypeOK /\ Layout /\ wire \in Seq(Bytes) /\ Len(wire) \in Nat
  BY Types DEF RxInv, KeptInv
<1>1. CASE SendFirst
  <2>1. PICK f \in Frames : SendByte(f, Len(wire) + 1)
    BY <1>1 DEF SendFirst
  <2>2. f \in Seq(Bytes) /\ f # <<>> /\ Len(f) \in Nat
    BY FrameFacts
  <2>3. sending = <<>> /\ Len(wire) + 1 \in 1..(Len(wire) + 1)
    BY <1>0, <1>1 DEF SendFirst
  <2>4. Len(f) = Len(wire) + 1 - (Len(wire) + 1) + Len(f)
    BY <1>0, <2>2
  <2>5. \A k \in 1..Len(f) :
          f[k] = IF (Len(wire) + 1) + k - 1 <= Len(wire)
                 THEN wire[(Len(wire) + 1) + k - 1]
                 ELSE f[(Len(wire) + 1) + k - 1 - Len(wire)]
    <3> TAKE k \in 1..Len(f)
    <3>1. (Len(wire) + 1) + k - 1 - Len(wire) = k /\ ~((Len(wire) + 1) + k - 1 <= Len(wire))
      BY <1>0
    <3> QED
      BY <3>1
  <2>6. \A s \in starts : End(s) <= Len(wire) + 1
    BY <1>0 DEF Layout
  <2>7. /\ Layout'
        /\ \A p : Boundary(p) => Boundary(p)'
        /\ \A s \in starts : End(s)' = End(s)
        /\ \A s \in starts' :
             s \in starts \/ (s = Len(wire) + 1 /\ Boundary(End(s))')
    BY <1>0, <2>1, <2>2, <2>3, <2>4, <2>5, <2>6, SendStep
  <2> QED
    BY <2>1, <2>2, <2>3, <2>7, SendByteKept
<1>2. CASE SendNext
  <2>1. SendByte(sending, begun) /\ sending # <<>> /\ sending \in Seq(Bytes)
    BY <1>0, <1>2, HostTypes DEF SendNext
  <2>2. PICK f \in Frames :
          /\ Len(f) = expected_for_header(begun)
          /\ \A k \in 1..Len(f) :
               f[k] = IF begun + k - 1 <= Len(wire) THEN wire[begun + k - 1]
                      ELSE sending[begun + k - 1 - Len(wire)]
    BY <1>0, <2>1 DEF Layout, FrameAt
  <2>3. /\ begun \in 1..(Len(wire) + 1)
        /\ Len(f) = Len(wire) + 1 - begun + Len(sending)
    <3>1. /\ begun \in 1..Len(wire)
          /\ begun + Len(f) = Len(wire) + 1 + Len(sending)
      BY <1>0, <2>1, <2>2 DEF Layout, End, Positions
    <3>2. Len(f) \in Nat /\ Len(sending) \in Nat
      BY <2>1, FrameFacts
    <3> QED
      BY <1>0, <3>1, <3>2
  <2>4. \A s \in starts : End(s) <= begun
    BY <1>0, <2>1 DEF Layout
  <2>5. /\ Layout'
        /\ \A p : Boundary(p) => Boundary(p)'
        /\ \A s \in starts : End(s)' = End(s)
        /\ \A s \in starts' : s \in starts \/ (s = begun /\ Boundary(End(s))')
    BY <1>0, <2>1, <2>2, <2>3, <2>4, SendStep
  <2> QED
    BY <2>1, <2>3, <2>5, SendByteKept
<1> QED
  BY <1>1, <1>2
\* The first fault.  The boundary it takes away, where the frame broken off began
\* or where the wire ended, is the end of at most one frame, and the parser is at
\* it or before it.
LEMMA FaultKept ==
  ASSUME RxInv, KeptInv, MaxFaults <= 1, BreakOff \/ Noise
  PROVE  KeptInv'
<1>0. /\ TypeOK /\ Layout /\ OneGap /\ Kept /\ wire \in Seq(Bytes)
      /\ Len(wire) \in Nat
  BY Types DEF RxInv, KeptInv
<1> DEFINE gap == IF sending # <<>> THEN begun ELSE Len(wire) + 1
<1>1. /\ faults = 0 /\ faults' # 0 /\ starts' = starts /\ sending' = <<>>
      /\ begun' = begun
  BY <1>0, HostTypes, Sizes DEF BreakOff, Noise
<1>2. /\ Len(wire') \in Nat /\ Len(wire') >= Len(wire)
      /\ \A p \in 1..Len(wire) : wire'[p] = wire[p]
  <2>1. CASE BreakOff
    BY <1>0, <2>1 DEF BreakOff
  <2>2. CASE Noise
    <3>1. PICK b \in Bytes : wire' = Append(wire, b)
      BY <2>2 DEF Noise, Receive
    <3> QED
      BY <1>0, <3>1
  <2> QED
    BY <2>1, <2>2
<1>3. \A s \in starts :
        /\ s \in Nat /\ 1 <= s /\ s <= Len(wire)
        /\ End(s) \in Nat /\ s < End(s) /\ End(s)' = End(s)
        /\ expected_for_header(s)' = expected_for_header(s)
  <2> SUFFICES ASSUME NEW s \in starts
               PROVE  /\ s \in Nat /\ 1 <= s /\ s <= Len(wire)
                      /\ End(s) \in Nat /\ s < End(s) /\ End(s)' = End(s)
                      /\ expected_for_header(s)' = expected_for_header(s)
    OBVIOUS
  <2>1. /\ s \in Nat /\ 1 <= s /\ s <= Len(wire)
        /\ expected_for_header(s) \in Nat /\ expected_for_header(s) >= 1
    BY <1>0, HeaderLength
  <2>2. expected_for_header(s)' = expected_for_header(s)
    BY <1>2, <2>1 DEF expected_for_header
  <2> QED
    BY <2>1, <2>2 DEF End
<1>4. ASSUME NEW p, Boundary(p), p # gap PROVE Boundary(p)'
  BY <1>1, <1>4 DEF Boundary
<1>5. \A s \in starts : s < gap
  <2> SUFFICES ASSUME NEW s \in starts PROVE s < gap
    OBVIOUS
  <2>1. /\ s < End(s) /\ s \in Nat /\ End(s) \in Nat /\ begun \in Nat
        /\ End(s) <= Len(wire) + 1 /\ (sending # <<>> => End(s) <= begun)
    BY <1>0, <1>3, HostTypes DEF Layout
  <2> QED
    BY <1>0, <2>1
<1>6. Layout'
  <2>1. ASSUME NEW s \in starts PROVE FrameAt(s, <<>>)'
    <3>1. PICK g \in Frames :
            /\ Len(g) = expected_for_header(s)
            /\ \A k \in 1..Len(g) :
                 g[k] = IF s + k - 1 <= Len(wire) THEN wire[s + k - 1]
                        ELSE <<>>[s + k - 1 - Len(wire)]
      BY <1>0 DEF Layout, FrameAt
    <3>2. s + Len(g) <= Len(wire) + 1 /\ Len(g) \in Nat
      BY <1>0, <3>1, FrameFacts DEF Layout, End
    <3>3. \A k \in 1..Len(g) : s + k - 1 <= Len(wire') /\ g[k] = wire'[s + k - 1]
      <4> TAKE k \in 1..Len(g)
      <4>1. s + k - 1 \in 1..Len(wire) /\ s + k - 1 <= Len(wire')
        <5>1. s \in Nat /\ 1 <= s
          BY <1>3
        <5> QED
          BY <1>0, <1>2, <3>2, <5>1
      <4>2. g[k] = wire[s + k - 1]
        BY <3>1, <4>1
      <4> QED
        BY <1>2, <4>1, <4>2
    <3> QED
      BY <1>3, <3>1, <3>3 DEF FrameAt
  <2>2. \A s \in starts : End(s)' <= Len(wire') + 1
    BY <1>0, <1>2, <1>3 DEF Layout
  <2>3. \A s, t \in starts : s < t => End(s)' <= t
    BY <1>0, <1>3 DEF Layout
  <2> QED
    BY <1>1, <2>1, <2>2, <2>3 DEF Layout
<1>7. ASSUME NEW s \in starts, Boundary(End(s)), End(s) # gap PROVE Boundary(End(s))'
  <2>1. PICK e : e = End(s)
    OBVIOUS
  <2>2. Boundary(e)'
    BY <1>4, <1>7, <2>1
  <2> QED
    BY <1>3, <2>1, <2>2 DEF Boundary, End, expected_for_header
<1>8. \A s \in starts : Boundary(End(s))
  BY <1>0, <1>1, <1>3 DEF OneGap, Sound
<1>9. OneGap'
  <2>1. ASSUME NEW s \in starts, NEW t \in starts, s < t
        PROVE  Boundary(End(s))' \/ Boundary(End(t))'
    <3>1. End(s) < End(t)
      BY <1>0, <1>3, <2>1 DEF Layout
    <3>2. End(s) # gap \/ End(t) # gap
      BY <1>3, <3>1
    <3> QED
      BY <1>7, <1>8, <3>2
  <2> QED
    BY <1>1, <2>1 DEF OneGap
<1>10. Kept'
  <2> SUFFICES ASSUME ~lost' PROVE Kept!2'
    BY DEF Kept
  <2>1. ~lost /\ first' = first /\ delivered' = delivered /\ (Tight => Tight')
    <3>1. CASE BreakOff
      BY <3>1 DEF BreakOff, parser, first, next, Tight, expected_for_header
    <3>2. CASE Noise
      BY <3>2, ReceiveKept DEF Noise
    <3> QED
      BY <3>1, <3>2
  <2>2. Boundary(first) /\ Tight
    BY <1>0, <1>1, <2>1 DEF Kept
  <2>3. CASE first = gap
    <3>1. (Sound(first))'
      BY <1>1, <1>3, <1>5, <2>1, <2>3, FirstBound DEF Sound
    <3> QED
      BY <1>0, <1>1, <2>1, <3>1 DEF Kept
  <2>4. CASE first # gap
    <3>1. PICK p : p = first
      OBVIOUS
    <3>2. Boundary(p)'
      BY <1>4, <2>2, <2>4, <3>1
    <3>3. (Boundary(first))'
      BY <2>1, <3>1, <3>2 DEF Boundary
    <3> QED
      BY <1>0, <1>1, <2>1, <2>2, <3>3 DEF Kept
  <2> QED
    BY <2>3, <2>4
<1> QED
  BY <1>6, <1>9, <1>10 DEF KeptInv

\* The host's part of the invariant lasts as long as the host does nothing.
LEMMA HostKept ==
  ASSUME UNCHANGED host
  PROVE  /\ \A p : expected_for_header(p)' = expected_for_header(p)
         /\ Layout => Layout'
         /\ OneGap => OneGap'
         /\ \A p : (Boundary(p)' <=> Boundary(p)) /\ (Sound(p)' <=> Sound(p))
<1>1. UNCHANGED <<wire, sending, begun, starts, faults>>
  BY DEF host
<1>2. \A p : expected_for_header(p)' = expected_for_header(p)
  BY <1>1 DEF expected_for_header
<1>3. \A p : (Boundary(p)' <=> Boundary(p)) /\ (Sound(p)' <=> Sound(p))
  BY <1>1 DEF Sound, Boundary, End, expected_for_header
<1>4. Layout => Layout'
  BY <1>1 DEF Layout, End, expected_for_header, FrameAt, Positions
<1>5. OneGap => OneGap'
  BY <1>1 DEF OneGap, Sound, Boundary, End, expected_for_header
<1> QED
  BY <1>2, <1>3, <1>4, <1>5

\* A step that leaves the parser alone, or loses a byte.
LEMMA ParserKept ==
  ASSUME KeptInv, UNCHANGED host,
         ~lost' => ~lost /\ first' = first /\ UNCHANGED <<rx_buf, delivered>>
  PROVE  KeptInv'
<1>1. UNCHANGED <<wire, sending, begun, starts, faults>>
  BY DEF host
<1>2. Kept'
  <2> SUFFICES ASSUME ~lost' PROVE Kept!2'
    BY DEF Kept
  <2>1. Kept!2
    BY DEF KeptInv, Kept
  <2> QED
    BY <1>1, <2>1 DEF Sound, Boundary, Tight, End, expected_for_header
<1>3. Layout' /\ OneGap'
  BY HostKept DEF KeptInv
<1> QED
  BY <1>2, <1>3 DEF KeptInv
\* Where the parser is, when no byte is lost.
LEMMA AtFirst ==
  ASSUME RxInv, ~lost
  PROVE  /\ \A k \in 1..Len(rx_buf) : rx_buf[k] = first + k - 1
         /\ rx_buf # <<>> => rx_buf[1] = first
         /\ first + Len(rx_buf) = next
         /\ poll # "parse" /\ rx_ring # <<>> => rx_ring[1] = next
<1>1. ~over /\ ~rx_overrun_latch
  BY DEF RxInv
<1>2. rx_buf # <<>> => rx_buf[1] = first
  BY <1>1 DEF RxInv, Stream
<1>3. first \in Int /\ next \in Int /\ first + Len(rx_buf) = next
  BY FirstBound, Types DEF first, RxInv
<1>4. \A k \in 1..Len(rx_buf) : rx_buf[k] = first + k - 1
  BY <1>2, Types DEF RxInv, Run
<1>5. poll # "parse" /\ rx_ring # <<>> => rx_ring[1] = next
  <2>1. rx_ring # <<>> => rx_ring[1] = Len(wire) - Len(fifo) - Len(rx_ring) + 1
    BY <1>1, Types DEF RxInv, Stream
  <2> QED
    BY <2>1 DEF next
<1> QED
  BY <1>2, <1>3, <1>4, <1>5

\* A boundary on the wire is a header, and the parser that stands at one has a
\* whole frame only if that was sent whole.
LEMMA AtBoundary ==
  ASSUME RxInv, Layout, NEW p \in Positions, Boundary(p)
  PROVE  /\ p \in starts \/ (sending # <<>> /\ p = begun)
         /\ expected_for_header(p) \in Nat /\ expected_for_header(p) >= 1
         /\ p \notin starts => End(p) > Len(wire) + 1
<1>1. TypeOK /\ Len(wire) \in Nat /\ p # Len(wire) + 1
  BY Types DEF RxInv, Positions
<1>2. p \in starts \/ (sending # <<>> /\ p = begun)
  BY <1>1 DEF Boundary
<1>3. expected_for_header(p) \in Nat /\ expected_for_header(p) >= 1
  BY <1>1, <1>2, HeaderLength
<1>4. sending # <<>> => Len(sending) \in Nat /\ Len(sending) >= 1
  BY <1>1, HostTypes
<1>5. p \notin starts => End(p) > Len(wire) + 1
  BY <1>1, <1>2, <1>4 DEF Layout
<1> QED
  BY <1>2, <1>3, <1>5

LEMMA FeedKept ==
  ASSUME RxInv, KeptInv, PollFeed
  PROVE  KeptInv'
<1>1. /\ UNCHANGED <<host, wire, sending, begun, starts, faults, fifo, rx_ring, lost,
                     delivered>>
      /\ poll = "take" /\ poll' = "parse" /\ rx_ring # <<>>
  BY DEF PollFeed, MainAt, host
<1>2. rx_buf' = IF rx_buf = <<>> /\ expected_for_header(Head(rx_ring)) = 0
                THEN <<>> ELSE Append(rx_buf, Head(rx_ring))
  BY PollFeedKeeps
<1>3. Layout' /\ OneGap'
  BY <1>1, HostKept DEF KeptInv
<1>4. TypeOK /\ Head(rx_ring) = rx_ring[1] /\ rx_ring[1] \in Positions
  BY <1>1, Types DEF RxInv
<1>5. ASSUME ~lost PROVE Kept!2'
  <2>1. rx_ring[1] = next
    BY <1>1, <1>5, AtFirst
  <2>2. next' = next + 1
    BY <1>1, <1>4, Types DEF next
  <2>3. Kept!2
    BY <1>5 DEF KeptInv, Kept
  <2>4. CASE rx_buf = <<>> /\ expected_for_header(Head(rx_ring)) = 0
    <3>1. rx_buf' = <<>> /\ Len(rx_buf) = 0 /\ Len(rx_buf') = 0
      BY <1>2, <2>4
    <3>2. first = next /\ first' = first + 1
      BY <2>2, <3>1, FirstBound DEF first
    <3>3. first \in Positions /\ expected_for_header(first) = 0
      BY <1>4, <2>1, <2>4, <3>2
    <3>4. ~Boundary(first) /\ first \notin starts
      BY <3>3, AtBoundary DEF KeptInv, Boundary
    <3>5. Sound(first) /\ faults # 0
      BY <2>3, <3>4
    <3>6. (Sound(first))'
      <4>1. ASSUME NEW s \in starts, first + 1 <= s PROVE Boundary(End(s))
        <5>1. s \in Nat /\ first \in Int
          BY <1>4, FirstBound, HeaderLength DEF KeptInv
        <5>2. first <= s
          BY <4>1, <5>1
        <5> QED
          BY <3>5, <5>2 DEF Sound
      <4> QED
        BY <1>1, <3>2, <4>1 DEF Sound, Boundary, End, expected_for_header
    <3>7. \A s \in starts : s < first' => \E d \in delivered : d[1] = s
      BY <1>4, <2>3, <3>2, <3>4, FirstBound, HeaderLength DEF KeptInv
    <3>8. sending # <<>> => first' <= begun
      BY <1>4, <2>3, <3>2, <3>4, FirstBound, HeaderLength DEF KeptInv, Boundary
    <3> QED
      BY <1>1, <3>5, <3>6, <3>7, <3>8
  <2>5. CASE ~(rx_buf = <<>> /\ expected_for_header(Head(rx_ring)) = 0)
    <3>1. rx_buf' = Append(rx_buf, Head(rx_ring))
      BY <1>2, <2>5
    <3>2. /\ Len(rx_buf') = Len(rx_buf) + 1
          /\ rx_buf # <<>> => rx_buf'[1] = rx_buf[1]
          /\ rx_buf = <<>> => rx_buf'[1] = rx_ring[1]
      BY <1>4, <3>1, Types
    <3>3. first' = first
      BY <1>4, <2>2, <3>2, FirstBound, Types DEF first
    <3>4. Tight'
      <4>1. CASE rx_buf = <<>>
        <5>1. expected_for_header(rx_ring[1]) >= 1
          BY <1>4, <2>5, <4>1, Expects, Sizes
        <5> QED
          BY <1>1, <3>2, <4>1, <5>1 DEF Tight, expected_for_header
      <4>2. CASE rx_buf # <<>>
        <5>1. Len(rx_buf) < expected_for_header(rx_buf[1])
          BY <1>1, <4>2 DEF RxInv, ParserWaits
        <5>2. expected_for_header(rx_buf[1]) \in Nat /\ Len(rx_buf) \in Nat
          BY <1>4, <4>2, Expects, Types
        <5>3. Len(rx_buf) + 1 <= expected_for_header(rx_buf[1])
          BY <5>1, <5>2
        <5> QED
          BY <1>1, <3>2, <4>2, <5>3 DEF Tight, expected_for_header
      <4> QED
        BY <4>1, <4>2
    <3>5. (Sound(first))' <=> Sound(first)
      BY <1>1, <3>3 DEF Sound, Boundary, End, expected_for_header
    <3>6. (Boundary(first))' <=> Boundary(first)
      BY <1>1, <3>3 DEF Boundary
    <3> QED
      BY <1>1, <2>3, <3>3, <3>4, <3>5, <3>6
  <2> QED
    BY <2>4, <2>5
<1>6. Kept'
  BY <1>1, <1>5 DEF Kept
<1> QED
  BY <1>3, <1>6 DEF KeptInv

\* A frame the parser dispatches was sent whole, and what follows it in the
\* buffer is the next one.
LEMMA DispatchKept ==
  ASSUME RxInv, KeptInv, faults = 0 \/ Genuine, Dispatch
  PROVE  KeptInv'
<1>1. UNCHANGED <<host, wire, sending, begun, starts, faults, fifo, over, isr,
                  rx_ring, rx_overrun_latch, poll, lost>>
  BY DEF Dispatch, host
<1>2. TypeOK /\ rx_buf # <<>> /\ poll = "parse"
  BY DEF Dispatch, MainAt, Complete, RxInv
<1>3. PICK n : n = expected_for_header(rx_buf[1])
  OBVIOUS
<1>4. /\ n \in 1..Len(rx_buf)
      /\ values(SubSeq(rx_buf, 1, n)) \in Frames
      /\ delivered' = delivered \cup {<<rx_buf[1], rx_buf[n]>>}
      /\ rx_buf' = shift_rx_buf(n)
  BY <1>3, Types, Expects, Sizes
     DEF Dispatch, Complete, frame_is_valid, RxInv, Run
<1>5. Layout' /\ OneGap'
  BY <1>1, HostKept DEF KeptInv
<1>6. ASSUME ~lost PROVE Kept!2'
  <2>1. /\ rx_buf[1] = first /\ first \in Positions /\ n = expected_for_header(first)
        /\ \A k \in 1..Len(rx_buf) : rx_buf[k] = first + k - 1
    BY <1>2, <1>3, <1>4, <1>6, AtFirst, Stretch
  <2>2. PICK p : p = first
    OBVIOUS
  <2>3. PICK e : e = End(p)
    OBVIOUS
  <2>4. /\ p \in Nat /\ 1 <= p /\ p \in Positions /\ n \in Nat /\ n >= 1
        /\ Len(wire) \in Nat /\ Len(rx_buf) \in Nat /\ n <= Len(rx_buf)
        /\ e = p + n /\ e \in Nat /\ e <= Len(wire) + 1
    <3>1. first + Len(rx_buf) <= Len(wire) + 1
      BY <1>6, AtFirst, FirstBound
    <3>2. /\ Len(wire) \in Nat /\ Len(rx_buf) \in Nat /\ p \in Positions
          /\ expected_for_header(p) = n
      BY <1>2, <2>1, <2>2, Types
    <3>3. p \in Nat /\ 1 <= p /\ n \in Nat /\ n >= 1 /\ n <= Len(rx_buf)
      BY <1>4, <3>2 DEF Positions
    <3>4. e = p + n
      BY <2>3, <3>2 DEF End
    <3> QED
      BY <2>2, <3>1, <3>2, <3>3, <3>4
  <2>5. Kept!2
    BY <1>6 DEF KeptInv, Kept
  <2>6. p \in starts
    <3>1. CASE faults = 0
      <4>1. Boundary(p)
        BY <2>2, <2>5, <3>1
      <4>2. p \notin starts => End(p) > Len(wire) + 1
        BY <2>4, <4>1, AtBoundary DEF KeptInv
      <4> QED
        BY <2>3, <2>4, <4>2
    <3>2. CASE Genuine
      <4>1. /\ rx_buf[1] \in Positions /\ rx_buf[n] \in Positions
            /\ SubSeq(wire, rx_buf[1], rx_buf[n]) = values(SubSeq(rx_buf, 1, n))
        BY <1>4, Stretch
      <4>2. SubSeq(wire, rx_buf[1], rx_buf[n]) \in Frames
        BY <1>4, <4>1
      <4> QED
        BY <2>1, <2>2, <3>2, <4>1, <4>2, Zenon DEF Genuine
    <3> QED
      BY <3>1, <3>2
  <2>7. Sound(p) => Boundary(e)
    <3>1. p <= p
      BY <2>4
    <3> QED
      BY <2>3, <2>6, <3>1 DEF Sound
  <2>8. Drop(n)
    <3> SUFFICES ASSUME n < Len(rx_buf), expected_for_header(rx_buf[n + 1]) = 0
                 PROVE  FALSE
      BY <1>2, <1>4, ShiftIs
    <3>1. rx_buf[n + 1] = e /\ e \in Positions
      <4>1. n + 1 \in 1..Len(rx_buf) /\ first + (n + 1) - 1 = e
        BY <2>2, <2>4
      <4>2. rx_buf[n + 1] = e
        BY <2>1, <4>1
      <4>3. rx_buf[n + 1] \in Positions
        BY <1>2, <4>1, Types
      <4> QED
        BY <4>2, <4>3
    <3>2. ~Tight
      BY <1>2, <1>3, <2>4 DEF Tight
    <3>3. Boundary(e)
      BY <2>2, <2>5, <2>7, <3>2
    <3> QED
      BY <3>1, <3>3, AtBoundary DEF KeptInv
  <2>9. first' = e
    <3>1. \A d \in delivered' :
            d \in delivered \/ \E k \in 1..n : d = <<rx_buf[1], rx_buf[k]>>
      BY <1>4, <2>4
    <3>2. first' = first + n
      BY <1>1, <1>2, <1>4, <2>8, <3>1, DropKeeps
    <3> QED
      BY <2>2, <2>4, <3>2
  <2>10. Tight => Tight'
    <3>1. Tight => Len(rx_buf) = n
      BY <1>2, <1>3, <2>4 DEF Tight
    <3>2. Tight => Len(rx_buf') = 0
      BY <2>4, <2>8, <3>1 DEF Drop
    <3>3. rx_buf' \in Seq(Positions)
      BY <2>8 DEF Drop
    <3>4. Tight => rx_buf' = <<>>
      BY <3>2, <3>3, EmptySeq
    <3> QED
      BY <3>4 DEF Tight
  <2>11. \A s \in starts : s \in Nat /\ (p < s => e <= s)
    <3>1. \A s \in starts : s \in Nat
      BY <1>2, HeaderLength DEF KeptInv
    <3> QED
      BY <2>3, <2>6, <3>1 DEF KeptInv, Layout
  <2>12. \A s \in starts : s < e => \E d \in delivered' : d[1] = s
    <3> SUFFICES ASSUME NEW s \in starts, s < e
                 PROVE  \E d \in delivered' : d[1] = s
      OBVIOUS
    <3>1. s \in Nat /\ s <= p
      BY <2>4, <2>11
    <3>2. CASE s < p
      BY <1>4, <2>2, <2>5, <3>2
    <3>3. CASE s = p
      <4>1. <<rx_buf[1], rx_buf[n]>> \in delivered' /\ rx_buf[1] = s
        BY <1>4, <2>1, <2>2, <3>3
      <4>2. <<rx_buf[1], rx_buf[n]>>[1] = rx_buf[1]
        OBVIOUS
      <4> QED
        BY <4>1, <4>2
    <3> QED
      BY <2>4, <3>1, <3>2, <3>3
  <2>13. sending # <<>> => e <= begun
    BY <2>3, <2>6 DEF KeptInv, Layout
  <2>14. Sound(e) \/ (Boundary(e) /\ Tight')
    <3>1. CASE Sound(p)
      <4>1. Sound(e)
        BY <2>4, <2>11, <3>1 DEF Sound
      <4> QED
        BY <4>1
    <3>2. CASE Tight /\ Boundary(e)
      BY <2>10, <3>2
    <3>3. CASE ~Boundary(e)
      <4>1. \A s \in starts : e <= s => p < s
        BY <2>4, <2>11
      <4>2. Sound(e)
        BY <2>3, <2>6, <3>3, <4>1 DEF KeptInv, OneGap, Sound
      <4> QED
        BY <4>2
    <3> QED
      BY <2>2, <2>5, <3>1, <3>2, <3>3
  <2>15. faults = 0 => Boundary(e) /\ Tight'
    <3>1. faults = 0 => Boundary(e)
      BY <2>3, <2>4, <2>6 DEF KeptInv, OneGap, Sound
    <3> QED
      BY <2>5, <2>10, <3>1
  <2>16. /\ (Sound(first))' <=> Sound(e)
         /\ (Boundary(first))' <=> Boundary(e)
    BY <1>1, <2>9 DEF Sound, Boundary, End, expected_for_header
  <2> QED
    BY <1>1, <2>9, <2>12, <2>13, <2>14, <2>15, <2>16
<1>7. Kept'
  BY <1>1, <1>6 DEF Kept
<1> QED
  BY <1>5, <1>7 DEF KeptInv

\* What the parser drops to resynchronise is no frame and holds the header of
\* none.
LEMMA ResyncKept ==
  ASSUME RxInv, KeptInv, Resync
  PROVE  KeptInv'
<1>1. UNCHANGED <<host, wire, sending, begun, starts, faults, fifo, over, isr,
                  rx_ring, rx_overrun_latch, poll, lost, delivered>>
  BY DEF Resync, host
<1>2. TypeOK /\ rx_buf # <<>> /\ poll = "parse"
  BY DEF Resync, MainAt, Complete, RxInv
<1>3. PICK n : n = expected_for_header(rx_buf[1])
  OBVIOUS
<1>4. /\ n \in 1..Len(rx_buf)
      /\ values(SubSeq(rx_buf, 1, n)) \notin Frames
      /\ rx_buf' = resync_parser
  BY <1>2, <1>3, Types, Expects, Sizes
     DEF Resync, Complete, frame_is_valid, RxInv, Run
<1>5. Layout' /\ OneGap'
  BY <1>1, HostKept DEF KeptInv
<1>6. PICK m \in 1..Len(rx_buf) :
        /\ Drop(m)
        /\ \A k \in 2..m : expected_for_header(rx_buf[k]) = 0
  BY <1>2, <1>4, ResyncIs
<1>7. ASSUME ~lost PROVE Kept!2'
  <2>1. /\ rx_buf[1] = first /\ first \in Positions /\ n = expected_for_header(first)
        /\ \A k \in 1..Len(rx_buf) : rx_buf[k] = first + k - 1
    BY <1>2, <1>3, <1>4, <1>7, AtFirst, Stretch
  <2>2. PICK p : p = first
    OBVIOUS
  <2>3. /\ p \in Nat /\ 1 <= p /\ p \in Positions /\ n \in Nat /\ n >= 1
        /\ Len(wire) \in Nat /\ Len(rx_buf) \in Nat /\ n <= Len(rx_buf)
        /\ End(p) <= Len(wire) + 1
        /\ m \in Nat /\ 1 <= m /\ m <= Len(rx_buf) /\ p + m <= Len(wire) + 1
    <3>1. first + Len(rx_buf) <= Len(wire) + 1
      BY <1>7, AtFirst, FirstBound
    <3> QED
      <4>1. /\ p \in Nat /\ 1 <= p /\ p \in Positions
            /\ Len(wire) \in Nat /\ Len(rx_buf) \in Nat
        BY <1>2, <2>1, <2>2, Types DEF Positions
      <4>2. /\ n \in Nat /\ n >= 1 /\ n <= Len(rx_buf)
            /\ m \in Nat /\ 1 <= m /\ m <= Len(rx_buf)
        BY <1>4, <1>6, <4>1
      <4>3. End(p) = p + n /\ p + Len(rx_buf) <= Len(wire) + 1
        BY <2>1, <2>2, <3>1 DEF End
      <4> QED
        BY <4>1, <4>2, <4>3
  <2>4. Kept!2
    BY <1>7 DEF KeptInv, Kept
  <2>5. p \notin starts
    <3> SUFFICES ASSUME p \in starts PROVE FALSE
      OBVIOUS
    <3>1. PICK f \in Frames :
            /\ Len(f) = n
            /\ \A k \in 1..n :
                 f[k] = IF p + k - 1 <= Len(wire) THEN wire[p + k - 1]
                        ELSE <<>>[p + k - 1 - Len(wire)]
      BY <2>1, <2>2 DEF KeptInv, Layout, FrameAt
    <3>2. \A k \in 1..n : f[k] = wire[p + k - 1]
      <4> TAKE k \in 1..n
      <4>1. p + k - 1 <= Len(wire)
        BY <2>1, <2>2, <2>3 DEF End
      <4> QED
        BY <3>1, <4>1
    <3>3. f = [k \in 1..n |-> wire[p + k - 1]]
      <4>1. f \in Seq(Bytes)
        BY FrameFacts
      <4>2. f = [k \in 1..n |-> f[k]]
        BY <3>1, <4>1
      <4> QED
        BY <3>2, <4>2
    <3>4. values(SubSeq(rx_buf, 1, n)) = [k \in 1..n |-> wire[p + k - 1]]
      BY <1>4, <2>1, <2>2, Stretch
    <3> QED
      BY <1>4, <3>3, <3>4
  <2>6. ~Boundary(p)
    <3> SUFFICES ASSUME Boundary(p) PROVE FALSE
      OBVIOUS
    <3>1. End(p) > Len(wire) + 1
      BY <2>3, <2>5, AtBoundary DEF KeptInv
    <3>2. End(p) \in Nat
      BY <2>1, <2>2, <2>3 DEF End
    <3> QED
      BY <2>3, <3>1, <3>2
  <2>7. Sound(p) /\ faults # 0
    BY <2>2, <2>4, <2>6
  <2>8. first' = p + m
    BY <1>1, <1>2, <1>6, <2>2, DropKeeps
  <2>9. \A q \in Positions : p <= q /\ q < p + m => ~Boundary(q)
    <3> SUFFICES ASSUME NEW q \in Positions, p < q, q < p + m, Boundary(q)
                 PROVE  FALSE
      BY <2>3, <2>6 DEF Positions
    <3>1. PICK k : k = q - p + 1
      OBVIOUS
    <3>2. k \in 2..m /\ k \in 1..Len(rx_buf) /\ p + k - 1 = q
      BY <2>3, <3>1 DEF Positions
    <3>3. expected_for_header(q) = 0
      BY <1>6, <2>1, <2>2, <3>2
    <3>4. expected_for_header(q) >= 1
      BY AtBoundary DEF KeptInv
    <3> QED
      BY <3>3, <3>4
  <2>10. \A s \in starts : s \in Positions /\ s \in Nat /\ (s < p + m => s < p)
    <3>1. \A s \in starts : s \in Positions /\ s \in Nat
      BY <1>2, HeaderLength DEF KeptInv, Positions
    <3> QED
      BY <2>3, <2>9, <3>1 DEF Boundary
  <2>11. sending # <<>> => p + m <= begun
    <3> SUFFICES ASSUME sending # <<>> PROVE p + m <= begun
      OBVIOUS
    <3>1. begun \in Positions /\ begun \in Nat /\ p <= begun
      BY <1>2, <2>2, <2>4, HeaderLength DEF KeptInv, Positions
    <3>2. Boundary(begun)
      BY DEF Boundary
    <3> QED
      BY <2>3, <2>9, <3>1, <3>2
  <2>12. Sound(p + m)
    BY <2>3, <2>7, <2>10 DEF Sound
  <2>13. (Sound(first))' <=> Sound(p + m)
    BY <1>1, <2>8 DEF Sound, Boundary, End, expected_for_header
  <2>14. \A s \in starts : s < p + m => \E d \in delivered : d[1] = s
    BY <2>2, <2>4, <2>10
  <2> QED
    BY <1>1, <2>7, <2>8, <2>11, <2>12, <2>13, <2>14
<1>8. Kept'
  BY <1>1, <1>7 DEF Kept
<1> QED
  BY <1>5, <1>8 DEF KeptInv

\* What the interrupt handler and the bookkeeping of Poll leave of the parser.
LEMMA RestKept ==
  ASSUME RxInv, KeptInv,
         \/ UART1_IRQHandler \/ Enter \/ PollHole \/ PollCheck \/ PollDone
         \/ PollFed \/ UNCHANGED vars
  PROVE  KeptInv'
<1>1. CASE IrqEnter \/ IrqExit \/ Enter \/ PollCheck \/ PollDone \/ UNCHANGED vars
  <2>1. /\ UNCHANGED <<host, wire, fifo, rx_ring, rx_buf, delivered, lost>>
        /\ poll' = poll \/ (poll # "parse" /\ poll' # "parse")
    BY <1>1 DEF IrqEnter, IrqExit, Enter, PollCheck, PollDone, vars, parser, host,
       MainAt
  <2>2. first' = first
    BY <2>1 DEF first, next
  <2> QED
    BY <2>1, <2>2, ParserKept
<1>2. CASE IrqByte
  <2>1. /\ UNCHANGED <<host, wire, poll, rx_buf, delivered>>
        /\ fifo # <<>> /\ fifo' = Tail(fifo)
        /\ ~lost' => lost' = lost /\ rx_ring' = Append(rx_ring, Head(fifo))
    BY <1>2 DEF IrqByte, parser, host
  <2>2. /\ Len(fifo) \in Nat /\ Len(rx_ring) \in Nat /\ Len(wire) \in Nat
        /\ Len(fifo') = Len(fifo) - 1
        /\ ~lost' => Len(rx_ring') = Len(rx_ring) + 1
    BY <2>1, Types DEF RxInv
  <2>3. ~lost' => next' = next
    BY <2>1, <2>2 DEF next
  <2>4. ~lost' => first' = first
    BY <2>1, <2>3 DEF first
  <2> QED
    BY <2>1, <2>4, ParserKept
<1>3. CASE PollHole
  <2>1. UNCHANGED host /\ lost' = lost /\ lost
    BY <1>3 DEF PollHole, RxInv
  <2> QED
    BY <2>1, ParserKept
<1>4. CASE PollFed
  <2>1. UNCHANGED <<host, rx_buf, delivered, lost>>
    BY <1>4 DEF PollFed, parser
  <2>2. first' = first
    BY <1>4, <2>1, PollFedKeeps DEF first
  <2> QED
    BY <2>1, <2>2, ParserKept
<1> QED
  BY <1>1, <1>2, <1>3, <1>4 DEF UART1_IRQHandler

LEMMA KeptStep ==
  ASSUME MaxFaults <= 1
  PROVE  RxInv /\ KeptInv /\ (faults = 0 \/ Genuine) /\ [Next]_vars => KeptInv'
BY SendKept, FaultKept, FeedKept, DispatchKept, ResyncKept, RestKept
DEF Next, HostSend, KeyboardUart_Poll

\* What the parser has not gone past is in the receiver.
LEMMA StillHeld ==
  ASSUME RxInv, ~lost, NEW s \in Positions, first <= s
  PROVE  Held(s)
<1>1. ~over /\ ~rx_overrun_latch /\ TypeOK
  BY DEF RxInv
<1>2. /\ Len(wire) \in Nat /\ Len(fifo) \in Nat /\ Len(rx_ring) \in Nat
      /\ Len(rx_buf) \in Nat /\ first \in Int /\ next \in Int
      /\ s \in Nat /\ 1 <= s /\ s <= Len(wire) /\ first + Len(rx_buf) = next
  BY <1>1, Types, FirstBound, AtFirst DEF Positions
<1>3. /\ DOMAIN fifo = 1..Len(fifo) /\ DOMAIN rx_ring = 1..Len(rx_ring)
      /\ DOMAIN rx_buf = 1..Len(rx_buf)
  BY <1>1, Types
<1>4. CASE s < next
  <2>1. s - first + 1 \in 1..Len(rx_buf) /\ first + (s - first + 1) - 1 = s
    BY <1>2, <1>4
  <2>2. rx_buf[s - first + 1] = s
    BY <2>1, AtFirst
  <2> QED
    BY <1>3, <2>1, <2>2 DEF Held
<1>5. CASE next <= s /\ s <= Len(wire) - Len(fifo)
  <2>1. PICK k : k = s - (Len(wire) - Len(fifo) - Len(rx_ring))
    OBVIOUS
  <2>2. k \in 1..Len(rx_ring) /\ Len(wire) - Len(fifo) - Len(rx_ring) + k = s
    BY <1>2, <1>5, <2>1 DEF next
  <2>3. rx_ring[k] = s
    BY <1>1, <2>2 DEF RxInv, Stream
  <2> QED
    BY <1>3, <2>2, <2>3 DEF Held
<1>6. CASE s > Len(wire) - Len(fifo)
  <2>1. PICK k : k = s - (Len(wire) - Len(fifo))
    OBVIOUS
  <2>2. k \in 1..Len(fifo) /\ Len(wire) - Len(fifo) + k = s
    BY <1>2, <1>6, <2>1
  <2>3. fifo[k] = s
    BY <1>1, <2>2 DEF RxInv, Stream
  <2> QED
    BY <1>3, <2>2, <2>3 DEF Held
<1> QED
  BY <1>2, <1>4, <1>5, <1>6

LEMMA KeptImplies == RxInv /\ KeptInv => NoFramePassedOver
<1> SUFFICES ASSUME RxInv, KeptInv PROVE NoFramePassedOver
  OBVIOUS
<1>1. ASSUME ~lost, NEW s \in starts
      PROVE  Held(s) \/ \E d \in delivered : d[1] = s
  <2>1. s \in Positions /\ s \in Int /\ first \in Int
    BY HostTypes, FirstBound DEF RxInv, Positions
  <2>2. CASE s < first
    BY <1>1, <2>2 DEF KeptInv, Kept
  <2>3. CASE first <= s
    BY <1>1, <2>1, <2>3, StillHeld
  <2> QED
    BY <2>1, <2>2, <2>3
<1>2. ParserWaits
  BY DEF RxInv
<1> QED
  BY <1>1, <1>2 DEF NoFramePassedOver, ParserWaits

(* With at most one fault no frame is passed over, for every set of frames,  *)
(* every size of the FIFO and the ring and any number of bytes: a frame      *)
(* broken off or a stray byte costs the parser no frame that was sent whole  *)
(* (keyboard_uart.c, resync_parser and shift_rx_buf).  The hypothesis is     *)
(* what the checksum of frame_is_valid is for: once there was a fault, no    *)
(* stretch of the wire passes for a frame but the frames themselves.         *)
THEOREM FramesKept ==
  ASSUME MaxFaults <= 1
  PROVE  Spec /\ [](faults = 0 \/ Genuine) => []NoFramePassedOver
BY RxAlways, KeptInit, KeptStep, KeptImplies, PTL DEF Spec

(* On a line without faults no frame is passed over, whatever the frames     *)
(* hold: a payload that looks like a frame is not taken for one, as the      *)
(* parser never leaves the boundaries (keyboard_uart.c, feed_byte and        *)
(* process_rx_buf).                                                          *)
THEOREM FramesKeptCleanLine ==
  ASSUME MaxFaults = 0
  PROVE  Spec => []NoFramePassedOver
<1>1. MaxFaults <= 1
  OBVIOUS
<1>2. TypeOK => faults = 0
  BY HostTypes
<1> QED
  BY <1>1, <1>2, FramesKept, UartTypes, PTL
=============================================================================
