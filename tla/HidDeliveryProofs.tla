-------------------------- MODULE HidDeliveryProofs --------------------------
(***************************************************************************)
(* Report delivery for every set of reports, every FIFO of two slots or more *)
(* and every bound: what the ARQ and the link transitions do to the queue    *)
(* implements the report channel (ReportChannel), reports arrive in order    *)
(* and under their own bond, the link never rests on one, and a drained host *)
(* has the newest.                                                           *)
(*                                                                         *)
(* The heart of it is Phase.  The control bits say whether the dongle has    *)
(* accepted the response of the current phase; hid_head_sent says whether    *)
(* that response can have been the head.  Only together do they say that the *)
(* host has the head, which is when a poll may retire it.                    *)
(***************************************************************************)
EXTENDS HidDelivery, TLAPS

-----------------------------------------------------------------------------
(* The inductive invariant.                                                  *)

SilentProbe == rest_probe /\ ~rest_probe_wake

\* A rest and a silent probe have nothing queued and no key down; a report
\* turns the probe into a wake, and a wake into the session it leads to.
Resting ==
  /\ rf_state = "RESTING" => ~rest_probe /\ hid_fifo = <<>> /\ ~hid_key_held
  /\ rest_probe_wake => rest_probe /\ rf_state = "PAIRING"
  /\ rest_probe => rf_state \in {"PAIRING", "CONNECTED"}
  /\ rest_quiet_pending => SilentProbe
  /\ SilentProbe => hid_fifo = <<>> /\ ~hid_key_held

\* The numbers in the FIFO rise from the last one accepted, all of one bond;
\* the last entry is what the dedup compares with.
Queue ==
  /\ sessionAcc <= lastAcc /\ lastAcc <= queued
  /\ \A i \in 1..Len(hid_fifo) :
       hid_fifo[i].id <= queued /\ hid_fifo[i].gen = bondGen
  /\ \A i, j \in 1..Len(hid_fifo) : i < j => hid_fifo[i].id < hid_fifo[j].id
  /\ hid_fifo # <<>> =>
       /\ lastAcc <= Head(hid_fifo).id
       /\ hid_fifo[Len(hid_fifo)].report = hid_last_queued

\* The radio is armed only in a session.  A response on the air carries the
\* phase of tx_ctrl and, unless it is a keepalive, the head, which then counts
\* as sent; no other response is due.
OnAir ==
  /\ radio # "off" => rf_state = "CONNECTED"
  /\ radio # "tx" => air = NoAir
  /\ respond => radio # "tx" /\ response_ctrl = tx_ctrl
  /\ hid_head_sent => hid_fifo # <<>>
  /\ radio = "tx" =>
       /\ air.seq = tx_ctrl.seq
       /\ air.entry.id = 0 => ~hid_head_sent
       /\ air.entry.id # 0 => hid_head_sent /\ air.entry = Head(hid_fifo)

\* The dongle has accepted the response of the current phase.
Accepted == dongle.bit # tx_ctrl.ack

\* The phase: a head that was sent in an accepted phase is the host's, every
\* other head is still new to the session, and nothing is sent in an accepted
\* phase until a poll has moved it on.
Phase ==
  rf_state = "CONNECTED" =>
    /\ dongle.bit = dongle.last
    /\ tx_ctrl.seq = 1 - tx_ctrl.ack
    /\ Accepted => ~respond
    /\ hid_head_sent /\ Accepted =>
         /\ Head(hid_fifo).id = lastAcc
         /\ dongle.up => hostKeys = Head(hid_fifo).report
    /\ hid_fifo # <<>> /\ ~(hid_head_sent /\ Accepted) =>
         Head(hid_fifo).id > sessionAcc

\* With the FIFO drained the host of a session has the newest report; outside
\* a session that report has no key down, as the host of the next one starts.
Newest ==
  hid_fifo = <<>> /\ hid_last_queued_valid /\ ~discarded =>
    /\ rf_state = "CONNECTED" /\ dongle.up => hostKeys = hid_last_queued
    /\ rf_state # "CONNECTED" => hid_last_queued = Released

DeliveryInv == TypeOK /\ Resting /\ Queue /\ OnAir /\ Phase /\ Newest

-----------------------------------------------------------------------------
(* Types.                                                                    *)

\* What a response may carry: an entry of the FIFO or nothing.
Entries == Entry \cup {NoEntry}

\* TypeOK, variable by variable and field by field.
LEMMA Types ==
  ASSUME TypeOK
  PROVE  /\ rf_state \in {"IDLE", "PAIRING", "CONNECTED", "RESTING"}
         /\ radio \in {"off", "rx", "tx"}
         /\ rest_probe \in BOOLEAN /\ rest_probe_wake \in BOOLEAN
         /\ rest_quiet_pending \in BOOLEAN /\ has_bond \in BOOLEAN
         /\ discard_hid \in BOOLEAN /\ hid_head_sent \in BOOLEAN
         /\ hid_last_queued_valid \in BOOLEAN /\ response_pending \in BOOLEAN
         /\ respond \in BOOLEAN /\ discarded \in BOOLEAN
         /\ hid_fifo \in Seq(Entry) /\ Len(hid_fifo) <= Slots
         /\ hid_last_queued \in Report /\ hostKeys \in Report
         /\ tx_ctrl \in Ctrl /\ response_ctrl \in Ctrl
         /\ air \in [seq : Bit, entry : Entries, heard : BOOLEAN]
         /\ dongle \in [up : BOOLEAN, bit : Bit, last : Bit]
         /\ queued \in 0..MaxReports /\ bondGen \in 0..MaxUnpairs
         /\ sessionAcc \in 0..MaxReports /\ lastAcc \in 0..MaxReports
BY Zenon DEF TypeOK, Entries

LEMMA TypesBack ==
  ASSUME rf_state' \in {"IDLE", "PAIRING", "CONNECTED", "RESTING"},
         radio' \in {"off", "rx", "tx"},
         rest_probe' \in BOOLEAN, rest_probe_wake' \in BOOLEAN,
         rest_quiet_pending' \in BOOLEAN, has_bond' \in BOOLEAN,
         discard_hid' \in BOOLEAN, hid_head_sent' \in BOOLEAN,
         hid_last_queued_valid' \in BOOLEAN, response_pending' \in BOOLEAN,
         respond' \in BOOLEAN, discarded' \in BOOLEAN,
         hid_fifo' \in Seq(Entry), Len(hid_fifo') <= Slots,
         hid_last_queued' \in Report, hostKeys' \in Report,
         tx_ctrl' \in Ctrl, response_ctrl' \in Ctrl,
         air' \in [seq : Bit, entry : Entries, heard : BOOLEAN],
         dongle' \in [up : BOOLEAN, bit : Bit, last : Bit],
         queued' \in 0..MaxReports, bondGen' \in 0..MaxUnpairs,
         sessionAcc' \in 0..MaxReports, lastAcc' \in 0..MaxReports
  PROVE  TypeOK'
<1>1. {rest_probe', rest_probe_wake', rest_quiet_pending', has_bond',
       discard_hid', hid_head_sent', hid_last_queued_valid',
       response_pending', respond', discarded'} \subseteq BOOLEAN
  BY Zenon
<1> QED
  BY <1>1, Zenon DEF TypeOK, Entries

\* The values the actions assign.
LEMMA Values ==
  /\ NoAir \in [seq : Bit, entry : Entries, heard : BOOLEAN]
  /\ NoAir.entry.id = 0
  /\ Released \in Report
  /\ 0 \in Bit /\ 1 \in Bit
  /\ [ack |-> 0, seq |-> 0] \in Ctrl /\ [ack |-> 0, seq |-> 1] \in Ctrl
  /\ <<>> \in Seq(Entry) /\ Len(<<>>) = 0
BY DEF NoAir, Bit, Entries, NoEntry, Report, Ctrl

\* A step that leaves the FIFO and its numbers alone, or starts a session.
LEMMA QueueKept ==
  ASSUME Queue,
         UNCHANGED <<hid_fifo, hid_last_queued, queued, bondGen, lastAcc>>,
         sessionAcc' = sessionAcc \/ sessionAcc' = 0, lastAcc \in Nat
  PROVE  Queue'
BY DEF Queue

-----------------------------------------------------------------------------
(* The FIFO.                                                                 *)

\* What the types say of the entries and of the head.
LEMMA EntryOfQueue ==
  ASSUME TypeOK, NEW i \in 1..Len(hid_fifo)
  PROVE  /\ hid_fifo[i] \in Entry /\ hid_fifo[i].id \in 1..MaxReports
         /\ hid_fifo[i].id \in Nat /\ hid_fifo[i].report \in Report
<1>1. hid_fifo[i] \in Entry
  BY Types
<1> QED
  BY <1>1 DEF Entry

LEMMA HeadOfQueue ==
  ASSUME TypeOK, hid_fifo # <<>>
  PROVE  /\ Len(hid_fifo) \in Nat /\ Len(hid_fifo) >= 1
         /\ Head(hid_fifo) = hid_fifo[1] /\ Head(hid_fifo) \in Entry
         /\ Head(hid_fifo).id \in 1..MaxReports /\ Head(hid_fifo).id > 0
         /\ Head(hid_fifo).id # 0 /\ Head(hid_fifo).report \in Report
<1>1. Len(hid_fifo) \in Nat /\ Len(hid_fifo) >= 1
  BY Types
<1> QED
  BY <1>1, EntryOfQueue

\* The head was queued under the current bond.
LEMMA HeadIsOfBond ==
  ASSUME DeliveryInv, hid_fifo # <<>>
  PROVE  Head(hid_fifo).gen = bondGen
<1>1. TypeOK /\ Queue
  BY DEF DeliveryInv
<1> QED
  BY <1>1 DEF Queue

\* A report takes the last place, its own or, on a full FIFO, that of the one
\* before it: with two slots or more never the head's.
LEMMA QueueGrows ==
  ASSUME TypeOK, NEW e \in Entry, hid_fifo' =
           IF Len(hid_fifo) < Slots
             THEN Append(hid_fifo, e)
             ELSE [hid_fifo EXCEPT ![Len(hid_fifo)] = e]
  PROVE  /\ hid_fifo' \in Seq(Entry) /\ hid_fifo' # <<>>
         /\ Len(hid_fifo') <= Slots /\ Len(hid_fifo') \in Nat
         /\ hid_fifo'[Len(hid_fifo')] = e
         /\ Len(hid_fifo') >= 1
         /\ \A i \in 1..(Len(hid_fifo') - 1) :
              i \in 1..Len(hid_fifo) /\ hid_fifo'[i] = hid_fifo[i]
         /\ hid_fifo = <<>> => Len(hid_fifo') = 1
         /\ hid_fifo # <<>> => Len(hid_fifo') > 1
<1>1. hid_fifo \in Seq(Entry) /\ Len(hid_fifo) \in Nat /\ Len(hid_fifo) <= Slots
      /\ (hid_fifo = <<>> => Len(hid_fifo) = 0)
      /\ (hid_fifo # <<>> => Len(hid_fifo) >= 1)
  BY Types
<1>2. CASE Len(hid_fifo) < Slots
  <2>1. /\ hid_fifo' \in Seq(Entry) /\ hid_fifo' # <<>>
        /\ Len(hid_fifo') = Len(hid_fifo) + 1
        /\ \A i \in 1..Len(hid_fifo) : hid_fifo'[i] = hid_fifo[i]
        /\ hid_fifo'[Len(hid_fifo) + 1] = e
    BY <1>1, <1>2
  <2> QED
    BY <1>1, <2>1, SlotsAssumption
<1>3. CASE ~(Len(hid_fifo) < Slots)
  <2>1. Len(hid_fifo) \in 1..Len(hid_fifo) /\ Len(hid_fifo) = Slots
    BY <1>1, <1>3, SlotsAssumption
  <2>2. /\ hid_fifo' \in Seq(Entry) /\ Len(hid_fifo') = Len(hid_fifo)
        /\ \A j \in 1..Len(hid_fifo) :
             hid_fifo'[j] = IF j = Len(hid_fifo) THEN e ELSE hid_fifo[j]
    BY <1>1, <2>1
  <2>3. hid_fifo' # <<>> /\ hid_fifo # <<>>
    BY <1>1, <2>2
  <2> QED
    BY <1>1, <2>3, SlotsAssumption
<1> QED
  BY <1>2, <1>3

-----------------------------------------------------------------------------
(* Every step keeps DeliveryInv.                                             *)

LEMMA DeliveryStep == DeliveryInv /\ [Next]_vars => DeliveryInv'
<1> SUFFICES ASSUME DeliveryInv, [Next]_vars PROVE DeliveryInv'
  OBVIOUS
<1>t. TypeOK /\ Resting /\ Queue /\ OnAir /\ Phase /\ Newest
  BY DEF DeliveryInv
<1>1. ASSUME NEW r \in Report, RF_QueueHIDReport(r) PROVE DeliveryInv'
  <2>0. UNCHANGED <<has_bond, discard_hid, radio, hid_head_sent, tx_ctrl,
                    response_pending, response_ctrl, respond, air, dongle,
                    hostKeys, bondGen, sessionAcc, lastAcc>>
    BY <1>1 DEF RF_QueueHIDReport, arqVars, dongleVars
  <2>w. \/ /\ rf_state = "RESTING" /\ rf_state' = "PAIRING"
           /\ rest_probe' = TRUE /\ rest_probe_wake' = TRUE
           /\ rest_quiet_pending' = FALSE
        \/ /\ rf_state = "CONNECTED" /\ rest_probe /\ rf_state' = rf_state
           /\ rest_probe' = FALSE /\ rest_probe_wake' = FALSE
           /\ rest_quiet_pending' = FALSE
        \/ /\ rf_state \notin {"RESTING", "CONNECTED"} /\ rest_probe
           /\ rf_state' = rf_state /\ rest_probe' = rest_probe
           /\ rest_probe_wake' = TRUE /\ rest_quiet_pending' = FALSE
        \/ /\ rf_state # "RESTING" /\ ~rest_probe
           /\ UNCHANGED <<rf_state, rest_probe, rest_probe_wake,
                          rest_quiet_pending>>
    BY <1>1 DEF RF_QueueHIDReport, wake_link, restVars
  <2>s. (rf_state = "CONNECTED" <=> rf_state' = "CONNECTED")
        /\ rf_state' \in {"IDLE", "PAIRING", "CONNECTED", "RESTING"}
    BY <1>t, <2>w, Types
  <2>r. rest_probe' \in BOOLEAN /\ rest_probe_wake' \in BOOLEAN
        /\ rest_quiet_pending' \in BOOLEAN
    BY <1>t, <2>w, Types, Zenon
  <2>q. /\ rf_state' # "RESTING" /\ ~(rest_probe' /\ ~rest_probe_wake')
        /\ rest_probe_wake' => rest_probe' /\ rf_state' = "PAIRING"
        /\ rest_probe' => rf_state' \in {"PAIRING", "CONNECTED"}
        /\ ~rest_quiet_pending'
    BY <1>t, <2>w DEF Resting, SilentProbe
  <2>2. Resting'
    BY <2>q DEF Resting, SilentProbe
  <2>c. CASE changed(r)
    <3> DEFINE entry == [id |-> queued + 1, report |-> r, gen |-> bondGen]
    <3>1. /\ queued < MaxReports
          /\ hid_fifo' = IF Len(hid_fifo) < Slots
                           THEN Append(hid_fifo, entry)
                           ELSE [hid_fifo EXCEPT ![Len(hid_fifo)] = entry]
          /\ hid_last_queued' = r /\ hid_last_queued_valid' = TRUE
          /\ queued' = queued + 1 /\ discarded' = FALSE
      BY <1>1, <2>c DEF RF_QueueHIDReport, enqueue
    <3>2. entry \in Entry /\ entry.id = queued + 1 /\ entry.gen = bondGen
          /\ entry.report = r
      BY <1>1, <1>t, <3>1, Types, BoundsAssumption DEF Entry
    <3> HIDE DEF entry
    <3>3. /\ hid_fifo' \in Seq(Entry) /\ hid_fifo' # <<>>
          /\ Len(hid_fifo') <= Slots /\ Len(hid_fifo') \in Nat
          /\ hid_fifo'[Len(hid_fifo')] = entry
          /\ Len(hid_fifo') >= 1
          /\ \A i \in 1..(Len(hid_fifo') - 1) :
               i \in 1..Len(hid_fifo) /\ hid_fifo'[i] = hid_fifo[i]
          /\ hid_fifo = <<>> => Len(hid_fifo') = 1
          /\ hid_fifo # <<>> => Len(hid_fifo') > 1
      BY <1>t, <3>1, <3>2, QueueGrows
    <3>5. hid_fifo = <<>> => Head(hid_fifo') = entry
      BY <3>3
    <3>6. hid_fifo # <<>> => Head(hid_fifo') = Head(hid_fifo)
      BY <1>t, <3>3
    <3>7. TypeOK'
      <4>1. hid_last_queued' \in Report /\ queued' \in 0..MaxReports
        BY <1>1, <1>t, <3>1, Types, BoundsAssumption
      <4>2. hid_last_queued_valid' \in BOOLEAN /\ discarded' \in BOOLEAN
        BY <3>1, Zenon
      <4> QED
        BY <1>t, <2>0, <2>s, <2>r, <3>3, <4>1, <4>2, Types, TypesBack
    <3>8. Queue'
      <4> DEFINE n == Len(hid_fifo')
      <4>1. n \in Nat /\ n >= 1 /\ hid_fifo'[n] = entry
            /\ \A i \in 1..(n - 1) :
                 i \in 1..Len(hid_fifo) /\ hid_fifo'[i] = hid_fifo[i]
        BY <3>3
      <4> HIDE DEF n
      <4>2. \A i \in 1..Len(hid_fifo) :
              hid_fifo[i].id \in Nat /\ hid_fifo[i].id <= queued
              /\ hid_fifo[i].gen = bondGen
        BY <1>t, EntryOfQueue DEF Queue
      <4>3. queued \in Nat /\ lastAcc \in Nat /\ lastAcc <= queued
            /\ sessionAcc <= lastAcc
        BY <1>t, Types DEF Queue
      <4>4. \A i \in 1..(n - 1) :
              hid_fifo'[i].id \in Nat /\ hid_fifo'[i].id < entry.id
              /\ hid_fifo'[i].id <= queued' /\ hid_fifo'[i].gen = bondGen
        BY <3>1, <3>2, <4>1, <4>2, <4>3
      <4>5. \A i \in 1..n : hid_fifo'[i].id <= queued'
                            /\ hid_fifo'[i].gen = bondGen'
        <5> TAKE i \in 1..n
        <5>1. CASE i = n
          BY <2>0, <3>1, <3>2, <4>1, <5>1
        <5>2. CASE i # n
          BY <2>0, <4>1, <4>4, <5>2
        <5> QED
          BY <5>1, <5>2
      <4>6. \A i, j \in 1..n : i < j => hid_fifo'[i].id < hid_fifo'[j].id
        <5> SUFFICES ASSUME NEW i \in 1..n, NEW j \in 1..n, i < j
                     PROVE  hid_fifo'[i].id < hid_fifo'[j].id
          OBVIOUS
        <5>1. CASE j = n
          BY <4>1, <4>4, <5>1
        <5>2. CASE j # n
          <6>1. i \in 1..(n - 1) /\ j \in 1..(n - 1)
            BY <4>1, <5>2
          <6> QED
            BY <1>t, <4>1, <6>1 DEF Queue
        <5> QED
          BY <5>1, <5>2
      <4>7. lastAcc' <= Head(hid_fifo').id
        BY <1>t, <2>0, <3>2, <3>5, <3>6, <4>3 DEF Queue
      <4>8. hid_fifo'[n].report = hid_last_queued'
        BY <3>1, <3>2, <4>1
      <4>9. sessionAcc' <= lastAcc' /\ lastAcc' <= queued'
        BY <2>0, <3>1, <4>3
      <4> QED
        BY <4>5, <4>6, <4>7, <4>8, <4>9 DEF Queue, n
    <3>9. OnAir'
      BY <1>t, <2>0, <2>s, <3>3 DEF OnAir
    <3>10. Phase'
      <4>1. hid_fifo = <<>> => ~hid_head_sent
        BY <1>t DEF OnAir
      <4>2. entry.id > sessionAcc
        BY <1>t, <3>2, Types DEF Queue
      <4>3. CASE hid_fifo = <<>>
        BY <1>t, <2>0, <2>s, <3>5, <4>1, <4>2, <4>3 DEF Phase, Accepted
      <4>4. CASE hid_fifo # <<>>
        BY <1>t, <2>0, <2>s, <3>6, <4>4 DEF Phase, Accepted
      <4> QED
        BY <4>3, <4>4
    <3>11. Newest'
      BY <3>3 DEF Newest
    <3> QED
      BY <2>2, <3>7, <3>8, <3>9, <3>10, <3>11 DEF DeliveryInv
  <2>u. CASE ~changed(r)
    <3>1. UNCHANGED <<hid_fifo, hid_last_queued, hid_last_queued_valid, queued,
                      discarded>>
      BY <1>1, <2>u DEF RF_QueueHIDReport
    <3>2. TypeOK'
      BY <1>t, <2>0, <2>s, <2>r, <3>1, Types, TypesBack
    <3>3. Queue'
      BY <1>t, <2>0, <3>1, Types, QueueKept
    <3>4. OnAir'
      BY <1>t, <2>0, <2>s, <3>1 DEF OnAir
    <3>5. Phase'
      BY <1>t, <2>0, <2>s, <3>1 DEF Phase, Accepted
    <3>6. Newest'
      BY <1>t, <2>0, <2>s, <3>1 DEF Newest
    <3> QED
      BY <2>2, <3>2, <3>3, <3>4, <3>5, <3>6 DEF DeliveryInv
  <2> QED
    BY <2>c, <2>u
<1>2. ASSUME Poll PROVE DeliveryInv'
  <2>0. UNCHANGED <<rf_state, rest_probe, rest_probe_wake, rest_quiet_pending,
                    has_bond, discard_hid, hid_last_queued,
                    hid_last_queued_valid, air, dongle, hostKeys, queued,
                    bondGen, sessionAcc, lastAcc, discarded>>
    BY <1>2 DEF Poll, PollRetiring, linkVars, restVars, dongleVars, histVars
  <2>p. /\ rf_state = "CONNECTED" /\ radio = "rx" /\ dongle.up
        /\ tx_ctrl' = IF Accepted
                        THEN [ack |-> dongle.bit, seq |-> 1 - tx_ctrl.seq]
                        ELSE tx_ctrl
        /\ hid_head_sent' = (hid_head_sent /\ ~Accepted)
        /\ hid_fifo' = IF hid_head_sent /\ Accepted /\ hid_fifo # <<>>
                         THEN Tail(hid_fifo) ELSE hid_fifo
        /\ response_ctrl' = tx_ctrl'
        /\ response_pending' = TRUE /\ respond' = TRUE /\ radio' = "off"
    BY <1>2 DEF Poll, PollRetiring, Accepted
  <2>a. air = NoAir /\ (hid_head_sent => hid_fifo # <<>>)
    BY <1>t, <2>p DEF OnAir
  <2>f. /\ tx_ctrl.ack \in Bit /\ tx_ctrl.seq \in Bit /\ dongle.bit \in Bit
        /\ dongle.bit = dongle.last /\ tx_ctrl.seq = 1 - tx_ctrl.ack
    BY <1>t, <2>p, Types DEF Phase, Ctrl
  <2>g. tx_ctrl' \in Ctrl /\ tx_ctrl'.ack = dongle.bit
        /\ tx_ctrl'.seq = 1 - tx_ctrl'.ack
    <3>1. CASE Accepted
      <4>1. tx_ctrl' = [ack |-> dongle.bit, seq |-> 1 - tx_ctrl.seq]
        BY <2>p, <3>1
      <4>2. 1 - tx_ctrl.seq \in Bit /\ 1 - tx_ctrl.seq = 1 - dongle.bit
        BY <2>f, <3>1 DEF Bit, Accepted
      <4> QED
        BY <2>f, <4>1, <4>2 DEF Ctrl
    <3>2. CASE ~Accepted
      BY <1>t, <2>p, <2>f, <3>2, Types DEF Accepted
    <3> QED
      BY <3>1, <3>2
  <2>h. hid_head_sent' \in BOOLEAN /\ (hid_head_sent' => hid_head_sent)
    BY <1>t, <2>p, Zenon
  <2>1. TypeOK'
    <3>1. hid_fifo' \in Seq(Entry) /\ Len(hid_fifo') <= Slots
      BY <1>t, <2>p, Types, SlotsAssumption
    <3>2. radio' \in {"off", "rx", "tx"} /\ response_ctrl' \in Ctrl
      BY <2>p, <2>g
    <3>3. response_pending' \in BOOLEAN /\ respond' \in BOOLEAN
      BY <2>p, Zenon
    <3> QED
      BY <3>1, <3>2, <3>3, <1>t, <2>0, <2>g, <2>h, Types, TypesBack
  <2>2. Resting'
    BY <1>t, <2>0, <2>p DEF Resting, SilentProbe, hid_key_held
  <2>4. OnAir'
    <3> QED
      BY <2>0, <2>a, <2>p DEF OnAir
  <2>c. CASE hid_head_sent /\ Accepted
    <3>1. hid_fifo # <<>> /\ hid_fifo' = Tail(hid_fifo) /\ ~hid_head_sent'
      BY <2>a, <2>c, <2>p
    <3>2. Head(hid_fifo).id = lastAcc /\ hostKeys = Head(hid_fifo).report
      BY <1>t, <2>c, <2>p DEF Phase
    <3>3. /\ \A i \in 1..Len(hid_fifo') : hid_fifo'[i] = hid_fifo[i + 1]
          /\ Len(hid_fifo') = Len(hid_fifo) - 1
          /\ hid_fifo' # <<>> => Head(hid_fifo') = hid_fifo[2]
                                 /\ Len(hid_fifo) >= 2
          /\ hid_fifo' = <<>> => Len(hid_fifo) = 1
      BY <1>t, <3>1
    <3>5. hid_fifo' # <<>> =>
            lastAcc < Head(hid_fifo').id /\ Head(hid_fifo').id > sessionAcc
      <4> SUFFICES ASSUME hid_fifo' # <<>>
                   PROVE  lastAcc < hid_fifo[2].id /\ hid_fifo[2].id > sessionAcc
        BY <3>3
      <4>1. hid_fifo[1].id < hid_fifo[2].id
        BY <1>t, <3>3 DEF Queue
      <4>2. sessionAcc <= lastAcc /\ sessionAcc \in Nat /\ lastAcc \in Nat
        BY <1>t, Types DEF Queue
      <4>3. hid_fifo[2].id \in Nat
        BY <1>t, <3>3, EntryOfQueue
      <4> QED
        BY <3>2, <4>1, <4>2, <4>3
    <3>6. Queue'
      <4>1. \A i \in 1..Len(hid_fifo') :
              hid_fifo'[i].id <= queued' /\ hid_fifo'[i].gen = bondGen'
        BY <1>t, <2>0, <3>3 DEF Queue
      <4>2. \A i, j \in 1..Len(hid_fifo') :
              i < j => hid_fifo'[i].id < hid_fifo'[j].id
        <5> SUFFICES ASSUME NEW i \in 1..Len(hid_fifo'),
                            NEW j \in 1..Len(hid_fifo'), i < j
                     PROVE  hid_fifo[i + 1].id < hid_fifo[j + 1].id
          BY <3>3
        <5>1. i + 1 \in 1..Len(hid_fifo) /\ j + 1 \in 1..Len(hid_fifo)
              /\ i + 1 < j + 1
          BY <3>3
        <5> QED
          BY <1>t, <5>1 DEF Queue
      <4>3. hid_fifo' # <<>> =>
              hid_fifo'[Len(hid_fifo')].report = hid_last_queued'
        BY <1>t, <2>0, <3>3 DEF Queue
      <4>4. hid_fifo' # <<>> => lastAcc' <= Head(hid_fifo').id
        <5>1. hid_fifo' # <<>> => hid_fifo[2].id \in Nat
          BY <1>t, <3>3, EntryOfQueue
        <5> QED
          BY <1>t, <2>0, <3>3, <3>5, <5>1, Types
      <4> QED
        BY <1>t, <2>0, <4>1, <4>2, <4>3, <4>4 DEF Queue
    <3>7. Phase'
      BY <2>0, <2>f, <2>g, <3>5 DEF Phase, Accepted
    <3>8. Newest'
      BY <1>t, <2>0, <2>p, <3>2, <3>3 DEF Newest, Queue
    <3> QED
      BY <2>1, <2>2, <2>4, <3>6, <3>7, <3>8 DEF DeliveryInv
  <2>n. CASE ~(hid_head_sent /\ Accepted)
    <3>1. hid_fifo' = hid_fifo /\ (hid_head_sent' => ~Accepted)
      BY <2>n, <2>p
    <3>2. Queue'
      BY <1>t, <2>0, <3>1, Types, QueueKept
    <3>3. Phase'
      BY <1>t, <2>0, <2>g, <2>p, <3>1 DEF Phase, Accepted
    <3>4. Newest'
      BY <1>t, <2>0, <3>1 DEF Newest
    <3> QED
      BY <2>1, <2>2, <2>4, <3>2, <3>3, <3>4 DEF DeliveryInv
  <2> QED
    BY <2>c, <2>n
<1>3. ASSUME NEW started \in BOOLEAN, rf_do_response_tx(started)
      PROVE  DeliveryInv'
  <2>0. UNCHANGED <<rf_state, rest_probe, rest_probe_wake, rest_quiet_pending,
                    has_bond, discard_hid, hid_fifo, hid_last_queued,
                    hid_last_queued_valid, tx_ctrl, response_ctrl, dongle,
                    hostKeys, queued, bondGen, sessionAcc, lastAcc,
                    discarded>>
    BY <1>3 DEF rf_do_response_tx, linkVars, restVars, dongleVars, histVars
  <2>p. /\ rf_state = "CONNECTED" /\ respond /\ respond' = FALSE
        /\ ~Accepted /\ response_ctrl = tx_ctrl /\ radio # "tx"
    BY <1>3, <1>t DEF rf_do_response_tx, OnAir, Phase
  <2>c. \/ /\ radio' = "tx" /\ UNCHANGED response_pending
           /\ air' = [seq |-> response_ctrl.seq, heard |-> FALSE,
                      entry |-> IF hid_fifo = <<>> THEN NoEntry
                                                   ELSE Head(hid_fifo)]
           /\ hid_head_sent' = (hid_head_sent \/ hid_fifo # <<>>)
        \/ RF_Shut /\ response_pending' = FALSE /\ UNCHANGED hid_head_sent
        \/ UNCHANGED <<response_pending, radio, air, hid_head_sent>>
    BY <1>3 DEF rf_do_response_tx
  <2>h. hid_fifo # <<>> => /\ Head(hid_fifo) \in Entry
                           /\ Head(hid_fifo).id # 0
    BY <1>t, HeadOfQueue
  <2>1. TypeOK'
    <3>1. air' \in [seq : Bit, entry : Entries, heard : BOOLEAN]
      <4>1. response_ctrl.seq \in Bit
        BY <1>t, Types DEF Ctrl
      <4>2. (IF hid_fifo = <<>> THEN NoEntry ELSE Head(hid_fifo)) \in Entries
        BY <2>h DEF Entries
      <4>3. [seq |-> response_ctrl.seq, heard |-> FALSE,
             entry |-> IF hid_fifo = <<>> THEN NoEntry ELSE Head(hid_fifo)]
              \in [seq : Bit, entry : Entries, heard : BOOLEAN]
        BY <4>1, <4>2
      <4>4. air \in [seq : Bit, entry : Entries, heard : BOOLEAN]
            /\ NoAir \in [seq : Bit, entry : Entries, heard : BOOLEAN]
        BY <1>t, Types, Values
      <4> QED
        BY <2>c, <4>3, <4>4, Zenon DEF RF_Shut
    <3>2. radio' \in {"off", "rx", "tx"}
      BY <1>t, <2>c, Types DEF RF_Shut
    <3>3. hid_head_sent' \in BOOLEAN /\ response_pending' \in BOOLEAN
      BY <1>t, <2>c, Types, Zenon
    <3>4. respond' \in BOOLEAN
      BY <2>p, Zenon
    <3> QED
      BY <3>1, <3>2, <3>3, <3>4, <1>t, <2>0, Types, TypesBack
  <2>2. Resting' /\ Newest'
    BY <1>t, <2>0 DEF Resting, SilentProbe, hid_key_held, Newest
  <2>3. Queue'
    BY <1>t, <2>0, Types, QueueKept
  <2>4. OnAir'
    <3>1. CASE /\ radio' = "tx"
               /\ air' = [seq |-> response_ctrl.seq, heard |-> FALSE,
                          entry |-> IF hid_fifo = <<>> THEN NoEntry
                                                       ELSE Head(hid_fifo)]
               /\ hid_head_sent' = (hid_head_sent \/ hid_fifo # <<>>)
      <4>2. (hid_fifo = <<>> => air'.entry.id = 0 /\ ~hid_head_sent')
            /\ (hid_fifo # <<>> => air'.entry = Head(hid_fifo) /\ hid_head_sent')
        BY <1>t, <3>1 DEF OnAir, NoEntry
      <4> QED
        BY <2>0, <2>p, <2>h, <3>1, <4>2 DEF OnAir
    <3>2. CASE RF_Shut /\ UNCHANGED hid_head_sent
      BY <1>t, <2>0, <2>p, <3>2 DEF OnAir, RF_Shut
    <3>3. CASE UNCHANGED <<radio, air, hid_head_sent>>
      BY <1>t, <2>0, <2>p, <3>3 DEF OnAir
    <3> QED
      BY <2>c, <3>1, <3>2, <3>3
  <2>5. Phase'
    BY <1>t, <2>0, <2>p DEF Phase, Accepted
  <2> QED
    BY <2>1, <2>2, <2>3, <2>4, <2>5 DEF DeliveryInv
<1>4. ASSUME DongleHear PROVE DeliveryInv'
  <2>0. UNCHANGED <<rf_state, rest_probe, rest_probe_wake, rest_quiet_pending,
                    has_bond, discard_hid, radio, hid_fifo, hid_head_sent,
                    hid_last_queued, hid_last_queued_valid, tx_ctrl,
                    response_pending, response_ctrl, respond, queued, bondGen,
                    discarded>>
    BY <1>4 DEF DongleHear, linkVars, restVars, fifoVars, arqVars, histVars
  <2>p. /\ radio = "tx" /\ dongle.up /\ rf_state = "CONNECTED"
        /\ air' = [air EXCEPT !.heard = TRUE] /\ ~respond
        /\ air.seq = 1 - tx_ctrl.ack /\ dongle.bit = dongle.last
        /\ air.entry.id = 0 => ~hid_head_sent
        /\ air.entry.id # 0 => hid_head_sent /\ air.entry = Head(hid_fifo)
    BY <1>4, <1>t DEF DongleHear, OnAir, Phase
  <2>f. /\ tx_ctrl.ack \in Bit /\ dongle.bit \in Bit /\ air.seq \in Bit
        /\ air' \in [seq : Bit, entry : Entries, heard : BOOLEAN]
        /\ air'.seq = air.seq /\ air'.entry = air.entry
    BY <1>t, <2>p, Types DEF Ctrl
  <2>n. air.seq # dongle.last <=> ~Accepted
    BY <2>p, <2>f DEF Accepted, Bit
  <2>4. OnAir'
    BY <1>t, <2>0, <2>p DEF OnAir
  <2>2. Resting'
    BY <1>t, <2>0 DEF Resting, SilentProbe, hid_key_held
  <2>c. CASE Accepted
    <3>1. UNCHANGED <<dongle, hostKeys, sessionAcc, lastAcc>>
      BY <1>4, <2>c, <2>n DEF DongleHear
    <3>2. TypeOK'
      BY <1>t, <2>0, <2>f, <3>1, Types, TypesBack
    <3>3. Queue'
      BY <1>t, <2>0, <3>1, Types, QueueKept
    <3>4. Phase' /\ Newest'
      BY <1>t, <2>0, <3>1 DEF Phase, Accepted, Newest
    <3> QED
      BY <2>2, <2>4, <3>2, <3>3, <3>4 DEF DeliveryInv
  <2>d. CASE ~Accepted
    <3>1. /\ dongle' = [dongle EXCEPT !.bit = 1 - @, !.last = air.seq]
          /\ hostKeys' = IF air.entry.id # 0 THEN air.entry.report ELSE hostKeys
          /\ sessionAcc' = IF air.entry.id # 0 THEN air.entry.id ELSE sessionAcc
          /\ lastAcc' = IF air.entry.id # 0 THEN air.entry.id ELSE lastAcc
      BY <1>4, <2>d, <2>n DEF DongleHear
    <3>2. /\ dongle' \in [up : BOOLEAN, bit : Bit, last : Bit]
          /\ dongle'.bit = 1 - dongle.bit /\ dongle'.last = air.seq
          /\ dongle'.up = dongle.up /\ Accepted'
          /\ dongle'.bit = dongle'.last
      <4>1. 1 - dongle.bit \in Bit /\ 1 - dongle.bit # dongle.bit
            /\ dongle.bit = tx_ctrl.ack
        BY <2>f, <2>d DEF Bit, Accepted
      <4> QED
        BY <1>t, <2>0, <2>p, <3>1, <4>1, Types DEF Accepted
    <3>k. CASE air.entry.id = 0
      <4>1. UNCHANGED <<hostKeys, sessionAcc, lastAcc>> /\ ~hid_head_sent
        BY <2>p, <3>1, <3>k
      <4>2. TypeOK'
        BY <1>t, <2>0, <2>f, <3>2, <4>1, Types, TypesBack
      <4>3. Queue'
        BY <1>t, <2>0, <4>1, Types, QueueKept
      <4>4. Phase' /\ Newest'
        BY <1>t, <2>0, <2>p, <3>2, <4>1 DEF Phase, Newest
      <4> QED
        BY <2>2, <2>4, <4>2, <4>3, <4>4 DEF DeliveryInv
    <3>r. CASE air.entry.id # 0
      <4>1. /\ hid_head_sent /\ hid_fifo # <<>>
            /\ hostKeys' = Head(hid_fifo).report
            /\ sessionAcc' = Head(hid_fifo).id /\ lastAcc' = Head(hid_fifo).id
        BY <1>t, <2>p, <3>1, <3>r DEF OnAir
      <4>2. /\ Head(hid_fifo).id \in 1..MaxReports
            /\ Head(hid_fifo).report \in Report
            /\ Head(hid_fifo) = hid_fifo[1] /\ Len(hid_fifo) >= 1
            /\ Len(hid_fifo) \in Nat
        BY <1>t, <4>1, HeadOfQueue
      <4>3. TypeOK'
        <5>1. hostKeys' \in Report /\ sessionAcc' \in 0..MaxReports
              /\ lastAcc' \in 0..MaxReports
          BY <4>1, <4>2
        <5> QED
          BY <1>t, <2>0, <2>f, <3>2, <5>1, Types, TypesBack
      <4>4. Queue'
        <5>1. sessionAcc' <= lastAcc' /\ lastAcc' <= queued'
              /\ lastAcc' <= Head(hid_fifo').id
          BY <1>t, <2>0, <4>1, <4>2 DEF Queue
        <5> QED
          BY <1>t, <2>0, <5>1 DEF Queue
      <4>5. Phase' /\ Newest'
        BY <1>t, <2>0, <2>p, <3>2, <4>1 DEF Phase, Newest
      <4> QED
        BY <2>2, <2>4, <4>3, <4>4, <4>5 DEF DeliveryInv
    <3> QED
      BY <3>k, <3>r
  <2> QED
    BY <2>c, <2>d
<1>5. ASSUME SelectOther PROVE DeliveryInv'
  <2>0. UNCHANGED <<has_bond, hid_fifo, hid_head_sent, hid_last_queued,
                    tx_ctrl, response_pending, response_ctrl, dongle,
                    hostKeys, queued, bondGen, sessionAcc, lastAcc,
                    discarded>>
    BY <1>5 DEF SelectOther, RF_Disconnect, dongleVars
  <2>1. TypeOK'
    BY <1>5, <1>t, <2>0, Types, TypesBack, Values
       DEF SelectOther, RF_Disconnect, rest_cancel, RF_Shut
  <2>2. Resting'
    BY <1>5 DEF SelectOther, RF_Disconnect, rest_cancel, Resting, SilentProbe
  <2>3. Queue'
    BY <1>5, <1>t, <2>0, Types, QueueKept DEF SelectOther
  <2>4. OnAir'
    BY <1>5, <1>t DEF SelectOther, RF_Disconnect, RF_Shut, OnAir
  <2>5. Phase'
    BY <1>5 DEF SelectOther, Phase
  <2>6. Newest'
    BY <1>5 DEF SelectOther, RF_Disconnect, Newest
  <2> QED
    BY <2>1, <2>2, <2>3, <2>4, <2>5, <2>6 DEF DeliveryInv
<1>6. ASSUME Disconnect PROVE DeliveryInv'
  <2>0. UNCHANGED <<has_bond, discard_hid, hid_fifo, hid_head_sent,
                    hid_last_queued, tx_ctrl, response_pending, response_ctrl,
                    dongle, hostKeys, queued, bondGen, sessionAcc, lastAcc,
                    discarded>>
    BY <1>6 DEF Disconnect, RF_Disconnect, dongleVars
  <2>1. TypeOK'
    BY <1>6, <1>t, <2>0, Types, TypesBack, Values
       DEF Disconnect, RF_Disconnect, rest_cancel, RF_Shut
  <2>2. Resting'
    BY <1>6 DEF Disconnect, RF_Disconnect, rest_cancel, Resting, SilentProbe
  <2>3. Queue'
    BY <1>6, <1>t, <2>0, Types, QueueKept DEF Disconnect
  <2>4. OnAir'
    BY <1>6, <1>t DEF Disconnect, RF_Disconnect, RF_Shut, OnAir
  <2>5. Phase'
    BY <1>6 DEF Disconnect, Phase
  <2>6. Newest'
    BY <1>6 DEF Disconnect, RF_Disconnect, Newest
  <2> QED
    BY <2>1, <2>2, <2>3, <2>4, <2>5, <2>6 DEF DeliveryInv
<1>7. ASSUME Unpair PROVE DeliveryInv'
  <2>0. UNCHANGED <<hid_last_queued, tx_ctrl, response_pending, response_ctrl,
                    dongle, hostKeys, queued, sessionAcc, lastAcc, discarded>>
    BY <1>7 DEF Unpair, RF_Disconnect, RF_ClearBond, dongleVars
  <2>1. TypeOK'
    <3>1. /\ rf_state' \in {"IDLE", "PAIRING", "CONNECTED", "RESTING"}
          /\ radio' \in {"off", "rx", "tx"}
      BY <1>7 DEF Unpair, RF_Disconnect, RF_Shut
    <3>2. /\ hid_last_queued_valid' \in BOOLEAN /\ respond' \in BOOLEAN
          /\ has_bond' \in BOOLEAN /\ discard_hid' \in BOOLEAN
          /\ hid_head_sent' \in BOOLEAN /\ rest_probe' \in BOOLEAN
          /\ rest_probe_wake' \in BOOLEAN
          /\ rest_quiet_pending' \in BOOLEAN
      BY <1>7 DEF Unpair, RF_Disconnect, RF_ClearBond, rest_cancel
    <3>3. /\ air' \in [seq : Bit, entry : Entries, heard : BOOLEAN]
          /\ hid_fifo' \in Seq(Entry) /\ bondGen' \in 0..MaxUnpairs
          /\ Len(hid_fifo') <= Slots
      BY <1>7, <1>t, Types, Values, SlotsAssumption, BoundsAssumption
         DEF Unpair, RF_Disconnect, RF_ClearBond, RF_Shut
    <3> QED
      BY <3>1, <3>2, <3>3, <1>t, <2>0, Types, TypesBack
  <2>2. Resting'
    BY <1>7 DEF Unpair, RF_Disconnect, rest_cancel, Resting, SilentProbe
  <2>3. Queue'
    BY <1>7, <1>t, <2>0 DEF Unpair, RF_ClearBond, Queue
  <2>4. OnAir'
    BY <1>7 DEF Unpair, RF_Disconnect, RF_ClearBond, RF_Shut, OnAir
  <2>5. Phase'
    BY <1>7 DEF Unpair, Phase
  <2>6. Newest'
    BY <1>7 DEF Unpair, RF_Disconnect, Newest
  <2> QED
    BY <2>1, <2>2, <2>3, <2>4, <2>5, <2>6 DEF DeliveryInv
<1>8. ASSUME FactoryPair PROVE DeliveryInv'
  <2>0. UNCHANGED <<hid_last_queued, tx_ctrl, response_pending, response_ctrl,
                    dongle, hostKeys, queued, sessionAcc, lastAcc, discarded>>
    BY <1>8 DEF FactoryPair, RF_Disconnect, RF_ClearBond, dongleVars
  <2>1. TypeOK'
    <3>1. /\ rf_state' \in {"IDLE", "PAIRING", "CONNECTED", "RESTING"}
          /\ radio' \in {"off", "rx", "tx"}
      BY <1>8 DEF FactoryPair, RF_Disconnect, RF_Shut
    <3>2. /\ hid_last_queued_valid' \in BOOLEAN /\ respond' \in BOOLEAN
          /\ has_bond' \in BOOLEAN /\ discard_hid' \in BOOLEAN
          /\ hid_head_sent' \in BOOLEAN /\ rest_probe' \in BOOLEAN
          /\ rest_probe_wake' \in BOOLEAN
          /\ rest_quiet_pending' \in BOOLEAN
      BY <1>8 DEF FactoryPair, RF_Disconnect, RF_ClearBond, rest_cancel
    <3>3. /\ air' \in [seq : Bit, entry : Entries, heard : BOOLEAN]
          /\ hid_fifo' \in Seq(Entry) /\ bondGen' \in 0..MaxUnpairs
          /\ Len(hid_fifo') <= Slots
      BY <1>8, <1>t, Types, Values, SlotsAssumption, BoundsAssumption
         DEF FactoryPair, RF_Disconnect, RF_ClearBond, RF_Shut
    <3> QED
      BY <3>1, <3>2, <3>3, <1>t, <2>0, Types, TypesBack
  <2>2. Resting'
    BY <1>8 DEF FactoryPair, RF_Disconnect, rest_cancel, Resting, SilentProbe
  <2>3. Queue'
    BY <1>8, <1>t, <2>0 DEF FactoryPair, RF_ClearBond, Queue
  <2>4. OnAir'
    BY <1>8 DEF FactoryPair, RF_Disconnect, RF_ClearBond, RF_Shut, OnAir
  <2>5. Phase'
    BY <1>8 DEF FactoryPair, Phase
  <2>6. Newest'
    BY <1>8 DEF FactoryPair, RF_Disconnect, Newest
  <2> QED
    BY <2>1, <2>2, <2>3, <2>4, <2>5, <2>6 DEF DeliveryInv
<1>9. ASSUME RF_Select2G4 PROVE DeliveryInv'
  <2>0. UNCHANGED <<has_bond, hid_fifo, hid_head_sent, hid_last_queued,
                    hid_last_queued_valid, tx_ctrl, response_pending,
                    response_ctrl, dongle, hostKeys, queued, bondGen,
                    sessionAcc, lastAcc, discarded>>
    BY <1>9 DEF RF_Select2G4, fifoVars, dongleVars, histVars
  <2>r. \/ rest_cancel
        \/ rf_state = "CONNECTED" /\ ~rest_probe /\ UNCHANGED restVars
    BY <1>9 DEF RF_Select2G4
  <2>s. \/ UNCHANGED <<rf_state, radio, air, respond>>
        \/ /\ rf_state # "CONNECTED"
           /\ rf_state' = "PAIRING" /\ RF_Shut /\ respond' = FALSE
    BY <1>9 DEF RF_Select2G4
  <2>1. TypeOK'
    <3>1. rf_state' \in {"IDLE", "PAIRING", "CONNECTED", "RESTING"}
          /\ radio' \in {"off", "rx", "tx"}
          /\ air' \in [seq : Bit, entry : Entries, heard : BOOLEAN]
      BY <1>t, <2>s, Types, Values DEF RF_Shut
    <3>2. respond' \in BOOLEAN
      BY <1>t, <2>s, Types, Zenon
    <3>3. discard_hid' \in BOOLEAN
      BY <1>9 DEF RF_Select2G4
    <3>4. rest_probe' \in BOOLEAN /\ rest_probe_wake' \in BOOLEAN
          /\ rest_quiet_pending' \in BOOLEAN
      BY <1>t, <2>r, Types, Zenon DEF rest_cancel, restVars
    <3> QED
      BY <3>1, <3>2, <3>3, <3>4, <1>t, <2>0, Types, TypesBack
  <2>2. Resting'
    <3>1. CASE rest_cancel
      BY <3>1, <1>t, <2>0, <2>s
         DEF rest_cancel, Resting, SilentProbe, hid_key_held
    <3>2. CASE rf_state = "CONNECTED" /\ ~rest_probe /\ UNCHANGED restVars
      BY <3>2, <1>t, <2>s DEF restVars, Resting, SilentProbe
    <3> QED
      BY <2>r, <3>1, <3>2
  <2>3. Queue'
    BY <1>9, <1>t, <2>0, Types, QueueKept DEF RF_Select2G4
  <2>4. OnAir'
    BY <1>9, <1>t, <2>0 DEF RF_Select2G4, RF_Shut, OnAir
  <2>5. Phase'
    BY <1>9, <1>t, <2>0 DEF RF_Select2G4, Phase, Accepted
  <2>6. Newest'
    BY <1>9, <1>t, <2>0 DEF RF_Select2G4, Newest
  <2> QED
    BY <2>1, <2>2, <2>3, <2>4, <2>5, <2>6 DEF DeliveryInv
<1>10. ASSUME RF_EnterPairing PROVE DeliveryInv'
  <2>0. UNCHANGED <<has_bond, discard_hid, hid_fifo, hid_head_sent,
                    hid_last_queued, hid_last_queued_valid, tx_ctrl,
                    response_pending, response_ctrl, dongle, hostKeys, queued,
                    bondGen, sessionAcc, lastAcc, discarded>>
    BY <1>10 DEF RF_EnterPairing, fifoVars, dongleVars, histVars
  <2>1. TypeOK'
    BY <1>10, <1>t, <2>0, Types, TypesBack, Values
       DEF RF_EnterPairing, rest_cancel, RF_Shut
  <2>2. Resting'
    BY <1>10 DEF RF_EnterPairing, rest_cancel, Resting, SilentProbe
  <2>3. Queue'
    BY <1>10, <1>t, <2>0, Types, QueueKept DEF RF_EnterPairing
  <2>4. OnAir'
    BY <1>10, <1>t, <2>0 DEF RF_EnterPairing, RF_Shut, OnAir
  <2>5. Phase'
    BY <1>10 DEF RF_EnterPairing, Phase
  <2>6. Newest'
    BY <1>10, <1>t, <2>0 DEF RF_EnterPairing, Newest
  <2> QED
    BY <2>1, <2>2, <2>3, <2>4, <2>5, <2>6 DEF DeliveryInv
<1>11. ASSUME TxFinish PROVE DeliveryInv'
  <2>0. UNCHANGED <<rf_state, rest_probe, rest_probe_wake, has_bond,
                    discard_hid, hid_fifo, hid_head_sent, hid_last_queued,
                    hid_last_queued_valid, tx_ctrl, response_ctrl, respond,
                    dongle, hostKeys, queued, bondGen, sessionAcc, lastAcc,
                    discarded>>
    BY <1>11 DEF TxFinish, fifoVars, dongleVars, histVars
  <2>1. TypeOK'
    <3>1. radio' \in {"off", "rx", "tx"}
      BY <1>11 DEF TxFinish, RF_Shut
    <3>2. /\ rest_quiet_pending' \in BOOLEAN
          /\ response_pending' \in BOOLEAN
      BY <1>11, <1>t, Types DEF TxFinish
    <3>3. air' \in [seq : Bit, entry : Entries, heard : BOOLEAN]
      BY <1>11, Values DEF TxFinish, RF_Shut
    <3> QED
      BY <3>1, <3>2, <3>3, <1>t, <2>0, Types, TypesBack
  <2>2. Resting'
    BY <1>11, <1>t, <2>0 DEF TxFinish, Resting, SilentProbe, hid_key_held
  <2>3. Queue'
    BY <1>11, <1>t, <2>0, Types, QueueKept DEF TxFinish
  <2>4. OnAir'
    BY <1>11, <1>t, <2>0 DEF TxFinish, RF_Shut, OnAir
  <2>5. Phase'
    BY <1>11, <1>t, <2>0 DEF TxFinish, Phase, Accepted
  <2>6. Newest'
    BY <1>11, <1>t, <2>0 DEF TxFinish, Newest
  <2> QED
    BY <2>1, <2>2, <2>3, <2>4, <2>5, <2>6 DEF DeliveryInv
<1>12. ASSUME TxFail PROVE DeliveryInv'
  <2>0. UNCHANGED <<rf_state, rest_probe, rest_probe_wake, rest_quiet_pending,
                    has_bond, discard_hid, hid_fifo, hid_head_sent,
                    hid_last_queued, hid_last_queued_valid, tx_ctrl,
                    response_ctrl, respond, dongle, hostKeys, queued, bondGen,
                    sessionAcc, lastAcc, discarded>>
    BY <1>12 DEF TxFail, linkVars, restVars, fifoVars, dongleVars, histVars
  <2>1. TypeOK'
    <3>1. radio' \in {"off", "rx", "tx"}
      BY <1>12 DEF TxFail, RF_Shut
    <3>2. response_pending' \in BOOLEAN
      BY <1>12 DEF TxFail
    <3>3. air' \in [seq : Bit, entry : Entries, heard : BOOLEAN]
      BY <1>12, Values DEF TxFail, RF_Shut
    <3> QED
      BY <3>1, <3>2, <3>3, <1>t, <2>0, Types, TypesBack
  <2>2. Resting'
    BY <1>12, <1>t, <2>0 DEF TxFail, Resting, SilentProbe, hid_key_held
  <2>3. Queue'
    BY <1>12, <1>t, <2>0, Types, QueueKept DEF TxFail
  <2>4. OnAir'
    BY <1>12, <1>t, <2>0 DEF TxFail, RF_Shut, OnAir
  <2>5. Phase'
    BY <1>12, <1>t, <2>0 DEF TxFail, Phase, Accepted
  <2>6. Newest'
    BY <1>12, <1>t, <2>0 DEF TxFail, Newest
  <2> QED
    BY <2>1, <2>2, <2>3, <2>4, <2>5, <2>6 DEF DeliveryInv
<1>13. ASSUME StartRx PROVE DeliveryInv'
  <2>0. UNCHANGED <<rf_state, rest_probe, rest_probe_wake, rest_quiet_pending,
                    has_bond, discard_hid, hid_fifo, hid_head_sent,
                    hid_last_queued, hid_last_queued_valid, tx_ctrl,
                    response_pending, response_ctrl, respond, dongle,
                    hostKeys, queued, bondGen, sessionAcc, lastAcc,
                    discarded>>
    BY <1>13
       DEF StartRx, linkVars, restVars, fifoVars, arqVars, dongleVars,
           histVars
  <2>1. TypeOK'
    BY <1>13, <1>t, <2>0, Types, TypesBack, Values DEF StartRx
  <2>2. Resting'
    BY <1>13, <1>t, <2>0 DEF StartRx, Resting, SilentProbe, hid_key_held
  <2>3. Queue'
    BY <1>13, <1>t, <2>0, Types, QueueKept DEF StartRx
  <2>4. OnAir'
    BY <1>13, <1>t, <2>0 DEF StartRx, OnAir
  <2>5. Phase'
    BY <1>13, <1>t, <2>0 DEF StartRx, Phase, Accepted
  <2>6. Newest'
    BY <1>13, <1>t, <2>0 DEF StartRx, Newest
  <2> QED
    BY <2>1, <2>2, <2>3, <2>4, <2>5, <2>6 DEF DeliveryInv
<1>14. ASSUME ReleaseResponse PROVE DeliveryInv'
  <2>0. UNCHANGED <<rf_state, rest_probe, rest_probe_wake, rest_quiet_pending,
                    has_bond, discard_hid, radio, hid_fifo, hid_head_sent,
                    hid_last_queued, hid_last_queued_valid, tx_ctrl,
                    response_ctrl, respond, air, dongle, hostKeys, queued,
                    bondGen, sessionAcc, lastAcc, discarded>>
    BY <1>14
       DEF ReleaseResponse, linkVars, restVars, fifoVars, dongleVars, histVars
  <2>1. TypeOK'
    <3>1. response_pending' \in BOOLEAN
      BY <1>14 DEF ReleaseResponse
    <3> QED
      BY <3>1, <1>t, <2>0, Types, TypesBack
  <2>2. Resting'
    BY <1>14, <1>t, <2>0
       DEF ReleaseResponse, Resting, SilentProbe, hid_key_held
  <2>3. Queue'
    BY <1>14, <1>t, <2>0, Types, QueueKept DEF ReleaseResponse
  <2>4. OnAir'
    BY <1>14, <1>t, <2>0 DEF ReleaseResponse, OnAir
  <2>5. Phase'
    BY <1>14, <1>t, <2>0 DEF ReleaseResponse, Phase, Accepted
  <2>6. Newest'
    BY <1>14, <1>t, <2>0 DEF ReleaseResponse, Newest
  <2> QED
    BY <2>1, <2>2, <2>3, <2>4, <2>5, <2>6 DEF DeliveryInv
<1>15. ASSUME RestIdle PROVE DeliveryInv'
  <2>0. UNCHANGED <<has_bond, discard_hid, hid_fifo, hid_head_sent,
                    hid_last_queued, hid_last_queued_valid, tx_ctrl,
                    response_ctrl, dongle, hostKeys, queued, bondGen,
                    sessionAcc, lastAcc, discarded>>
    BY <1>15 DEF RestIdle, rest_go_quiet, fifoVars, dongleVars, histVars
  <2>1. TypeOK'
    BY <1>15, <1>t, <2>0, Types, TypesBack, Values
       DEF RestIdle, rest_go_quiet, rest_cancel, RF_Shut
  <2>2. Resting'
    BY <1>15, <2>0
       DEF RestIdle, rest_go_quiet, rest_cancel, Resting, hid_key_held
  <2>3. Queue'
    BY <1>15, <1>t, <2>0, Types, QueueKept DEF RestIdle
  <2>4. OnAir'
    BY <1>15, <1>t, <2>0 DEF RestIdle, rest_go_quiet, RF_Shut, OnAir
  <2>5. Phase'
    BY <1>15 DEF RestIdle, rest_go_quiet, Phase
  <2>6. Newest'
    BY <1>15, <1>t, <2>0 DEF RestIdle, hid_key_held, Newest
  <2> QED
    BY <2>1, <2>2, <2>3, <2>4, <2>5, <2>6 DEF DeliveryInv
<1>16. ASSUME RestProbe PROVE DeliveryInv'
  <2>0. UNCHANGED <<rest_probe_wake, has_bond, discard_hid, hid_fifo,
                    hid_head_sent, hid_last_queued, hid_last_queued_valid,
                    tx_ctrl, response_pending, response_ctrl, dongle,
                    hostKeys, queued, bondGen, sessionAcc, lastAcc,
                    discarded>>
    BY <1>16 DEF RestProbe, fifoVars, dongleVars, histVars
  <2>1. TypeOK'
    BY <1>16, <1>t, <2>0, Types, TypesBack, Values DEF RestProbe, RF_Shut
  <2>2. Resting'
    BY <1>16, <1>t, <2>0 DEF RestProbe, Resting, hid_key_held
  <2>3. Queue'
    BY <1>16, <1>t, <2>0, Types, QueueKept DEF RestProbe
  <2>4. OnAir'
    BY <1>16, <1>t, <2>0 DEF RestProbe, RF_Shut, OnAir
  <2>5. Phase'
    BY <1>16 DEF RestProbe, Phase
  <2>6. Newest'
    BY <1>16, <1>t, <2>0 DEF RestProbe, Newest
  <2> QED
    BY <2>1, <2>2, <2>3, <2>4, <2>5, <2>6 DEF DeliveryInv
<1>17. ASSUME RestProbeTimeout PROVE DeliveryInv'
  <2>0. UNCHANGED <<has_bond, discard_hid, hid_fifo, hid_head_sent,
                    hid_last_queued, hid_last_queued_valid, tx_ctrl,
                    response_ctrl, dongle, hostKeys, queued, bondGen,
                    sessionAcc, lastAcc, discarded>>
    BY <1>17
       DEF RestProbeTimeout, rest_go_quiet, fifoVars, dongleVars, histVars
  <2>1. TypeOK'
    BY <1>17, <1>t, <2>0, Types, TypesBack, Values
       DEF RestProbeTimeout, rest_go_quiet, rest_cancel, RF_Shut
  <2>2. Resting'
    BY <1>17, <1>t, <2>0
       DEF RestProbeTimeout, rest_go_quiet, rest_cancel, Resting, SilentProbe,
           hid_key_held
  <2>3. Queue'
    BY <1>17, <1>t, <2>0, Types, QueueKept DEF RestProbeTimeout
  <2>4. OnAir'
    BY <1>17, <1>t, <2>0 DEF RestProbeTimeout, rest_go_quiet, RF_Shut, OnAir
  <2>5. Phase'
    BY <1>17 DEF RestProbeTimeout, rest_go_quiet, Phase
  <2>6. Newest'
    BY <1>17, <1>t, <2>0
       DEF RestProbeTimeout, rest_go_quiet, Resting, SilentProbe,
           hid_key_held, Newest
  <2> QED
    BY <2>1, <2>2, <2>3, <2>4, <2>5, <2>6 DEF DeliveryInv
<1>18. ASSUME RestProbeDone PROVE DeliveryInv'
  <2>0. UNCHANGED <<has_bond, discard_hid, hid_fifo, hid_head_sent,
                    hid_last_queued, hid_last_queued_valid, tx_ctrl,
                    response_ctrl, dongle, hostKeys, queued, bondGen,
                    sessionAcc, lastAcc, discarded>>
    BY <1>18 DEF RestProbeDone, rest_go_quiet, fifoVars, dongleVars, histVars
  <2>1. TypeOK'
    BY <1>18, <1>t, <2>0, Types, TypesBack, Values
       DEF RestProbeDone, rest_go_quiet, rest_cancel, RF_Shut
  <2>2. Resting'
    BY <1>18, <1>t, <2>0
       DEF RestProbeDone, rest_go_quiet, rest_cancel, Resting, hid_key_held
  <2>3. Queue'
    BY <1>18, <1>t, <2>0, Types, QueueKept DEF RestProbeDone
  <2>4. OnAir'
    BY <1>18, <1>t, <2>0 DEF RestProbeDone, rest_go_quiet, RF_Shut, OnAir
  <2>5. Phase'
    BY <1>18 DEF RestProbeDone, rest_go_quiet, Phase
  <2>6. Newest'
    BY <1>18, <1>t, <2>0 DEF RestProbeDone, Resting, hid_key_held, Newest
  <2> QED
    BY <2>1, <2>2, <2>3, <2>4, <2>5, <2>6 DEF DeliveryInv
<1>19. ASSUME Supervision PROVE DeliveryInv'
  <2>0. UNCHANGED <<has_bond, discard_hid, hid_fifo, hid_last_queued, tx_ctrl,
                    response_ctrl, dongle, hostKeys, queued, bondGen,
                    sessionAcc, lastAcc, discarded>>
    BY <1>19 DEF Supervision, dongleVars, histVars
  <2>1. TypeOK'
    BY <1>19, <1>t, <2>0, Types, TypesBack, Values
       DEF Supervision, rest_cancel, RF_Shut
  <2>2. Resting'
    BY <1>19 DEF Supervision, rest_cancel, Resting, SilentProbe
  <2>3. Queue'
    BY <1>19, <1>t, <2>0, Types, QueueKept DEF Supervision
  <2>4. OnAir'
    BY <1>19 DEF Supervision, RF_Shut, OnAir
  <2>5. Phase'
    BY <1>19 DEF Supervision, Phase
  <2>6. Newest'
    BY <1>19 DEF Supervision, Newest
  <2> QED
    BY <2>1, <2>2, <2>3, <2>4, <2>5, <2>6 DEF DeliveryInv
<1>20. ASSUME PairTimeout PROVE DeliveryInv'
  <2>0. UNCHANGED <<rest_probe, rest_probe_wake, rest_quiet_pending, has_bond,
                    discard_hid, hid_fifo, hid_head_sent, hid_last_queued,
                    hid_last_queued_valid, tx_ctrl, response_pending,
                    response_ctrl, respond, dongle, hostKeys, queued, bondGen,
                    sessionAcc, lastAcc, discarded>>
    BY <1>20
       DEF PairTimeout, restVars, fifoVars, arqVars, dongleVars, histVars
  <2>1. TypeOK'
    BY <1>20, <1>t, <2>0, Types, TypesBack, Values DEF PairTimeout, RF_Shut
  <2>2. Resting'
    BY <1>20, <1>t, <2>0 DEF PairTimeout, Resting, SilentProbe
  <2>3. Queue'
    BY <1>20, <1>t, <2>0, Types, QueueKept DEF PairTimeout
  <2>4. OnAir'
    BY <1>20, <1>t, <2>0 DEF PairTimeout, RF_Shut, OnAir
  <2>5. Phase'
    BY <1>20 DEF PairTimeout, Phase
  <2>6. Newest'
    BY <1>20, <1>t, <2>0 DEF PairTimeout, Newest
  <2> QED
    BY <2>1, <2>2, <2>3, <2>4, <2>5, <2>6 DEF DeliveryInv
<1>21. ASSUME DiscardHid PROVE DeliveryInv'
  <2>0. UNCHANGED <<rf_state, rest_probe, rest_probe_wake, rest_quiet_pending,
                    has_bond, radio, hid_last_queued, hid_last_queued_valid,
                    tx_ctrl, response_pending, response_ctrl, respond, air,
                    dongle, hostKeys, queued, bondGen, sessionAcc, lastAcc>>
    BY <1>21 DEF DiscardHid, linkVars, restVars, arqVars, dongleVars
  <2>c. \/ rf_state = "IDLE" /\ hid_fifo' = <<>> /\ hid_head_sent' = FALSE
             /\ discarded' = (discarded \/ hid_fifo # <<>>)
        \/ rf_state # "IDLE" /\ UNCHANGED <<hid_fifo, hid_head_sent, discarded>>
    BY <1>21 DEF DiscardHid
  <2>1. TypeOK'
    <3>1. hid_fifo' \in Seq(Entry) /\ Len(hid_fifo') <= Slots
      <4>1. CASE hid_fifo' = <<>>
        BY <4>1, SlotsAssumption
      <4>2. CASE UNCHANGED hid_fifo
        BY <1>t, <4>2, Types
      <4> QED
        BY <2>c, <4>1, <4>2
    <3>2. discard_hid' \in BOOLEAN /\ hid_head_sent' \in BOOLEAN
          /\ discarded' \in BOOLEAN
      BY <1>21, <1>t, Types, Zenon DEF DiscardHid
    <3> QED
      BY <3>1, <3>2, <1>t, <2>0, Types, TypesBack
  <2>2. Resting'
    BY <1>t, <2>0, <2>c DEF Resting, SilentProbe, hid_key_held
  <2>3. Queue'
    <3>1. CASE hid_fifo' = <<>>
      BY <3>1, <1>t, <2>0 DEF Queue
    <3>2. CASE UNCHANGED hid_fifo
      BY <3>2, <1>t, <2>0, Types, QueueKept
    <3> QED
      BY <2>c, <3>1, <3>2
  <2>4. OnAir'
    BY <1>t, <2>0, <2>c DEF OnAir
  <2>5. Phase'
    BY <1>t, <2>0, <2>c DEF Phase, Accepted
  <2>6. Newest'
    <3>1. CASE rf_state = "IDLE" /\ discarded' = (discarded \/ hid_fifo # <<>>)
      BY <3>1, <1>t, <2>0 DEF Newest
    <3>2. CASE UNCHANGED <<hid_fifo, discarded>>
      BY <3>2, <1>t, <2>0 DEF Newest
    <3> QED
      BY <2>c, <3>1, <3>2
  <2> QED
    BY <2>1, <2>2, <2>3, <2>4, <2>5, <2>6 DEF DeliveryInv
<1>22. ASSUME FirstHandshake PROVE DeliveryInv'
  <2>0. UNCHANGED <<rf_state, rest_probe, rest_probe_wake, rest_quiet_pending,
                    discard_hid, radio, hid_fifo, hid_head_sent,
                    hid_last_queued, hid_last_queued_valid, tx_ctrl,
                    response_pending, response_ctrl, respond, air, dongle,
                    hostKeys, queued, bondGen, sessionAcc, lastAcc,
                    discarded>>
    BY <1>22
       DEF FirstHandshake, restVars, fifoVars, arqVars, dongleVars, histVars
  <2>1. TypeOK'
    BY <1>22, <1>t, <2>0, Types, TypesBack DEF FirstHandshake
  <2>2. Resting'
    BY <1>22, <1>t, <2>0
       DEF FirstHandshake, Resting, SilentProbe, hid_key_held
  <2>3. Queue'
    BY <1>22, <1>t, <2>0, Types, QueueKept DEF FirstHandshake
  <2>4. OnAir'
    BY <1>22, <1>t, <2>0 DEF FirstHandshake, OnAir
  <2>5. Phase'
    BY <1>22 DEF FirstHandshake, Phase
  <2>6. Newest'
    BY <1>22, <1>t, <2>0 DEF FirstHandshake, Newest
  <2> QED
    BY <2>1, <2>2, <2>3, <2>4, <2>5, <2>6 DEF DeliveryInv
<1>23. ASSUME rf_enter_connected PROVE DeliveryInv'
  <2>0. UNCHANGED <<has_bond, discard_hid, hid_fifo, hid_last_queued,
                    hid_last_queued_valid, response_ctrl, queued, bondGen,
                    lastAcc, discarded>>
    BY <1>23 DEF rf_enter_connected, histVars
  <2>r. \/ rest_cancel
        \/ ~(rest_probe /\ rest_probe_wake) /\ UNCHANGED restVars
    BY <1>23 DEF rf_enter_connected
  <2>d. PICK b \in Bit : dongle' = [up |-> TRUE, bit |-> b, last |-> b]
    BY <1>23 DEF rf_enter_connected
  <2>b. /\ rf_state = "PAIRING" /\ rf_state' = "CONNECTED"
        /\ tx_ctrl' = [ack |-> 0, seq |-> 1]
        /\ hid_head_sent' = FALSE /\ response_pending' = FALSE
        /\ respond' = FALSE
        /\ radio' = "rx" /\ air' = NoAir
        /\ hostKeys' = Released /\ sessionAcc' = 0
    BY <1>23 DEF rf_enter_connected
  <2>1. TypeOK'
    <3>1. rest_probe' \in BOOLEAN /\ rest_probe_wake' \in BOOLEAN
          /\ rest_quiet_pending' \in BOOLEAN
      BY <1>t, <2>r, Types, Zenon DEF rest_cancel, restVars
    <3>2. dongle' \in [up : BOOLEAN, bit : Bit, last : Bit]
      BY <2>d
    <3>3. sessionAcc' \in 0..MaxReports /\ radio' \in {"off", "rx", "tx"}
          /\ rf_state' \in {"IDLE", "PAIRING", "CONNECTED", "RESTING"}
      BY <2>b, BoundsAssumption
    <3>4. tx_ctrl' \in Ctrl /\ hostKeys' \in Report
          /\ air' \in [seq : Bit, entry : Entries, heard : BOOLEAN]
      BY <2>b, Values
    <3>5. hid_head_sent' \in BOOLEAN /\ response_pending' \in BOOLEAN
          /\ respond' \in BOOLEAN
      BY <2>b, Zenon
    <3> QED
      BY <3>1, <3>2, <3>3, <3>4, <3>5, <1>t, <2>0, Types, TypesBack
  <2>2. Resting'
    <3>1. CASE rest_cancel
      BY <3>1, <2>b DEF rest_cancel, Resting, SilentProbe
    <3>2. CASE ~(rest_probe /\ rest_probe_wake) /\ UNCHANGED restVars
      BY <3>2, <1>t, <2>0, <2>b
         DEF restVars, Resting, SilentProbe, hid_key_held
    <3> QED
      BY <2>r, <3>1, <3>2
  <2>3. Queue'
    BY <1>t, <2>0, <2>b, Types, QueueKept
  <2>4. OnAir'
    BY <1>t, <2>b DEF OnAir
  <2>5. Phase'
    <3>1. hid_fifo # <<>> => Head(hid_fifo).id > 0
      BY <1>t, HeadOfQueue
    <3>2. dongle'.bit = b /\ dongle'.last = b /\ tx_ctrl'.ack = 0
          /\ tx_ctrl'.seq = 1
      BY <2>b, <2>d
    <3> QED
      BY <2>0, <2>b, <3>1, <3>2 DEF Phase
  <2>6. Newest'
    BY <1>t, <2>0, <2>b DEF Newest
  <2> QED
    BY <2>1, <2>2, <2>3, <2>4, <2>5, <2>6 DEF DeliveryInv
<1>24. ASSUME DongleLapse PROVE DeliveryInv'
  <2>0. UNCHANGED <<rf_state, rest_probe, rest_probe_wake, rest_quiet_pending,
                    has_bond, discard_hid, radio, hid_fifo, hid_head_sent,
                    hid_last_queued, hid_last_queued_valid, tx_ctrl,
                    response_pending, response_ctrl, respond, air, queued,
                    bondGen, sessionAcc, lastAcc, discarded>>
    BY <1>24 DEF DongleLapse, linkVars, restVars, fifoVars, arqVars, histVars
  <2>1. TypeOK'
    <3>1. /\ dongle' \in [up : BOOLEAN, bit : Bit, last : Bit]
          /\ hostKeys' \in Report
      BY <1>24, <1>t, Types, Values DEF DongleLapse
    <3> QED
      BY <3>1, <1>t, <2>0, Types, TypesBack
  <2>2. Resting'
    BY <1>24, <1>t, <2>0 DEF DongleLapse, Resting, SilentProbe, hid_key_held
  <2>3. Queue'
    BY <1>24, <1>t, <2>0, Types, QueueKept DEF DongleLapse
  <2>4. OnAir'
    BY <1>24, <1>t, <2>0 DEF DongleLapse, OnAir
  <2>5. Phase'
    BY <1>24, <1>t, <2>0 DEF DongleLapse, Phase, Accepted
  <2>6. Newest'
    BY <1>24, <1>t, <2>0 DEF DongleLapse, Newest
  <2> QED
    BY <2>1, <2>2, <2>3, <2>4, <2>5, <2>6 DEF DeliveryInv
<1>25. ASSUME UNCHANGED vars PROVE DeliveryInv'
  <2>0. UNCHANGED <<rf_state, rest_probe, rest_probe_wake, rest_quiet_pending,
                    has_bond, discard_hid, radio, hid_fifo, hid_head_sent,
                    hid_last_queued, hid_last_queued_valid, tx_ctrl,
                    response_pending, response_ctrl, respond, air, dongle,
                    hostKeys, queued, bondGen, sessionAcc, lastAcc,
                    discarded>>
    BY <1>25 DEF vars, linkVars, restVars, fifoVars, arqVars, dongleVars, histVars
  <2>1. TypeOK'
    BY <1>t, <2>0, Types, TypesBack
  <2>2. Resting' /\ OnAir'
    BY <1>t, <2>0 DEF Resting, SilentProbe, hid_key_held, OnAir
  <2>3. Queue'
    BY <1>t, <2>0, Types, QueueKept
  <2>4. Phase' /\ Newest'
    BY <1>t, <2>0 DEF Phase, Accepted, Newest
  <2> QED
    BY <2>1, <2>2, <2>3, <2>4 DEF DeliveryInv
<1> QED
  BY <1>1, <1>2, <1>3, <1>4, <1>5, <1>6, <1>7, <1>8, <1>9, <1>10, <1>11,
     <1>12, <1>13, <1>14, <1>15, <1>16, <1>17, <1>18, <1>19, <1>20, <1>21,
     <1>22, <1>23, <1>24, <1>25
     DEF Next, Command, Exchange, Timer

LEMMA DeliveryInit == Init => DeliveryInv
<1> SUFFICES ASSUME Init PROVE DeliveryInv
  OBVIOUS
<1>1. TypeOK
  <2>1. /\ rf_state \in {"IDLE", "PAIRING", "CONNECTED", "RESTING"}
        /\ radio \in {"off", "rx", "tx"}
        /\ hid_fifo \in Seq(Entry) /\ Len(hid_fifo) <= Slots
        /\ hid_last_queued \in Report /\ hostKeys \in Report
        /\ tx_ctrl \in Ctrl /\ response_ctrl \in Ctrl
    BY SlotsAssumption, Values DEF Init
  <2>2. /\ air \in [seq : Bit, entry : Entry \cup {NoEntry}, heard : BOOLEAN]
        /\ dongle \in [up : BOOLEAN, bit : Bit, last : Bit]
    BY Values DEF Init, Entries
  <2>3. /\ queued \in 0..MaxReports /\ bondGen \in 0..MaxUnpairs
        /\ sessionAcc \in 0..MaxReports /\ lastAcc \in 0..MaxReports
    BY BoundsAssumption DEF Init
  <2>4. {rest_probe, rest_probe_wake, rest_quiet_pending, has_bond, discard_hid,
         hid_head_sent, hid_last_queued_valid, response_pending, respond,
         discarded} \subseteq BOOLEAN
    BY Zenon DEF Init
  <2> QED
    BY <2>1, <2>2, <2>3, <2>4, Zenon DEF TypeOK
<1>2. Resting
  BY DEF Init, Resting, hid_key_held
<1>3. Queue
  BY Values DEF Init, Queue
<1>4. OnAir /\ Phase
  BY DEF Init, OnAir, Phase
<1>5. Newest
  BY DEF Init, Newest
<1> QED
  BY <1>1, <1>2, <1>3, <1>4, <1>5 DEF DeliveryInv

LEMMA Always == Spec => []DeliveryInv
BY DeliveryInit, DeliveryStep, PTL DEF Spec

-----------------------------------------------------------------------------
(* What the invariant gives.                                                 *)

\* Every variable keeps its type and the FIFO its length: nothing overruns the
\* HID_FIFO_SLOTS slots of rf_task.c whatever is queued, retired or discarded.
THEOREM DeliveryTypes == Spec => []TypeOK
<1>1. DeliveryInv => TypeOK
  BY DEF DeliveryInv
<1> QED
  BY <1>1, Always, PTL

\* The link never rests on a queued report or on a held key (rf_task.c,
\* RF_EVT_REST_IDLE, the probe's quiet request and its wake).
THEOREM RestStrandsNothingAlways == Spec => []RestStrandsNothing
<1>1. DeliveryInv => RestStrandsNothing
  BY DEF DeliveryInv, Resting, RestStrandsNothing
<1> QED
  BY <1>1, Always, PTL

\* On a drained session the host has the newest report that was not discarded
\* (rf_task.c, the dedup of RF_QueueHIDReport).
THEOREM HostHasNewestAlways == Spec => []HostHasNewest
<1>1. DeliveryInv => HostHasNewest
  BY DEF DeliveryInv, Newest, HostHasNewest, Drained
<1> QED
  BY <1>1, Always, PTL

\* What the dongle takes as new is the head of the FIFO, sent in a phase that
\* it had not accepted before.
LEMMA GivenIsHead ==
  ASSUME DeliveryInv, DongleHear, dongle' # dongle, air.entry.id # 0
  PROVE  /\ hid_fifo # <<>> /\ air.entry = Head(hid_fifo)
         /\ hid_head_sent /\ ~Accepted /\ rf_state = "CONNECTED"
         /\ lastAcc' = air.entry.id
         /\ UNCHANGED <<hid_fifo, queued, bondGen>>
<1>1. TypeOK /\ OnAir /\ Phase
  BY DEF DeliveryInv
<1>2. /\ radio = "tx" /\ air.seq # dongle.last /\ lastAcc' = air.entry.id
      /\ UNCHANGED <<hid_fifo, queued, bondGen>>
  BY DEF DongleHear, fifoVars, histVars
<1>3. /\ rf_state = "CONNECTED" /\ hid_head_sent /\ hid_fifo # <<>>
      /\ air.entry = Head(hid_fifo) /\ air.seq = tx_ctrl.seq
  BY <1>1, <1>2 DEF OnAir
<1>4. air.seq = 1 - tx_ctrl.ack /\ dongle.bit = dongle.last
  BY <1>1, <1>3 DEF Phase
<1>5. tx_ctrl.ack \in Bit /\ dongle.bit \in Bit
  BY <1>1, Types DEF Ctrl
<1>6. ~Accepted
  BY <1>2, <1>4, <1>5 DEF Bit, Accepted
<1> QED
  BY <1>2, <1>3, <1>6

\* No report reaches the host twice in a session, none overtakes an earlier
\* one, and no session goes back behind the last one accepted (rf_task.c, the
\* head is the only entry that is sent and the control bits retire it once).
THEOREM AcceptedInOrderAlways == Spec => AcceptedInOrder
<1>1. DeliveryInv /\ [Next]_vars =>
        [DongleHear /\ dongle' # dongle /\ air.entry.id # 0
           => air.entry.id > sessionAcc /\ air.entry.id >= lastAcc]_vars
  <2> SUFFICES ASSUME DeliveryInv,
                      DongleHear, dongle' # dongle, air.entry.id # 0
               PROVE  air.entry.id > sessionAcc /\ air.entry.id >= lastAcc
    OBVIOUS
  <2>1. /\ hid_fifo # <<>> /\ air.entry = Head(hid_fifo)
        /\ ~Accepted /\ rf_state = "CONNECTED"
    BY GivenIsHead
  <2>2. TypeOK /\ Phase /\ Queue
    BY DEF DeliveryInv
  <2>3. Head(hid_fifo).id > sessionAcc
    BY <2>1, <2>2 DEF Phase
  <2>4. lastAcc <= Head(hid_fifo).id
    BY <2>1, <2>2 DEF Queue
  <2> QED
    BY <2>1, <2>3, <2>4
<1> QED
  BY <1>1, Always, PTL DEF Spec, AcceptedInOrder

\* A report queued under one bond is never typed out under another (rf_task.c,
\* RF_ClearBond discards the queue before a new bond can exist).
THEOREM NoCrossDeliveryAlways == Spec => NoCrossDelivery
<1>1. DeliveryInv /\ [Next]_vars =>
        [DongleHear /\ dongle' # dongle /\ air.entry.id # 0
           => air.entry.gen = bondGen]_vars
  <2> SUFFICES ASSUME DeliveryInv,
                      DongleHear, dongle' # dongle, air.entry.id # 0
               PROVE  air.entry.gen = bondGen
    OBVIOUS
  <2>1. hid_fifo # <<>> /\ air.entry = Head(hid_fifo)
    BY GivenIsHead
  <2>2. Head(hid_fifo).gen = bondGen
    BY <2>1, HeadIsOfBond
  <2> QED
    BY <2>1, <2>2
<1> QED
  BY <1>1, Always, PTL DEF Spec, NoCrossDelivery

-----------------------------------------------------------------------------
(* The refinement: every step is a step of the report channel or leaves it   *)
(* alone.                                                                    *)

\* The steps that touch neither the queue nor what the host was given.
LEMMA Stutters ==
  ASSUME \/ SelectOther \/ Disconnect \/ RF_Select2G4 \/ RF_EnterPairing
         \/ TxFinish \/ TxFail \/ StartRx \/ ReleaseResponse
         \/ RestIdle \/ RestProbe \/ RestProbeTimeout \/ RestProbeDone
         \/ Supervision \/ PairTimeout \/ FirstHandshake
         \/ rf_enter_connected \/ DongleLapse
         \/ \E started \in BOOLEAN : rf_do_response_tx(started)
  PROVE  UNCHANGED <<hid_fifo, queued, bondGen, lastAcc>>
BY DEF SelectOther, Disconnect, RF_Disconnect, RF_Select2G4, RF_EnterPairing,
       TxFinish, TxFail, StartRx, ReleaseResponse, RestIdle, RestProbe,
       RestProbeTimeout, RestProbeDone, rest_go_quiet, Supervision, PairTimeout,
       FirstHandshake, rf_enter_connected, DongleLapse, rf_do_response_tx,
       fifoVars, dongleVars, histVars

\* A changed report is queued, a repeat of the newest is not.
LEMMA QueuesOnce ==
  ASSUME DeliveryInv, NEW r \in Report, RF_QueueHIDReport(r)
  PROVE  Channel!Queue(r) \/ UNCHANGED <<hid_fifo, queued, bondGen, lastAcc>>
<1>1. UNCHANGED <<bondGen, lastAcc>>
  BY DEF RF_QueueHIDReport, dongleVars
<1>2. CASE ~changed(r)
  BY <1>1, <1>2 DEF RF_QueueHIDReport
<1>3. CASE changed(r)
  <2>1. /\ queued' = queued + 1
        /\ hid_fifo' = IF Len(hid_fifo) < Slots
                         THEN Append(hid_fifo, Channel!Entry(r))
                         ELSE [hid_fifo EXCEPT
                                 ![Len(hid_fifo)] = Channel!Entry(r)]
    BY <1>3 DEF RF_QueueHIDReport, enqueue, Channel!Entry
  <2>2. Len(hid_fifo) \in Nat /\ Len(hid_fifo) <= Slots
    BY Types DEF DeliveryInv
  <2>3. Len(hid_fifo) < Slots \/ (Len(hid_fifo) = Slots /\ Len(hid_fifo) > 1)
    BY <2>2, SlotsAssumption
  <2> QED
    BY <1>1, <2>1, <2>3 DEF Channel!Queue
<1> QED
  BY <1>2, <1>3

\* A poll retires the head only when the host has it.
LEMMA RetiresAccepted ==
  ASSUME DeliveryInv, Poll
  PROVE  Channel!Retire \/ UNCHANGED <<hid_fifo, queued, bondGen, lastAcc>>
<1>1. UNCHANGED <<queued, bondGen, lastAcc>>
  BY DEF Poll, PollRetiring, dongleVars, histVars
<1>2. /\ rf_state = "CONNECTED"
      /\ hid_fifo' = IF hid_head_sent /\ Accepted /\ hid_fifo # <<>>
                       THEN Tail(hid_fifo) ELSE hid_fifo
  BY DEF Poll, PollRetiring, Accepted
<1>3. CASE hid_head_sent /\ Accepted /\ hid_fifo # <<>>
  <2>1. Head(hid_fifo).id = lastAcc
    BY <1>2, <1>3 DEF DeliveryInv, Phase
  <2> QED
    BY <1>1, <1>2, <2>1 DEF Channel!Retire
<1>4. CASE ~(hid_head_sent /\ Accepted /\ hid_fifo # <<>>)
  BY <1>1, <1>2, <1>4
<1> QED
  BY <1>3, <1>4

\* The dongle gives the host the head, of the bond it was queued for, or
\* nothing.
LEMMA GivesHead ==
  ASSUME DeliveryInv, DongleHear
  PROVE  Channel!Give \/ UNCHANGED <<hid_fifo, queued, bondGen, lastAcc>>
<1>1. CASE dongle' # dongle /\ air.entry.id # 0
  <2>1. /\ hid_fifo # <<>> /\ air.entry = Head(hid_fifo)
        /\ lastAcc' = air.entry.id
        /\ UNCHANGED <<hid_fifo, queued, bondGen>>
    BY <1>1, GivenIsHead
  <2>2. Head(hid_fifo).gen = bondGen
    BY <2>1, HeadIsOfBond
  <2> QED
    BY <2>1, <2>2 DEF Channel!Give
<1>2. CASE air.entry.id = 0
  BY <1>2 DEF DongleHear, fifoVars, histVars
<1>3. CASE dongle' = dongle /\ air.entry.id # 0
  <2>1. air.seq # dongle.last =>
          dongle' = [dongle EXCEPT !.bit = 1 - @, !.last = air.seq]
    BY DEF DongleHear
  <2>2. dongle \in [up : BOOLEAN, bit : Bit, last : Bit]
    BY Types DEF DeliveryInv
  <2>3. air.seq # dongle.last => dongle'.last # dongle.last
    BY <2>1, <2>2
  <2>4. air.seq = dongle.last
    BY <1>3, <2>3
  <2> QED
    BY <2>4 DEF DongleHear, fifoVars, histVars
<1> QED
  BY <1>1, <1>2, <1>3

LEMMA Discards ==
  ASSUME DiscardHid
  PROVE  Channel!Discard \/ UNCHANGED <<hid_fifo, queued, bondGen, lastAcc>>
BY DEF DiscardHid, Channel!Discard, dongleVars

LEMMA ClearsBond ==
  ASSUME Unpair \/ FactoryPair
  PROVE  Channel!NewBond
BY DEF Unpair, FactoryPair, RF_Disconnect, RF_ClearBond, Channel!NewBond,
       dongleVars

\* The FIFO, the control bits and every link transition implement the report
\* channel (ReportChannel): what is queued is given in order, under its bond,
\* and leaves the queue only when the host has it or when all of it is
\* discarded.
THEOREM ReportChannelImplemented == Spec => ImplementsReportChannel
<1>1. Init => Channel!Init
  BY DEF Init, Channel!Init
<1>2. DeliveryInv /\ [Next]_vars => [Channel!Next]_(Channel!vars)
  <2> SUFFICES ASSUME DeliveryInv, [Next]_vars
               PROVE  Channel!Next \/ UNCHANGED Channel!vars
    OBVIOUS
  <2>0. UNCHANGED <<hid_fifo, queued, bondGen, lastAcc>>
          => UNCHANGED Channel!vars
    BY DEF Channel!vars
  <2>1. ASSUME NEW r \in Report, RF_QueueHIDReport(r)
        PROVE  Channel!Next \/ UNCHANGED Channel!vars
    BY <2>0, <2>1, QueuesOnce DEF Channel!Next
  <2>2. CASE Poll
    BY <2>0, <2>2, RetiresAccepted DEF Channel!Next
  <2>3. CASE DongleHear
    BY <2>0, <2>3, GivesHead DEF Channel!Next
  <2>4. CASE DiscardHid
    BY <2>0, <2>4, Discards DEF Channel!Next
  <2>5. CASE Unpair \/ FactoryPair
    BY <2>5, ClearsBond DEF Channel!Next
  <2>6. CASE \/ SelectOther \/ Disconnect \/ RF_Select2G4 \/ RF_EnterPairing
             \/ TxFinish \/ TxFail \/ StartRx \/ ReleaseResponse
             \/ RestIdle \/ RestProbe \/ RestProbeTimeout \/ RestProbeDone
             \/ Supervision \/ PairTimeout \/ FirstHandshake
             \/ rf_enter_connected \/ DongleLapse
             \/ \E started \in BOOLEAN : rf_do_response_tx(started)
    BY <2>0, <2>6, Stutters
  <2>7. CASE UNCHANGED vars
    BY <2>0, <2>7 DEF vars, fifoVars, dongleVars, histVars
  <2> QED
    BY <2>1, <2>2, <2>3, <2>4, <2>5, <2>6, <2>7
       DEF Next, Command, Exchange, Timer
<1> QED
  BY <1>1, <1>2, Always, PTL DEF Spec, ImplementsReportChannel, Channel!Spec
=============================================================================
