------------------------------ MODULE Forensics ------------------------------
(***************************************************************************)
(* The crash record of firmware/src/power_sleep.c and diag_dump.c: counters  *)
(* that a reset does not clear (.diag_safe.power).  After a watchdog reset   *)
(* they are frozen, so that the host can read what led to it, until they     *)
(* have been dumped (A6 71) or zeroed (A6 72).                               *)
(*                                                                         *)
(* The counters that HAL_SleepInit keeps are one number.  A dump is a frame   *)
(* of Bytes bytes, sent one by one; a byte that finds the UART blocked ends   *)
(* it.  A reset may come at any byte.  The UART empties itself long before    *)
(* the watchdog can bite, so a byte handed to it has been sent.              *)
(***************************************************************************)
EXTENDS Naturals

CONSTANTS Width,     \* 2^16
          Bytes,     \* DIAG_FRAME_MAX
          Refusal,   \* the empty frame's length
          NoRecord   \* no crash record waits to be read

\* What is assumed of the constants.
ForensicsAssumption ==
  /\ Width \in Nat \ {0} /\ Bytes \in Nat /\ Refusal \in Nat
  /\ 0 < Refusal /\ Refusal < Bytes
  /\ NoRecord \notin Nat

VARIABLES
  counters,               \* the counters of .diag_safe.power
  pwr_forensics_frozen,
  connected,              \* RF_GetState() = RF_STATE_CONNECTED
  frame,                  \* the snapshot being dumped, NoRecord if refused
  sent,                   \* its bytes sent so far; Bytes + 1 outside of a dump
  record                  \* the counters at the crash, until read (history)

vars == <<counters, pwr_forensics_frozen, connected, frame, sent, record>>

dumping == sent <= Bytes
length == IF frame = NoRecord THEN Refusal ELSE Bytes
NoDump == sent' = Bytes + 1 /\ frame' = NoRecord

Init ==
  /\ counters = 0 /\ pwr_forensics_frozen = FALSE /\ connected = FALSE
  /\ frame = NoRecord /\ sent = Bytes + 1 /\ record = NoRecord
-----------------------------------------------------------------------------
(* PWR_DIAG_INC and its kin, pass by pass and sleep by sleep.                *)
Count ==
  /\ ~dumping /\ ~pwr_forensics_frozen
  /\ counters' = (counters + 1) % Width
  /\ UNCHANGED <<pwr_forensics_frozen, connected, frame, sent, record>>

LinkChanges ==
  /\ ~dumping
  /\ connected' = ~connected
  /\ UNCHANGED <<counters, pwr_forensics_frozen, frame, sent, record>>

(* DiagDump_Send: the snapshot, or a refusal while connected ...             *)
DumpStart ==
  /\ ~dumping
  /\ frame' = IF connected THEN NoRecord ELSE counters
  /\ sent' = 0
  /\ UNCHANGED <<counters, pwr_forensics_frozen, connected, record>>

KeyboardUart_SendRaw ==
  /\ dumping /\ sent < length
  /\ sent' = sent + 1
  /\ UNCHANGED <<counters, pwr_forensics_frozen, connected, frame, record>>

(* ... and the thaw, if all of a snapshot went out.                          *)
DumpEnd ==
  /\ dumping
  /\ LET read == frame # NoRecord /\ sent = length
     IN /\ pwr_forensics_frozen' = (pwr_forensics_frozen /\ ~read)
        /\ record' = IF read THEN NoRecord ELSE record
  /\ NoDump
  /\ UNCHANGED <<counters, connected>>

DiagDump_Zero ==
  /\ ~dumping /\ ~connected
  /\ counters' = 0 /\ pwr_forensics_frozen' = FALSE /\ record' = NoRecord
  /\ UNCHANGED <<connected, frame, sent>>

(* A reset, and HAL_SleepInit: a watchdog's keeps the counters, and the      *)
(* record of an earlier crash that is still unread.  The flag itself is in   *)
(* .bss.                                                                     *)
Reset(watchdog) ==
  /\ pwr_forensics_frozen' = watchdog
  /\ counters' = IF watchdog THEN counters ELSE 0
  /\ record' = IF ~watchdog THEN NoRecord
               ELSE IF record = NoRecord THEN counters ELSE record
  /\ connected' = FALSE
  /\ NoDump

Next ==
  \/ Count \/ LinkChanges
  \/ DumpStart \/ KeyboardUart_SendRaw \/ DumpEnd
  \/ DiagDump_Zero
  \/ \E watchdog \in BOOLEAN : Reset(watchdog)

Spec == Init /\ [][Next]_vars
-----------------------------------------------------------------------------
TypeOK ==
  /\ counters \in 0..(Width - 1)
  /\ pwr_forensics_frozen \in BOOLEAN /\ connected \in BOOLEAN
  /\ frame \in 0..(Width - 1) \cup {NoRecord}
  /\ record \in 0..(Width - 1) \cup {NoRecord}
  /\ sent \in 0..(Bytes + 1)

(* The counters of a crash stay as they were until the host has read all of  *)
(* them, whatever dumps are refused, cut short or ended by a watchdog reset  *)
(* (any other reset drops them), and a dump under way shows them             *)
(* (diag_dump.c, DiagDump_Send: "the pre-crash counters are not lost         *)
(* unread").                                                                 *)
RecordUntilRead ==
  record # NoRecord =>
    counters = record /\ (dumping => frame \in {record, NoRecord})

(* The counters stand still only for a record that waits to be read: they    *)
(* run again after a dump, a zero and any other reset (power_sleep.c,        *)
(* HAL_SleepInit, and diag_dump.c, the thaws).                               *)
FrozenForRecord == pwr_forensics_frozen => record # NoRecord
=============================================================================
