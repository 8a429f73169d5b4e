---------------------------- MODULE FrameChannel ----------------------------
(***************************************************************************)
(* What the UART receiver promises whoever handles host frames: a frame is  *)
(* dispatched only if its bytes were sent one after the other and none of   *)
(* them is missing, in the order of the wire, and no byte counts twice.     *)
(* Nothing is promised about frames that are not dispatched.                *)
(***************************************************************************)
EXTENDS Integers, Sequences

CONSTANTS Bytes,   \* the values of a byte
          Frames   \* the byte sequences frame_is_valid accepts

VARIABLES wire,       \* the bytes sent so far
          delivered   \* the stretches of it dispatched as frames

vars == <<wire, delivered>>

Init == wire = <<>> /\ delivered = {}

Send == /\ \E b \in Bytes : wire' = Append(wire, b)
        /\ UNCHANGED delivered

Deliver(first, last) ==
  /\ \A d \in delivered : d[2] < first
  /\ SubSeq(wire, first, last) \in Frames
  /\ delivered' = delivered \cup {<<first, last>>}
  /\ UNCHANGED wire

Next ==
  \/ Send
  \/ \E first, last \in 1..Len(wire) : first <= last /\ Deliver(first, last)

Spec == Init /\ [][Next]_vars
=============================================================================
