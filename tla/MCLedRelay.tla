----------------------------- MODULE MCLedRelay -----------------------------
(***************************************************************************)
(* LedRelay with three LED bytes: the last one sent, a change, and a third.  *)
(***************************************************************************)
EXTENDS LedRelay
=============================================================================
