----------------------------- MODULE MCRtcTime ------------------------------
(***************************************************************************)
(* RtcTime over a counter of a few dozen ticks, run through two wraps.      *)
(***************************************************************************)
EXTENDS RtcTime
=============================================================================
