---------------------------- MODULE MCHidDelivery ----------------------------
(***************************************************************************)
(* HidDelivery on a small instance: one key, a FIFO of two so that it fills  *)
(* and coalesces, three reports, one bond clear.                            *)
(***************************************************************************)
EXTENDS HidDelivery
==============================================================================
