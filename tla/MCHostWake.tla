----------------------------- MODULE MCHostWake -----------------------------
(***************************************************************************)
(* HostWake on a small instance: a queue of two, two LED states so that a   *)
(* value can be overtaken by a newer one, and a resend (two attempts).      *)
(***************************************************************************)
EXTENDS HostWake
=============================================================================
