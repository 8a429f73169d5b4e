------------------------------- MODULE MCHop --------------------------------
(***************************************************************************)
(* Hop with three channels and a counter that wraps every few slots.        *)
(***************************************************************************)
EXTENDS Hop
=============================================================================
