------------------------------ MODULE MCRfLink ------------------------------
(***************************************************************************)
(* RfLink on a small instance.  Nothing in the module is unbounded: two      *)
(* dongles suffice for a catch or a record of one to outlive the bond and    *)
(* meet the other's.                                                        *)
(***************************************************************************)
EXTENDS RfLink
=============================================================================
