------------------------------ MODULE MCSleepCtl ------------------------------
(***************************************************************************)
(* SleepCtl with a holdoff of one tick, long enough to be running or over.  *)
(* Every frame kind is sent, and frames follow each other within one pass.  *)
(***************************************************************************)
EXTENDS SleepCtl
===============================================================================
