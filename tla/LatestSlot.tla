----------------------------- MODULE LatestSlot -----------------------------
(***************************************************************************)
(* What host wake promises the LED relay: a slot for the newest value.  It   *)
(* may skip values and take its time, and the host may see older values      *)
(* meanwhile; but when it is done with the slot, the host has the newest     *)
(* value or a loss is on record until the owner sets a value again.          *)
(***************************************************************************)
CONSTANTS Led,     \* LED states
          NoFrame  \* none yet

VARIABLES val,    \* the newest value set
          busy,   \* it, or an older one, is still on its way
          host,   \* what the host shows
          lost,   \* a value was given up and the owner has yet to be told
          owed    \* the owner was told and has yet to set a value

vars == <<val, busy, host, lost, owed>>

Init ==
  /\ val = NoFrame /\ host = NoFrame
  /\ busy = FALSE /\ lost = FALSE /\ owed = FALSE

Set(v) ==
  /\ val' = v /\ busy' = TRUE /\ owed' = FALSE
  /\ UNCHANGED <<host, lost>>

Take ==
  /\ lost
  /\ lost' = FALSE /\ owed' = TRUE
  /\ UNCHANGED <<val, busy, host>>

\* A copy arrives, of a value given up too.
HostGets ==
  /\ busy \/ lost \/ owed
  /\ host' \in Led
  /\ UNCHANGED <<val, busy, lost, owed>>

Finish ==
  /\ busy /\ busy' = FALSE
  /\ lost' \in {lost, TRUE} /\ (host = val \/ lost')
  /\ UNCHANGED <<val, host, owed>>

Next == (\E v \in Led : Set(v)) \/ Take \/ HostGets \/ Finish

Spec == Init /\ [][Next]_vars
=============================================================================
