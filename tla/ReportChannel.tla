---------------------------- MODULE ReportChannel ----------------------------
(***************************************************************************)
(* What report delivery promises: the host is given the reports of its own  *)
(* bond in the order they were queued, a report leaves the queue only when  *)
(* the host has it, and on a full queue the newest report takes the place   *)
(* of the one before it, never of the one the host may be receiving.  A     *)
(* queue may be discarded as a whole.  The host may be given the oldest      *)
(* report again (a new session).                                            *)
(***************************************************************************)
EXTENDS Naturals, Sequences

CONSTANTS Report,  \* reports
          Slots    \* the length of the queue

VARIABLES queue,   \* records of a report, its number and its bond
          count,   \* reports queued so far
          bond,    \* the number of the current bond
          given    \* the number of the report the host was last given

vars == <<queue, count, bond, given>>

Init == queue = <<>> /\ count = 0 /\ bond = 0 /\ given = 0

Entry(r) == [id |-> count + 1, report |-> r, gen |-> bond]

Queue(r) ==
  /\ \/ Len(queue) < Slots /\ queue' = Append(queue, Entry(r))
     \/ Len(queue) = Slots /\ Len(queue) > 1
          /\ queue' = [queue EXCEPT ![Len(queue)] = Entry(r)]
  /\ count' = count + 1
  /\ UNCHANGED <<bond, given>>

Give ==
  /\ queue # <<>> /\ Head(queue).gen = bond
  /\ given' = Head(queue).id
  /\ UNCHANGED <<queue, count, bond>>

Retire ==
  /\ queue # <<>> /\ Head(queue).id = given
  /\ queue' = Tail(queue)
  /\ UNCHANGED <<count, bond, given>>

Discard == queue' = <<>> /\ UNCHANGED <<count, bond, given>>

NewBond == queue' = <<>> /\ bond' = bond + 1 /\ UNCHANGED <<count, given>>

Next == (\E r \in Report : Queue(r)) \/ Give \/ Retire \/ Discard \/ NewBond

Spec == Init /\ [][Next]_vars
=============================================================================
