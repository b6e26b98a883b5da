------------------------------ MODULE BoundedLog ------------------------------
(***************************************************************************)
(* What a trace recorder promises for each of its files: the rows are the  *)
(* samples that were accepted, in the order of their time, and a sample is *)
(* refused only when as many as the queue holds still wait for their row.  *)
(* A producer is never made to wait.                                       *)
(***************************************************************************)
EXTENDS Naturals, Sequences

CONSTANTS
  Producers,
  Capacity,   \* of the queue of each
  Samples     \* the times at which a sample may be taken

VARIABLES
  accepted, \* the samples accepted, by the times they were taken
  rows,     \* the samples in the file
  dropped   \* how many were refused

vars == <<accepted, rows, dropped>>

Init ==
  /\ accepted = [p \in Producers |-> <<>>]
  /\ rows = [p \in Producers |-> <<>>]
  /\ dropped = [p \in Producers |-> 0]

Waiting(p) == Len(accepted[p]) - Len(rows[p])

Accept(p, s) ==
  /\ \A i \in DOMAIN accepted[p] : accepted[p][i] < s
  /\ accepted' = [accepted EXCEPT ![p] = Append(accepted[p], s)]
  /\ UNCHANGED <<rows, dropped>>

Refuse(p) ==
  /\ Waiting(p) >= Capacity[p]
  /\ dropped' = [dropped EXCEPT ![p] = dropped[p] + 1]
  /\ UNCHANGED <<accepted, rows>>

Log(p) ==
  /\ Waiting(p) > 0
  /\ rows' = [rows EXCEPT ![p] = Append(rows[p], accepted[p][Len(rows[p]) + 1])]
  /\ UNCHANGED <<accepted, dropped>>

Next == \E p \in Producers : Refuse(p) \/ Log(p) \/ \E s \in Samples : Accept(p, s)

Spec == Init /\ [][Next]_vars
=============================================================================
