----------------------------- MODULE LatestValue -----------------------------
(***************************************************************************)
(* What the threads of the bridge take a latest-value buffer for: one      *)
(* register that is published to and read in single steps.  Values are     *)
(* numbered in the order of publication.                                   *)
(***************************************************************************)
EXTENDS Naturals

CONSTANT Readers

VARIABLES
  value, \* the newest value
  taken  \* what each reader has last taken

Init == value = 0 /\ taken = [r \in Readers |-> 0]

Publish == value' = value + 1 /\ UNCHANGED taken

Take(r) == taken' = [taken EXCEPT ![r] = value] /\ UNCHANGED value

Next == Publish \/ \E r \in Readers : Take(r)

Spec == Init /\ [][Next]_<<value, taken>>
=============================================================================
