------------------------- MODULE MCHoneyBadgerBlock -------------------------
(***************************************************************************)
(* Four nodes, n4 faulty. The proposals of n1 and n2 are in at every node  *)
(* before those of n3 and n4 get anywhere, which leaves the interesting    *)
(* part of a round: two instances that race for the third 1 that gives     *)
(* zeros to the other.                                                     *)
(***************************************************************************)
EXTENDS HoneyBadgerBlock

CONSTANTS n1, n2, n3, n4

TwoIn == \A i \in Correct : {n1, n2} \subseteq aba_ended[i]

\* Before that, the nodes take their steps one after the other: only the order of
\* what follows makes a difference.
InTurn(heard) ==
  /\ heard[n2] # {} => TwoIn \/ {n1, n2} \subseteq heard[n1]
  /\ heard[n3] # {} => {n1, n2} \subseteq heard[n2]
  /\ \A i \in Correct : n2 \in heard[i] => n1 \in heard[i]

TwoFirst ==
  \/ TwoIn
  \/ /\ fixed'[n4] = None
     /\ \A i \in Correct : fixed'[i] = None => \A k \in Correct : rbc_values'[k] = {}
     /\ n2 \in rbc_values'[n3] \/ decision' = [j \in Node |-> None]
     /\ \A j \in {n3, n4} : decision'[j] = None
     /\ \A i \in Correct : rbc_values'[i] \subseteq {n1, n2}
     /\ InTurn(rbc_values')
     /\ InTurn(aba_ended')
=============================================================================
