----------------------------- MODULE Broadcast -----------------------------
(***************************************************************************)
(* What reliablebroadcast.py promises to the code that calls it, without   *)
(* its messages: one root is fixed, once, and every correct node that      *)
(* returns, returns it. When the leader is correct the root is the one of  *)
(* its input. commonsubset.py relies on nothing else: a node that has the  *)
(* value may vote for it, because the others will get the same value.      *)
(***************************************************************************)
EXTENDS FiniteSets

CONSTANTS Node, Faulty, leader, Root, Codeword, None

Correct == Node \ Faulty

VARIABLES input, chosen, output

vars == <<input, chosen, output>>

Init ==
  /\ input  = None
  /\ chosen = None
  /\ output = [i \in Correct |-> None]

Give(r) ==
  /\ leader \in Correct
  /\ input = None
  /\ input' = r
  /\ UNCHANGED <<chosen, output>>

Choose(r) ==
  /\ chosen = None
  /\ leader \in Correct => r = input
  /\ chosen' = r
  /\ UNCHANGED <<input, output>>

\* The decoding of a root either succeeds at every node or fails at every node.
Deliver(i) ==
  /\ chosen # None
  /\ output[i] = None
  /\ output' = [output EXCEPT ![i] = [root |-> chosen, ok |-> chosen \in Codeword]]
  /\ UNCHANGED <<input, chosen>>

Next ==
  \/ \E r \in Codeword : Give(r)
  \/ \E r \in Root : Choose(r)
  \/ \E i \in Correct : Deliver(i)

Spec == Init /\ [][Next]_vars

\* All or nothing: a correct node is bound to deliver once another one has, and
\* in any case when the leader is correct and has its input.
Bound == (\E i \in Correct : output[i] # None) \/ (leader \in Correct /\ input # None)

FairSpec ==
  /\ Spec
  /\ WF_vars(leader \in Correct /\ input # None /\ \E r \in Root : Choose(r))
  /\ \A i \in Correct : WF_vars(Bound /\ Deliver(i))
=============================================================================
