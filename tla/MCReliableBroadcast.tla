------------------------ MODULE MCReliableBroadcast ------------------------
(***************************************************************************)
(* Instances of ReliableBroadcast for TLC: four nodes, one of them faulty. *)
(***************************************************************************)
EXTENDS ReliableBroadcast, TLC

CONSTANTS n1, n2, n3, n4, a, b

VAL(s, d, r)   == [tag |-> "VAL", src |-> s, dst |-> d, root |-> r, leaf |-> d]
ECHO(s, r, l)  == [tag |-> "ECHO", src |-> s, root |-> r, leaf |-> l]
READY(s, r)    == [tag |-> "READY", src |-> s, root |-> r]

\* A faulty leader n4 that sends two values: a to n1 and n2, b to n3, and backs
\* either with its own ECHO, b with a READY, and a with an ECHO that carries the
\* stripe of n1.
Equivocation ==
  {VAL(n4, n1, a), VAL(n4, n2, a), VAL(n4, n3, b),
   ECHO(n4, a, n4), ECHO(n4, a, n1), ECHO(n4, b, n4), READY(n4, b)}

\* A faulty follower n4 of a leader n1 that is given a: it forges a VAL and a
\* READY for b and sends a stripe that is not its own for a; it need not send any.
Forgery ==
  {VAL(n4, n2, b), ECHO(n4, a, n1), READY(n4, b)}

\* A faulty leader n4 that leaves n3 out and helps n1 and n2 just enough.
Omission ==
  {VAL(n4, n1, a), VAL(n4, n2, a), ECHO(n4, a, n4), READY(n4, a)}

SymmetryEquivocation == Permutations({n1, n2})
=============================================================================
