----------------------------- MODULE AgreedBit -----------------------------
(***************************************************************************)
(* What binaryagreement.py promises to the code that calls it, without its *)
(* rounds and its coin: the nodes that decide, decide the same bit, which  *)
(* one of them has been given; each decides once, after its own input, and *)
(* not before N-f nodes take part. commonsubset.py relies on nothing else  *)
(* for its safety.                                                         *)
(***************************************************************************)
EXTENDS Integers, FiniteSets

CONSTANTS Node, Faulty, f, None

Correct == Node \ Faulty
Bit     == {0, 1}

VARIABLES
  input,   \* per correct node: the bit it was given, or None
  decided  \* per correct node: the bit it has decided, or None

vars == <<input, decided>>

Init ==
  /\ input   = [i \in Correct |-> None]
  /\ decided = [i \in Correct |-> None]

Give(i, v) ==
  /\ input[i] = None
  /\ input' = [input EXCEPT ![i] = v]
  /\ UNCHANGED decided

\* A faulty node may take part or not: it counts as one that does.
TakePart == {i \in Correct : input[i] # None} \cup Faulty

Decide(i, v) ==
  /\ input[i] # None
  /\ decided[i] = None
  /\ \E j \in Correct : input[j] = v
  /\ \A j \in Correct : decided[j] \in {None, v}
  /\ Cardinality(TakePart) >= Cardinality(Node) - f
  /\ decided' = [decided EXCEPT ![i] = v]
  /\ UNCHANGED input

Next == \E i \in Correct, v \in Bit : Give(i, v) \/ Decide(i, v)

Spec == Init /\ [][Next]_vars
=============================================================================
