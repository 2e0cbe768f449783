----------------------------- MODULE SharedCoin -----------------------------
(***************************************************************************)
(* What commoncoin.py promises to the code that calls it, without its      *)
(* shares: a coin is the same for every node and comes to each once, but   *)
(* nobody has it before f+1 nodes have asked for it. binaryagreement.py    *)
(* relies on nothing else for its safety.                                  *)
(***************************************************************************)
EXTENDS Integers, FiniteSets

CONSTANTS
  Node, Faulty, f,
  Coin,  \* the coins that can be asked for
  Value  \* per coin: what it is

Correct == Node \ Faulty

VARIABLES
  asked,   \* per correct node: the coins it has asked for
  output,  \* per correct node and coin: what has come of it, a sequence
  got      \* per correct node: the coins that have been returned to it

vars == <<asked, output, got>>

Init ==
  /\ asked  = [i \in Correct |-> {}]
  /\ output = [i \in Correct |-> [c \in Coin |-> <<>>]]
  /\ got    = [i \in Correct |-> {}]

Ask(i, c) ==
  /\ c \notin asked[i]
  /\ asked' = [asked EXCEPT ![i] = @ \cup {c}]
  /\ UNCHANGED <<output, got>>

\* A faulty node counts as one that has asked.
Askers(c) == {i \in Correct : c \in asked[i]} \cup Faulty

\* The coin may come to a node before that node asks for it.
Come(i, c) ==
  /\ output[i][c] = <<>>
  /\ Cardinality(Askers(c)) >= f + 1
  /\ output' = [output EXCEPT ![i][c] = <<Value[c]>>]
  /\ UNCHANGED <<asked, got>>

Return(i, c) ==
  /\ c \in asked[i] \ got[i]
  /\ output[i][c] # <<>>
  /\ got' = [got EXCEPT ![i] = @ \cup {c}]
  /\ UNCHANGED <<asked, output>>

Next == \E i \in Correct, c \in Coin : Ask(i, c) \/ Come(i, c) \/ Return(i, c)

Spec == Init /\ [][Next]_vars
=============================================================================
