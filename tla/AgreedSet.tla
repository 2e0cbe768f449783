----------------------------- MODULE AgreedSet -----------------------------
(***************************************************************************)
(* What commonsubset.py promises to the code that calls it: one set of at  *)
(* least N-f nodes that have proposed is chosen, once, and every correct   *)
(* node that returns, returns the proposals of that set. WalletNodes!Agree *)
(* relies on nothing else.                                                 *)
(***************************************************************************)
EXTENDS Integers, FiniteSets

CONSTANTS Node, Faulty, f

Correct == Node \ Faulty

VARIABLES
  proposers,  \* the nodes whose proposal can be included
  chosen,     \* {S} once the set S is agreed on, {} before
  returned    \* the correct nodes that have returned it

vars == <<proposers, chosen, returned>>

Init ==
  /\ proposers = {}
  /\ chosen    = {}
  /\ returned  = {}

Propose(j) ==
  /\ proposers' = proposers \cup {j}
  /\ UNCHANGED <<chosen, returned>>

Choose(S) ==
  /\ chosen = {}
  /\ S \subseteq proposers
  /\ Cardinality(S) >= Cardinality(Node) - f
  /\ chosen' = {S}
  /\ UNCHANGED <<proposers, returned>>

Return(i) ==
  /\ chosen # {}
  /\ returned' = returned \cup {i}
  /\ UNCHANGED <<proposers, chosen>>

Next ==
  \/ \E j \in Node : Propose(j)
  \/ \E S \in SUBSET Node : Choose(S)
  \/ \E i \in Correct : Return(i)

Spec == Init /\ [][Next]_vars
=============================================================================
