---------------------------- MODULE CommonSubset ----------------------------
(***************************************************************************)
(* honeybadgerbft/core/commonsubset.py with the instances that             *)
(* HoneyBadgerBFT._run_round sets up around it: one reliable broadcast and *)
(* one binary agreement per node.                                          *)
(*                                                                         *)
(* The two protocols are represented by what they promise. A broadcast     *)
(* (module Broadcast) fixes one value or one failure, for every node. An   *)
(* agreement (module AgreedBit) fixes one bit that a correct node has put  *)
(* in, once enough nodes take part.                                        *)
(***************************************************************************)
EXTENDS Integers, FiniteSets

CONSTANTS
  Node,    \* the N nodes
  Faulty,  \* the nodes that need not run this code
  f,       \* the fault tolerance the nodes are configured with
  None

N       == Cardinality(Node)
Correct == Node \ Faulty
Bit     == {0, 1}

\* What a broadcast can come to. The value of a faulty leader may be "garbage":
\* bytes that are delivered like any others, but are not a proposal.
Outcomes == {"value", "garbage", "failure"}

ASSUME NodeAssumption  == IsFiniteSet(Node)
ASSUME FaultAssumption == /\ Faulty \subseteq Node
                          /\ f \in Nat
                          /\ Cardinality(Faulty) <= f
                          /\ N >= 3 * f + 1
ASSUME NoneAssumption  == None \notin Bit /\ None \notin Outcomes

VARIABLES
  fixed,       \* per leader: what its broadcast comes to, or None
  decision,    \* per agreement: the bit agreed on, or None
  rbc_values,  \* per node: the leaders whose value it has
  aba_input,   \* per node and agreement: its input, or None (aba_inputted)
  aba_ended,   \* per node: the agreements whose bit it has (the ended a_threads)
  acs          \* per node: "running" or "returned"

acsVars == <<fixed, decision, rbc_values, aba_input, aba_ended, acs>>

ACSInit ==
  /\ fixed      = [j \in Node |-> None]
  /\ decision   = [j \in Node |-> None]
  /\ rbc_values = [i \in Correct |-> {}]
  /\ aba_input  = [i \in Correct |-> [j \in Node |-> None]]
  /\ aba_ended  = [i \in Correct |-> {}]
  /\ acs        = [i \in Correct |-> "running"]

-----------------------------------------------------------------------------
(* The broadcasts and the agreements.                                      *)

Settled(j)  == fixed[j] # None  \* mutant of HasValue: a failure counts
HasValue(j) == fixed[j] \in {"value", "garbage"}

\* The leader of broadcast j gets its input; a faulty one may spread anything.
Fix(j, outcome) ==
  /\ fixed[j] = None
  /\ j \in Correct => outcome = "value"
  /\ fixed' = [fixed EXCEPT ![j] = outcome]
  /\ UNCHANGED <<decision, rbc_values, aba_input, aba_ended, acs>>

\* Agreement j comes to a bit that a correct node has put in. It needs the
\* messages of N-f nodes.
Decide(j, b) ==
  /\ decision[j] = None
  /\ \E i \in Correct : aba_input[i][j] = b
  /\ Cardinality({i \in Correct : aba_input[i][j] # None} \cup Faulty) >= N - f
  /\ decision' = [decision EXCEPT ![j] = b]
  /\ UNCHANGED <<fixed, rbc_values, aba_input, aba_ended, acs>>

-----------------------------------------------------------------------------
(* commonsubset. The greenlets of a node take turns: each of them runs     *)
(* from one blocking call to the next.                                     *)

\* Inputs of a node after it is given b for the agreements J: those that have
\* an input keep it.
GiveInput(inputs, J, b) ==
  [j \in Node |-> IF j \in J /\ inputs[j] = None THEN b ELSE inputs[j]]

\* _recv_rbc(j): the value of broadcast j arrives. If the broadcast has raised,
\* so does this greenlet, and it changes nothing.
RecvRbc(i, j) ==
  /\ acs[i] = "running"
  /\ HasValue(j)
  /\ j \notin rbc_values[i]
  /\ rbc_values' = [rbc_values EXCEPT ![i] = @ \cup {j}]
  /\ aba_input'  = [aba_input EXCEPT ![i] = GiveInput(@, {j}, 1)]
  /\ UNCHANGED <<fixed, decision, aba_ended, acs>>

\* The agreements that a node knows to have ended with 1: sum(aba_values).
OnesOf(J) == {j \in J : decision[j] = 1}
Ones(i)   == OnesOf(aba_ended[i])

One    == 1      \* mutant of Enough: the first 1 is enough
Enough == N - f  \* line 42

\* _recv_aba(j): the bit of agreement j arrives, in which the node takes part once it
\* has an input. Once N-f bits are 1, every agreement without an input gets 0.
RecvAba(i, j) ==
  /\ acs[i] = "running"
  /\ aba_input[i][j] # None
  /\ decision[j] # None
  /\ j \notin aba_ended[i]
  /\ aba_ended' = [aba_ended EXCEPT ![i] = @ \cup {j}]
  /\ aba_input' = [aba_input EXCEPT ![i] =
       IF Cardinality(OnesOf(aba_ended[i] \cup {j})) >= Enough THEN GiveInput(@, Node, 0) ELSE @]
  /\ UNCHANGED <<fixed, decision, rbc_values, acs>>

\* What joinall of line 53 waits for; its mutant waits for N-f.
EnoughEnded(i) == Cardinality(aba_ended[i]) >= N - f
AllEnded(i)    == aba_ended[i] = Node

\* Lines 55-66, once joinall has seen every agreement end: each 1 waits for its
\* broadcast, and the values of the ones are returned. That the assertions of
\* lines 55 and 60 hold is the property AssertionsHold.
Finish(i) ==
  /\ acs[i] = "running"
  /\ AllEnded(i)
  /\ Ones(i) \subseteq rbc_values[i]
  /\ acs' = [acs EXCEPT ![i] = "returned"]
  /\ UNCHANGED <<fixed, decision, rbc_values, aba_input, aba_ended>>

-----------------------------------------------------------------------------
(* Properties.                                                             *)

\* A node has only values of broadcasts that came to one, and bits agreed on.
ACSTypeOK ==
  /\ fixed      \in [Node -> Outcomes \cup {None}]
  /\ decision   \in [Node -> Bit \cup {None}]
  /\ rbc_values \in [Correct -> SUBSET Node]
  /\ aba_input  \in [Correct -> [Node -> Bit \cup {None}]]
  /\ aba_ended  \in [Correct -> SUBSET Node]
  /\ acs        \in [Correct -> {"running", "returned"}]
  /\ \A i \in Correct : \A j \in rbc_values[i] : fixed[j] \in {"value", "garbage"}
  /\ \A i \in Correct : \A j \in aba_ended[i] : decision[j] # None

\* The assertions of lines 55 and 60. When all agreements of a node have ended,
\* N-f of them with 1; and no broadcast that is waited for ends in a failure.
AssertionsHold ==
  \A i \in Correct : aba_ended[i] = Node =>
    /\ Cardinality(Ones(i)) >= N - f
    /\ \A j \in Ones(i) : HasValue(j)

\* The set agreed on, once every agreement has its bit; no set before.
ChosenSet == {S \in {{j \in Node : decision[j] = 1}} : \A j \in Node : decision[j] # None}

Agreed == INSTANCE AgreedSet WITH
  proposers <- {j \in Node : HasValue(j)},
  chosen    <- ChosenSet,
  returned  <- {i \in Correct : acs[i] = "returned"}

\* commonsubset implements AgreedSet: one set of N-f or more nodes whose
\* broadcasts have succeeded, the same for every node that returns.
ImplementsAgreedSet == Agreed!Spec
=============================================================================
