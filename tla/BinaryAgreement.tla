-------------------------- MODULE BinaryAgreement --------------------------
(***************************************************************************)
(* One instance of honeybadgerbft/core/binaryagreement.py: rounds of       *)
(* EST, AUX and CONF exchanges that end with a common coin, until a node   *)
(* has decided a bit and has seen the coin confirm it once more.           *)
(*                                                                         *)
(* The messages of a node are its entries in est_sent, aux_sent and        *)
(* conf_msg: it broadcasts every one of them. A test of the code on the    *)
(* messages received so far is a test that some set of the messages sent   *)
(* so far passes, for nothing else depends on which have arrived: the      *)
(* receipt that completes a threshold is the step in which the code acts.  *)
(* A faulty node may have sent every message, each node may have received  *)
(* any of them, and it is counted under every value, as in the code. One   *)
(* message too many, though, ends the receive loop of the node it reaches: *)
(* that node counts no more than what had been sent to it by then.         *)
(*                                                                         *)
(* A message counts for the node that it names. That faulty nodes name no  *)
(* correct one is an assumption: no code sees to it.                       *)
(***************************************************************************)
EXTENDS Integers, FiniteSets

CONSTANTS
  Node,      \* the N nodes
  Faulty,    \* the nodes that need not run this code
  f,         \* the fault tolerance the nodes are configured with
  MaxRound,  \* bound: no node starts a round after this one
  Inputs,    \* per node: the inputs it may be given
  Coins,     \* the sequences of coin values considered
  Victims,   \* the correct nodes that a faulty one may send what _recv refuses
  None

N       == Cardinality(Node)
Correct == Node \ Faulty
Rounds  == 0 .. MaxRound
Bit     == {0, 1}

ASSUME NodeAssumption  == IsFiniteSet(Node)
ASSUME FaultAssumption == /\ Faulty \subseteq Node
                          /\ f \in Nat
                          /\ Cardinality(Faulty) <= f
                          /\ N >= 3 * f + 1
ASSUME RoundAssumption == MaxRound \in Nat
ASSUME InputAssumption == Inputs \in [Correct -> SUBSET Bit]
ASSUME CoinAssumption  == Coins \subseteq [Rounds -> Bit]
ASSUME NoneAssumption  == None \notin Bit
ASSUME VictimAssumption == Victims \subseteq Correct /\ (Victims # {} => Faulty # {})

VARIABLES
  coin,       \* the common coin of each round, None before a node has it
  input,      \* per node: the input it was given, or None
  pc,         \* per node: what its main loop waits for
  round,      \* per node: r of the main loop
  est,        \* per node: est of the main loop
  est_sent,   \* per node and round: the values it has broadcast in an EST
  bin_values, \* per node and round
  aux_sent,   \* per node and round: the value of its AUX, or None
  conf_msg,   \* per node and round: the set in its CONF, {} before
  values,     \* per node: values of the main loop
  decided,    \* per node: already_decided
  heard       \* per node: None while _recv goes on, or all AUX and CONF sent before

vars == <<coin, input, pc, round, est, est_sent, bin_values, aux_sent, conf_msg,
          values, decided, heard>>

\* What a node waits for: its input, a first bin value, AUX, CONF, the coin.
\* "bound" is a node that would start a round beyond MaxRound.
Waits == {"input", "bin", "aux", "conf", "coin", "quit", "bound"}

Init ==
  /\ coin       = [r \in Rounds |-> None]
  /\ input      = [i \in Correct |-> None]
  /\ pc         = [i \in Correct |-> "input"]
  /\ round      = [i \in Correct |-> 0]
  /\ est        = [i \in Correct |-> None]
  /\ est_sent   = [i \in Correct |-> [r \in Rounds |-> {}]]
  /\ bin_values = [i \in Correct |-> [r \in Rounds |-> {}]]
  /\ aux_sent   = [i \in Correct |-> [r \in Rounds |-> None]]
  /\ conf_msg   = [i \in Correct |-> [r \in Rounds |-> {}]]
  /\ values     = [i \in Correct |-> {}]
  /\ decided    = [i \in Correct |-> None]
  /\ heard      = [i \in Correct |-> None]

-----------------------------------------------------------------------------

\* The AUX and the CONF messages that can have reached node i.
Aux(i)  == IF heard[i] = None THEN aux_sent ELSE heard[i].aux
Conf(i) == IF heard[i] = None THEN conf_msg ELSE heard[i].conf

\* Who has sent each message to node i, if the faulty nodes F have sent everything.
EstSenders(r, v, F)     == {j \in Correct : v \in est_sent[j][r]} \cup F
AuxSenders(i, r, v, F)  == {j \in Correct : Aux(i)[j][r] = v} \cup F
ConfCovering(i, r, V, F) ==  \* mutant of ConfSenders: counts larger sets too
  {j \in Correct : V \subseteq Conf(i)[j][r]} \cup F
ConfSenders(i, r, V, F) == {j \in Correct : Conf(i)[j][r] = V} \cup F
CoinSenders(r, F)       == {j \in Correct :
                          \/ round[j] > r
                          \/ round[j] = r /\ pc[j] \in {"coin", "quit", "bound"}} \cup F

Bound  == f          \* mutant of Relay: >= f for > f
Relay  == f + 1      \* EST messages after which a node repeats the value
Output == 2 * f + 1  \* EST messages after which the value is a bin value
SurelyCorrect == N - 2 * f  \* mutant of Quorum: those of N-f that are surely correct
Quorum == N - f      \* AUX or CONF messages a node waits for

\* next(iter(bin_values[r])): a set of small integers yields 0 first.
HowMany(S)   == Cardinality(S)  \* mutant of AnElement
AnElement(S) == IF 0 \in S THEN 0 ELSE 1

\* The outcome of the tests of lines 202-213, in their order, on c0 and c1 AUX
\* messages received of the bin values. The sum counts messages, not nodes.
AuxOutcome(i, F) ==
  LET r   == round[i]
      bin == bin_values[i][r]
      sent(v) == Cardinality(AuxSenders(i, r, v, F))
  IN {V \in {{0}, {1}} : \A v \in V : v \in bin /\ sent(v) >= Quorum}
     \cup
     {V \in {{0, 1}} :
        /\ V \subseteq bin
        /\ \E c0 \in 0 .. sent(0), c1 \in 0 .. sent(1) :
             c0 < Quorum /\ c1 < Quorum /\ c0 + c1 >= Quorum}

\* The outcome of the tests of lines 46-53 on the CONF messages received.
ConfOutcome(i, F) ==
  LET r   == round[i]
      bin == bin_values[i][r]
      sent(V) == Cardinality(ConfSenders(i, r, V, F))
  IN {V \in {{0}, {1}} : V \subseteq bin /\ sent(V) >= Quorum}
     \cup
     {V \in {{0, 1}} :
        /\ V \subseteq bin
        /\ \E c0 \in 0 .. sent({0}), c1 \in 0 .. sent({1}) :
             c0 < Quorum /\ c1 < Quorum /\ c0 + c1 + sent(V) >= Quorum}

\* The estimate that set_new_estimate returns for the next round.
AlwaysElement(V, s) == AnElement(V)  \* mutant of NewEstimate: ignores the coin
NewEstimate(V, s)   == IF V \in {{0}, {1}} THEN AnElement(V) ELSE s

\* The head of the main loop: round r starts with estimate e, and e is
\* broadcast unless it has been relayed before.
StartRound(i, r, e) ==
  /\ est'      = [est EXCEPT ![i] = e]
  /\ round'    = [round EXCEPT ![i] = r]
  /\ pc'       = [pc EXCEPT ![i] = "bin"]
  /\ est_sent' = [est_sent EXCEPT ![i][r] = @ \cup {e}]

-----------------------------------------------------------------------------

GiveInput(i, v) ==
  /\ pc[i] = "input"
  /\ input' = [input EXCEPT ![i] = v]
  /\ StartRound(i, 0, v)
  /\ UNCHANGED <<coin, bin_values, aux_sent, conf_msg, values, decided, heard>>

\* The EST branch of _recv, at the message that makes the count of value v in
\* round r, any round, reach the first or the second threshold.
RecvEst(i, r, v, F) ==
  LET count == Cardinality(EstSenders(r, v, F)) IN
  /\ pc[i] # "quit" /\ heard[i] = None
  /\ \/ /\ count >= Relay
        /\ v \notin est_sent[i][r]
        /\ UNCHANGED bin_values
     \/ /\ count >= Output
        /\ v \notin bin_values[i][r]
        /\ bin_values' = [bin_values EXCEPT ![i][r] = @ \cup {v}]
  /\ est_sent' = [est_sent EXCEPT ![i][r] = @ \cup {v}]
  /\ UNCHANGED <<coin, input, pc, round, est, aux_sent, conf_msg, values, decided, heard>>

SendAux(i) ==
  /\ pc[i] = "bin"
  /\ bin_values[i][round[i]] # {}
  /\ aux_sent' = [aux_sent EXCEPT ![i][round[i]] = AnElement(bin_values[i][round[i]])]
  /\ pc' = [pc EXCEPT ![i] = "aux"]
  /\ UNCHANGED <<coin, input, round, est, est_sent, bin_values, conf_msg, values, decided,
                 heard>>

\* Enough AUX messages: the node broadcasts all its bin values, which may have
\* grown since its AUX, and not the values it has just found.
SendConf(i, F) ==
  /\ pc[i] = "aux"
  /\ \E V \in AuxOutcome(i, F) : values' = [values EXCEPT ![i] = V]
  /\ conf_msg' = [conf_msg EXCEPT ![i][round[i]] = bin_values[i][round[i]]]
  /\ pc' = [pc EXCEPT ![i] = "conf"]
  /\ UNCHANGED <<coin, input, round, est, est_sent, bin_values, aux_sent, decided, heard>>

\* Enough CONF messages: coin(r) broadcasts the node's share and waits.
CallCoin(i, F) ==
  /\ pc[i] = "conf"
  /\ \E V \in ConfOutcome(i, F) : values' = [values EXCEPT ![i] = V]
  /\ pc' = [pc EXCEPT ![i] = "coin"]
  /\ UNCHANGED <<coin, input, round, est, est_sent, bin_values, aux_sent, conf_msg, decided,
                 heard>>

\* The error paths of _recv, which nothing catches: a faulty node repeats an EST, AUX
\* or CONF, or sends one that fails an assertion. The main loop goes on with what has
\* been received, and the coin with a receive loop of its own.
Raise(i) ==
  /\ pc[i] # "quit" /\ heard[i] = None
  /\ heard' = [heard EXCEPT ![i] = [aux |-> aux_sent, conf |-> conf_msg]]
  /\ UNCHANGED <<coin, input, pc, round, est, est_sent, bin_values, aux_sent, conf_msg,
                 values, decided>>

\* What the coin of round r can turn out to be.
CoinValues(r) ==
  IF coin[r] # None THEN {coin[r]}
  ELSE {c[r] : c \in {d \in Coins : \A q \in Rounds : coin[q] \in {None, d[q]}}}

\* coin(r) returns once f+1 shares are there; set_new_estimate follows, and
\* the node quits or starts the next round.
RecvCoin(i, F) == \E s \in CoinValues(round[i]) :
  LET r == round[i] IN
  /\ pc[i] = "coin"
  /\ Cardinality(CoinSenders(r, F)) >= f + 1
  /\ decided' = IF values[i] = {s} /\ decided[i] = None
                THEN [decided EXCEPT ![i] = s] ELSE decided
  /\ IF values[i] = {s} /\ decided[i] = s
     THEN pc' = [pc EXCEPT ![i] = "quit"] /\ UNCHANGED <<est, round, est_sent>>
     ELSE IF r = MaxRound
     THEN pc' = [pc EXCEPT ![i] = "bound"] /\ UNCHANGED <<est, round, est_sent>>
     ELSE StartRound(i, r + 1, NewEstimate(values[i], s))
  /\ coin' = [coin EXCEPT ![r] = s]
  /\ UNCHANGED <<input, bin_values, aux_sent, conf_msg, values, heard>>

Step(i, F) ==
  \/ \E r \in Rounds, v \in Bit : RecvEst(i, r, v, F)
  \/ SendAux(i)
  \/ SendConf(i, F)
  \/ CallCoin(i, F)
  \/ RecvCoin(i, F)

Next ==
  \/ \E i \in Correct : (\E v \in Inputs[i] : GiveInput(i, v)) \/ Step(i, Faulty)
  \/ \E i \in Victims : Raise(i)

Spec == Init /\ [][Next]_vars

\* Every step that the messages of the correct nodes make possible is taken: a
\* node goes on taking messages, unless an error has ended _recv, and its main loop
\* is woken by bv_signal for what has been received. That coins come is CoinComes of
\* CommonCoin, as far as that goes. No message of a faulty node has to arrive, no
\* error to occur and no input to be given.
FairSpec ==
  /\ Spec
  /\ \A i \in Correct :
       /\ \A r \in Rounds, v \in Bit : WF_vars(RecvEst(i, r, v, {}))
       /\ WF_vars(SendAux(i)) /\ WF_vars(RecvCoin(i, {}))
       /\ WF_vars(heard[i] = None /\ SendConf(i, {}))
       /\ WF_vars(heard[i] = None /\ CallCoin(i, {}))

-----------------------------------------------------------------------------

\* The state has the types of the code: estimates and coins are bits, and a
\* node is never in a round beyond the bound.
TypeOK ==
  /\ coin       \in [Rounds -> Bit \cup {None}]
  /\ input      \in [Correct -> Bit \cup {None}]
  /\ pc         \in [Correct -> Waits]
  /\ round      \in [Correct -> Rounds]
  /\ est        \in [Correct -> Bit \cup {None}]
  /\ est_sent   \in [Correct -> [Rounds -> SUBSET Bit]]
  /\ bin_values \in [Correct -> [Rounds -> SUBSET Bit]]
  /\ aux_sent   \in [Correct -> [Rounds -> Bit \cup {None}]]
  /\ conf_msg   \in [Correct -> [Rounds -> SUBSET Bit]]
  /\ values     \in [Correct -> SUBSET Bit]
  /\ decided    \in [Correct -> Bit \cup {None}]
  /\ heard \in [Correct -> {None} \cup [aux  : [Correct -> [Rounds -> Bit \cup {None}]],
                                      conf : [Correct -> [Rounds -> SUBSET Bit]]]]

Decided == {i \in Correct : decided[i] # None}

\* No two correct nodes decide differently, in whatever rounds they decide.
Agreement == \A i, j \in Decided : decided[i] = decided[j]

\* What a correct node decides was the input of a correct node: the faulty
\* ones cannot bring in a value, not even through the coin.
Validity == \A i \in Decided : \E j \in Correct : input[j] = decided[i]

\* "If one party decides at round r, then in all the following rounds, everybody
\* will propose r as an estimation" (lines 274-277): whoever has come as far as
\* a node that has decided has the decided value as its estimate.
DecisionIsProposed ==
  \A i \in Decided, j \in Correct :
    pc[i] # "bound" /\ round[j] >= round[i] /\ pc[j] \notin {"input", "bound"}
      => est[j] = decided[i]

\* Two nodes that wait for the same coin have not settled on opposite values:
\* each has heard N-f CONF messages, but faulty nodes count under every value.
NoOppositeValues ==
  \A i, j \in Correct :
    pc[i] = "coin" /\ pc[j] = "coin" /\ round[i] = round[j]
      => ~ (values[i] = {0} /\ values[j] = {1})

\* A node quits only when the others can decide without it: whoever has not
\* decided is in the same round or an earlier one, for which the node has sent
\* all its messages, and it cannot end that round with another value.
QuitLeavesDecision ==
  \A i, j \in Correct :
    pc[i] = "quit" /\ j \notin Decided =>
      /\ round[j] <= round[i]
      /\ round[j] = round[i] => est[j] = decided[i] /\ coin[round[j]] = est[j]

Bits == INSTANCE AgreedBit

\* The exchange of messages implements AgreedBit: one bit for all that decide, which
\* one of them was given, with N-f nodes that take part.
ImplementsAgreedBit == Bits!Spec

AllStarted == \A i \in Correct : pc[i] # "input"
SomeQuit   == \E i \in Correct : pc[i] = "quit"

\* No node that starts with an input is left waiting: all get through round after
\* round, until some node has quit, whatever the faulty nodes send or withhold, unless
\* one of them repeats a message to a correct node or sends it a malformed one. One
\* such message ends _recv at that node, and then the others may be too few, although
\* README line 33 has f as the number of failure nodes tolerated.
Progress ==
  AllStarted ~> \/ SomeQuit \/ \A i \in Correct : pc[i] = "bound"
                \/ \E i \in Correct : heard[i] # None
=============================================================================
