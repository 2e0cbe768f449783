------------------------ MODULE BinaryAgreementProofs ------------------------
(***************************************************************************)
(* Proofs about BinaryAgreement for any number of nodes, any placement of  *)
(* at most f faulty ones, any inputs, any coins and any number of rounds:  *)
(* decisions agree, they were the input of a correct node, and there is    *)
(* nothing more to the protocol than AgreedBit for those who call it.      *)
(***************************************************************************)
EXTENDS BinaryAgreement, FiniteSetTheorems, WellFoundedInduction, TLAPS

USE DEF N, Relay, Output, Quorum

-----------------------------------------------------------------------------
(* Counting.                                                               *)

\* Sets of nodes are finite and no larger than N.
LEMMA SubsetCard ==
  ASSUME NEW S \in SUBSET Node
  PROVE  IsFiniteSet(S) /\ Cardinality(S) \in Nat /\ Cardinality(S) <= N
BY NodeAssumption, FS_Subset, FS_CardinalityType

\* A larger set has no fewer elements.
LEMMA MoreCard ==
  ASSUME NEW T \in SUBSET Node, NEW S \in SUBSET T
  PROVE  Cardinality(S) <= Cardinality(T)
<1>1. IsFiniteSet(T)
  BY SubsetCard
<1> QED
  BY <1>1, FS_Subset

\* The numbers that the thresholds are made of.
LEMMA Numbers ==
  /\ N \in Nat /\ f \in Nat /\ N >= 3 * f + 1
  /\ Cardinality(Faulty) \in Nat /\ Cardinality(Faulty) <= f
BY FaultAssumption, SubsetCard

\* More than f senders include a correct one.
LEMMA CorrectSender ==
  ASSUME NEW S \in SUBSET Correct, Cardinality(S \cup Faulty) >= f + 1
  PROVE  S # {}
<1> SUFFICES ASSUME S = {} PROVE FALSE
  OBVIOUS
<1>1. S \cup Faulty = Faulty
  OBVIOUS
<1> QED
  BY <1>1, Numbers

\* The cardinalities of disjoint sets of nodes add up.
LEMMA DisjointSum ==
  ASSUME NEW S \in SUBSET Node, NEW T \in SUBSET Node, S \cap T = {}
  PROVE  Cardinality(S \cup T) = Cardinality(S) + Cardinality(T)
<1>1. /\ IsFiniteSet(S) /\ Cardinality(S) \in Nat
      /\ IsFiniteSet(T) /\ Cardinality(T) \in Nat
  BY SubsetCard
<1>2. Cardinality(S \cap T) = 0
  BY FS_EmptySet
<1>3. Cardinality(S \cup T) = Cardinality(S) + Cardinality(T) - Cardinality(S \cap T)
  BY <1>1, FS_Union
<1> QED
  BY <1>1, <1>2, <1>3

\* Two disjoint sets of correct nodes cannot both make up a quorum.
LEMMA NoTwoQuorums ==
  ASSUME NEW S \in SUBSET Correct, NEW T \in SUBSET Correct, S \cap T = {},
         Cardinality(S \cup Faulty) >= N - f, Cardinality(T \cup Faulty) >= N - f
  PROVE  FALSE
<1>1. /\ S \in SUBSET Node /\ T \in SUBSET Node /\ Faulty \in SUBSET Node
      /\ S \cup T \in SUBSET Node /\ (S \cup T) \cup Faulty \in SUBSET Node
      /\ S \cap Faulty = {} /\ T \cap Faulty = {} /\ (S \cup T) \cap Faulty = {}
  BY FaultAssumption DEF Correct
<1>2. Cardinality(S \cup Faulty) = Cardinality(S) + Cardinality(Faulty)
  BY <1>1, DisjointSum
<1>3. Cardinality(T \cup Faulty) = Cardinality(T) + Cardinality(Faulty)
  BY <1>1, DisjointSum
<1>4. Cardinality(S \cup T) = Cardinality(S) + Cardinality(T)
  BY <1>1, DisjointSum
<1>5. Cardinality((S \cup T) \cup Faulty) = Cardinality(S \cup T) + Cardinality(Faulty)
  BY <1>1, DisjointSum
<1>6. /\ Cardinality((S \cup T) \cup Faulty) <= N
      /\ Cardinality(S) \in Nat /\ Cardinality(T) \in Nat
  BY <1>1, SubsetCard
<1> QED
  BY <1>2, <1>3, <1>4, <1>5, <1>6, Numbers

\* A nonempty set of numbers has a least one.
LEMMA Least ==
  ASSUME NEW T \in SUBSET Nat, T # {}
  PROVE  \E x \in T : \A y \in T : x <= y
<1> DEFINE R == {ss \in Nat \X Nat : ss[1] < ss[2]}
<1>1. IsWellFoundedOn(R, Nat)
  BY NatLessThanWellFounded DEF OpToRel
<1>2. \A x, y \in Nat : y < x => <<y, x>> \in R
  OBVIOUS
<1> HIDE DEF R
<1>3. \E x \in T : \A y \in T : ~ (<<y, x>> \in R)
  BY <1>1, WFMin
<1>4. PICK x \in T : \A y \in T : ~ (<<y, x>> \in R)
  BY <1>3
<1>5. \A y \in T : ~ (y < x)
  BY <1>2, <1>4
<1>6. \A y \in T : x <= y
  BY <1>5
<1> QED
  BY <1>6

-----------------------------------------------------------------------------
(* The inductive invariant.                                                *)

\* N-f CONF messages of a round name {v}, those of faulty nodes included.
Named(r, v) == {j \in Correct : conf_msg[j][r] = {v}} \cup Faulty
ConfQuorum(r, v) == Cardinality(Named(r, v)) >= N - f

\* A node has no input before it takes one, and has sent no CONF in a round before
\* it gets there.
Unset == \A i \in Correct : pc[i] = "input" => input[i] = None /\ round[i] = 0
Fresh ==
  \A i \in Correct, q \in Rounds :
    q > round[i] \/ (q = round[i] /\ pc[i] \in {"input", "bin", "aux"}) => conf_msg[i][q] = {}

\* What a CONF names has been output, and what is output has been sent.
ConfBacked == \A i \in Correct, q \in Rounds : conf_msg[i][q] \subseteq bin_values[i][q]
BinBacked  == \A i \in Correct, q \in Rounds : \A v \in bin_values[i][q] :
                \E k \in Correct : v \in est_sent[k][q]

\* Values of the first round are inputs. Those of a later one come from the round
\* before: named by a quorum, or by the coin where both values were about.
InputBacked == \A i \in Correct : \A v \in est_sent[i][0] : \E k \in Correct : input[k] = v
FromBefore(q, v) ==
  \/ ConfQuorum(q, v)
  \/ coin[q] = v /\ \E k \in Correct : bin_values[k][q] = {0, 1}
EstBacked == \A i \in Correct, q \in Rounds : q < MaxRound =>
               \A v \in est_sent[i][q + 1] : FromBefore(q, v)

\* A node that waits for the coin has heard a quorum, or both values.
HasHeard(i, r) ==
  \/ values[i] = {0, 1} /\ bin_values[i][r] = {0, 1}
  \/ \E v \in Bit : values[i] = {v} /\ ConfQuorum(r, v)
AtCoin == \A i \in Correct, r \in Rounds : pc[i] = "coin" /\ round[i] = r => HasHeard(i, r)

\* A decision has a quorum and the coin behind it.
DecisionBacked ==
  \A i \in Decided : \E r \in Rounds : coin[r] = decided[i] /\ ConfQuorum(r, decided[i])

\* The CONF messages that a node goes on with when its receive loop has ended were
\* sent, and are those of now.
HeardBefore ==
  \A i, j \in Correct, q \in Rounds :
    heard[i] # None => heard[i].conf[j][q] \in {{}, conf_msg[j][q]}

Backed == ConfBacked /\ BinBacked /\ InputBacked /\ EstBacked

IndInv == TypeOK /\ Unset /\ Fresh /\ Backed /\ AtCoin /\ DecisionBacked

\* Senders of CONF messages are nodes.
LEMMA ConfTypes ==
  ASSUME NEW r, NEW v
  PROVE  /\ Named(r, v) \in SUBSET Node
         /\ {j \in Correct : conf_msg[j][r] = {v}} \in SUBSET Correct
BY FaultAssumption DEF Named, Correct

\* A quorum for one value leaves none for the other.
LEMMA OneQuorum ==
  ASSUME NEW r, NEW v, NEW w, ConfQuorum(r, v), ConfQuorum(r, w)
  PROVE  v = w
<1> SUFFICES ASSUME v # w PROVE FALSE
  OBVIOUS
<1> DEFINE S == {j \in Correct : conf_msg[j][r] = {v}}
           T == {j \in Correct : conf_msg[j][r] = {w}}
<1>1. S \cap T = {}
  OBVIOUS
<1>2. Cardinality(S \cup Faulty) >= N - f /\ Cardinality(T \cup Faulty) >= N - f
  BY DEF ConfQuorum, Named
<1> QED
  BY <1>1, <1>2, NoTwoQuorums

\* A value with a quorum has been sent by a correct node in that round.
LEMMA QuorumSent ==
  ASSUME TypeOK, ConfBacked, BinBacked, NEW r \in Rounds, NEW v, ConfQuorum(r, v)
  PROVE  \E k \in Correct : v \in est_sent[k][r]
<1> DEFINE S == {j \in Correct : conf_msg[j][r] = {v}}
<1>1. Cardinality(S \cup Faulty) >= f + 1
  <2>1. S \cup Faulty \in SUBSET Node /\ Cardinality(S \cup Faulty) >= N - f
    BY FaultAssumption DEF ConfQuorum, Named, Correct
  <2>2. Cardinality(S \cup Faulty) \in Nat
    BY <2>1, SubsetCard
  <2> QED
    BY <2>1, <2>2, Numbers
<1>2. PICK j \in Correct : conf_msg[j][r] = {v}
  BY <1>1, CorrectSender
<1>3. v \in bin_values[j][r]
  <2>1. v \in conf_msg[j][r]
    BY <1>2
  <2> QED
    BY <2>1 DEF ConfBacked
<1> QED
  BY <1>3 DEF BinBacked

-----------------------------------------------------------------------------
(* What the steps keep.                                                    *)

\* A step after which every EST, CONF, bin value and coin of before is still there.
Grows ==
  /\ \A i \in Correct, q \in Rounds : est_sent[i][q] \subseteq est_sent'[i][q]
  /\ \A i \in Correct, q \in Rounds :
       conf_msg[i][q] # {} => conf_msg'[i][q] = conf_msg[i][q]
  /\ \A i \in Correct, q \in Rounds : bin_values[i][q] \subseteq bin_values'[i][q]
  /\ \A q \in Rounds : coin[q] # None => coin'[q] = coin[q]

\* A quorum stays a quorum.
LEMMA QuorumStays ==
  ASSUME Grows, NEW q \in Rounds, NEW v, ConfQuorum(q, v)
  PROVE  ConfQuorum(q, v)'
<1> DEFINE S == Named(q, v)
           T == {j \in Correct : conf_msg'[j][q] = {v}} \cup Faulty
<1>1. S \subseteq T
  BY DEF Named, Grows
<1>2. T \in SUBSET Node
  BY FaultAssumption DEF Correct
<1>3. Cardinality(S) <= Cardinality(T) /\ Cardinality(S) \in Nat /\ Cardinality(T) \in Nat
  BY <1>1, <1>2, MoreCard, SubsetCard
<1> HIDE DEF S
<1>4. Cardinality(S) >= N - f
  BY DEF ConfQuorum, S
<1>5. Cardinality(T) >= N - f
  BY <1>3, <1>4, Numbers
<1> QED
  BY <1>5 DEF ConfQuorum, Named

\* What backs a value of the next round stays.
LEMMA FromBeforeStays ==
  ASSUME Grows, TypeOK, TypeOK', NEW q \in Rounds, NEW v \in Bit, FromBefore(q, v)
  PROVE  FromBefore(q, v)'
<1>1. CASE ConfQuorum(q, v)
  BY <1>1, QuorumStays DEF FromBefore
<1>2. ASSUME coin[q] = v, NEW k \in Correct, bin_values[k][q] = {0, 1}
      PROVE  FromBefore(q, v)'
  <2>1. coin'[q] = v
    <3>1. coin[q] # None
      BY <1>2, NoneAssumption
    <3>2. \A p \in Rounds : coin[p] # None => coin'[p] = coin[p]
      BY DEF Grows
    <3>3. coin'[q] = coin[q]
      BY <3>1, <3>2
    <3> QED
      BY <1>2, <3>3
  <2>2. bin_values[k][q] \subseteq bin_values'[k][q]
    BY DEF Grows
  <2>3. bin_values'[k][q] \subseteq {0, 1}
    BY DEF TypeOK, Bit
  <2>4. bin_values'[k][q] = {0, 1}
    BY <1>2, <2>2, <2>3
  <2> QED
    BY <2>1, <2>4 DEF FromBefore
<1> QED
  BY <1>1, <1>2 DEF FromBefore

\* Decisions keep what is behind them.
LEMMA DecisionsStay ==
  ASSUME Grows, TypeOK, DecisionBacked, UNCHANGED decided
  PROVE  DecisionBacked'
<1> SUFFICES ASSUME NEW i \in Correct, decided[i] # None
             PROVE  \E r \in Rounds : coin'[r] = decided[i] /\ ConfQuorum(r, decided[i])'
  BY DEF DecisionBacked, Decided
<1>1. PICK r \in Rounds : coin[r] = decided[i] /\ ConfQuorum(r, decided[i])
  BY DEF DecisionBacked, Decided
<1>2. coin'[r] = decided[i]
  BY <1>1 DEF Grows
<1>3. ConfQuorum(r, decided[i])'
  BY <1>1, QuorumStays
<1> QED
  BY <1>2, <1>3

\* What a node has heard stays true while it waits.
LEMMA HeardStays ==
  ASSUME Grows, TypeOK, TypeOK', NEW j \in Correct, NEW r \in Rounds, HasHeard(j, r),
         values'[j] = values[j]
  PROVE  HasHeard(j, r)'
<1>1. CASE values[j] = {0, 1} /\ bin_values[j][r] = {0, 1}
  <2>1. bin_values[j][r] \subseteq bin_values'[j][r]
    BY DEF Grows
  <2>2. bin_values'[j][r] \subseteq {0, 1}
    BY DEF TypeOK, Bit
  <2>3. bin_values'[j][r] = {0, 1}
    BY <1>1, <2>1, <2>2
  <2> QED
    BY <1>1, <2>3 DEF HasHeard
<1>2. ASSUME NEW v \in Bit, values[j] = {v}, ConfQuorum(r, v) PROVE HasHeard(j, r)'
  <2>1. ConfQuorum(r, v)'
    BY <1>2, QuorumStays
  <2> QED
    BY <1>2, <2>1 DEF HasHeard
<1> QED
  BY <1>1, <1>2 DEF HasHeard

\* New bin values have been sent by the node itself.
LEMMA BinStays ==
  ASSUME Grows, BinBacked,
         \A j \in Correct, q \in Rounds :
           bin_values'[j][q] \subseteq bin_values[j][q] \cup est_sent'[j][q]
  PROVE  BinBacked'
<1> SUFFICES ASSUME NEW j \in Correct, NEW q \in Rounds, NEW v \in bin_values'[j][q]
             PROVE  \E k \in Correct : v \in est_sent'[k][q]
  BY DEF BinBacked
<1>1. CASE v \in bin_values[j][q]
  <2>1. PICK k \in Correct : v \in est_sent[k][q]
    BY <1>1 DEF BinBacked
  <2>2. v \in est_sent'[k][q]
    BY <2>1 DEF Grows
  <2> QED
    BY <2>2
<1>2. CASE v \in est_sent'[j][q]
  BY <1>2
<1> QED
  BY <1>1, <1>2

\* A new estimate comes from an input, or from the round before.
LEMMA EstStays ==
  ASSUME Grows, TypeOK, TypeOK', EstBacked,
         NEW i \in Correct, NEW r \in Rounds, NEW v \in Bit,
         r > 0 => FromBefore(r - 1, v)',
         \A j \in Correct, q \in Rounds :
           est_sent'[j][q] \subseteq est_sent[j][q] \cup (IF j = i /\ q = r THEN {v} ELSE {})
  PROVE  EstBacked'
<1> SUFFICES ASSUME NEW j \in Correct, NEW q \in Rounds, q < MaxRound, NEW w \in est_sent'[j][q + 1]
             PROVE  FromBefore(q, w)'
  BY DEF EstBacked
<1>1. q + 1 \in Rounds /\ q + 1 > 0 /\ (q + 1) - 1 = q
  BY RoundAssumption DEF Rounds
<1>2. CASE w \in est_sent[j][q + 1]
  <2>1. w \in Bit
    <3>1. est_sent \in [Correct -> [Rounds -> SUBSET Bit]]
      BY DEF TypeOK
    <3> QED
      BY <1>1, <1>2, <3>1
  <2>2. FromBefore(q, w)
    BY <1>2 DEF EstBacked
  <2> QED
    BY <2>1, <2>2, FromBeforeStays
<1>3. CASE q + 1 = r /\ w = v
  <2>1. FromBefore(r - 1, v)' /\ r - 1 = q
    BY <1>1, <1>3
  <2> QED
    BY <1>3, <2>1
<1>4. w \in est_sent[j][q + 1] \/ (q + 1 = r /\ w = v)
  BY <1>1
<1> QED
  BY <1>2, <1>3, <1>4

\* Estimates of the first round are inputs as long as none is added.
LEMMA InputsStay ==
  ASSUME InputBacked, input' = input, \A j \in Correct : est_sent'[j][0] = est_sent[j][0]
  PROVE  InputBacked'
BY DEF InputBacked

\* Nothing is sent in this step but AUX and CONF.
LEMMA EstimatesStay ==
  ASSUME Grows, TypeOK, TypeOK', Backed, est_sent' = est_sent, input' = input
  PROVE  InputBacked' /\ EstBacked'
<1>1. InputBacked'
  BY InputsStay DEF Backed
<1>2. EstBacked'
  <2> SUFFICES ASSUME NEW j \in Correct, NEW q \in Rounds, q < MaxRound, NEW w \in est_sent[j][q + 1]
               PROVE  FromBefore(q, w)'
    BY DEF EstBacked
  <2>1. q + 1 \in Rounds
    BY RoundAssumption DEF Rounds
  <2>2. est_sent \in [Correct -> [Rounds -> SUBSET Bit]]
    BY DEF TypeOK
  <2>3. w \in Bit
    BY <2>1, <2>2
  <2>4. FromBefore(q, w)
    BY DEF Backed, EstBacked
  <2> QED
    BY <2>3, <2>4, FromBeforeStays
<1> QED
  BY <1>1, <1>2

-----------------------------------------------------------------------------
(* The steps.                                                              *)

\* A change of one round of one node.
LEMMA OneChange ==
  ASSUME NEW S, NEW g \in [Correct -> [Rounds -> S]], NEW i \in Correct, NEW r \in Rounds, NEW x \in S,
         NEW h, h = [g EXCEPT ![i][r] = x]
  PROVE  /\ h \in [Correct -> [Rounds -> S]]
         /\ \A j \in Correct, q \in Rounds : h[j][q] = IF j = i /\ q = r THEN x ELSE g[j][q]
OBVIOUS

\* The head of the main loop keeps the types and sends one estimate.
LEMMA StartRoundTypes ==
  ASSUME TypeOK, NEW i \in Correct, NEW r \in Rounds, NEW e \in Bit, StartRound(i, r, e)
  PROVE  /\ pc' \in [Correct -> Waits] /\ round' \in [Correct -> Rounds]
         /\ est' \in [Correct -> Bit \cup {None}]
         /\ est_sent' \in [Correct -> [Rounds -> SUBSET Bit]]
         /\ \A j \in Correct, q \in Rounds :
              est_sent'[j][q] = IF j = i /\ q = r THEN est_sent[j][q] \cup {e} ELSE est_sent[j][q]
         /\ \A j \in Correct : pc'[j] = IF j = i THEN "bin" ELSE pc[j]
         /\ \A j \in Correct : round'[j] = IF j = i THEN r ELSE round[j]
<1>1. /\ pc \in [Correct -> Waits] /\ round \in [Correct -> Rounds]
      /\ est \in [Correct -> Bit \cup {None}]
  BY DEF TypeOK
<1>2. est_sent \in [Correct -> [Rounds -> SUBSET Bit]]
  BY DEF TypeOK
<1>3. /\ est' = [est EXCEPT ![i] = e] /\ round' = [round EXCEPT ![i] = r]
      /\ pc' = [pc EXCEPT ![i] = "bin"]
  BY DEF StartRound
<1>4. est_sent' = [est_sent EXCEPT ![i][r] = est_sent[i][r] \cup {e}]
  BY DEF StartRound
<1>5. "bin" \in Waits
  BY DEF Waits
<1>6. est_sent[i][r] \cup {e} \in SUBSET Bit
  BY <1>2
<1>7. /\ est_sent' \in [Correct -> [Rounds -> SUBSET Bit]]
      /\ \A j \in Correct, q \in Rounds :
           est_sent'[j][q] = IF j = i /\ q = r THEN est_sent[i][r] \cup {e} ELSE est_sent[j][q]
  BY <1>2, <1>4, <1>6, OneChange
<1> QED
  BY <1>1, <1>3, <1>5, <1>7

\* An input is the first estimate of a node.
LEMMA GiveInputStep ==
  ASSUME IndInv, NEW i \in Correct, NEW v \in Inputs[i], GiveInput(i, v)
  PROVE  IndInv' /\ Grows
<1>1. v \in Bit /\ 0 \in Rounds
  BY InputAssumption, RoundAssumption DEF Rounds
<1>2. TypeOK
  BY DEF IndInv
<1>3. /\ StartRound(i, 0, v) /\ pc[i] = "input" /\ input' = [input EXCEPT ![i] = v]
      /\ coin' = coin /\ bin_values' = bin_values /\ aux_sent' = aux_sent
      /\ conf_msg' = conf_msg /\ values' = values /\ decided' = decided /\ heard' = heard
  BY DEF GiveInput
<1>4. /\ pc' \in [Correct -> Waits] /\ round' \in [Correct -> Rounds]
      /\ est' \in [Correct -> Bit \cup {None}]
      /\ est_sent' \in [Correct -> [Rounds -> SUBSET Bit]]
      /\ \A j \in Correct, q \in Rounds :
           est_sent'[j][q] = IF j = i /\ q = 0 THEN est_sent[j][q] \cup {v} ELSE est_sent[j][q]
      /\ \A j \in Correct : pc'[j] = IF j = i THEN "bin" ELSE pc[j]
      /\ \A j \in Correct : round'[j] = IF j = i THEN 0 ELSE round[j]
  BY <1>1, <1>2, <1>3, StartRoundTypes
<1>5. TypeOK'
  BY <1>1, <1>2, <1>3, <1>4 DEF TypeOK
<1>6. Unset' /\ Fresh'
  <2>1. round[i] = 0 /\ \A q \in Rounds : q > 0 \/ q = 0
    BY <1>3, RoundAssumption DEF IndInv, Unset, Rounds
  <2>2. \A q \in Rounds : conf_msg[i][q] = {}
    BY <1>3, <2>1 DEF IndInv, Fresh
  <2>3. Unset'
    BY <1>2, <1>3, <1>4 DEF IndInv, Unset, TypeOK
  <2>4. Fresh'
    BY <1>3, <1>4, <2>2 DEF IndInv, Fresh
  <2> QED
    BY <2>3, <2>4
<1>7. Grows
  <2>1. \A j \in Correct, q \in Rounds : est_sent[j][q] \subseteq est_sent'[j][q]
    BY <1>4
  <2> QED
    BY <1>3, <2>1 DEF Grows
<1>8. ConfBacked'
  BY <1>3 DEF IndInv, Backed, ConfBacked
<1>9. BinBacked'
  BY <1>3, <1>7, BinStays DEF IndInv, Backed
<1>10. InputBacked'
  <2> SUFFICES ASSUME NEW j \in Correct, NEW w \in est_sent'[j][0]
               PROVE  \E k \in Correct : input'[k] = w
    BY DEF InputBacked
  <2>1. input \in [Correct -> Bit \cup {None}] /\ est_sent \in [Correct -> [Rounds -> SUBSET Bit]]
    BY <1>2 DEF TypeOK
  <2>2. CASE w = v
    BY <1>3, <2>1, <2>2
  <2>3. CASE w \in est_sent[j][0]
    <3>1. PICK k \in Correct : input[k] = w
      BY <2>3 DEF IndInv, Backed, InputBacked
    <3>2. w # None
      BY <1>1, <2>1, <2>3, NoneAssumption
    <3>3. k # i
      BY <1>3, <3>1, <3>2 DEF IndInv, Unset
    <3> QED
      BY <1>3, <2>1, <3>1, <3>3
  <2> QED
    BY <1>1, <1>4, <2>2, <2>3
<1>11. EstBacked'
  <2>1. \A j \in Correct, q \in Rounds :
          est_sent'[j][q] \subseteq est_sent[j][q] \cup (IF j = i /\ q = 0 THEN {v} ELSE {})
    BY <1>4
  <2> QED
    BY <1>1, <1>2, <1>5, <1>7, <2>1, EstStays DEF IndInv, Backed
<1>12. AtCoin'
  <2> SUFFICES ASSUME NEW j \in Correct, NEW r \in Rounds, pc'[j] = "coin", round'[j] = r
               PROVE  HasHeard(j, r)'
    BY DEF AtCoin
  <2>1. j # i /\ pc[j] = "coin" /\ round[j] = r
    BY <1>4
  <2>2. HasHeard(j, r)
    BY <2>1 DEF IndInv, AtCoin
  <2> QED
    BY <1>2, <1>3, <1>5, <1>7, <2>2, HeardStays
<1>13. DecisionBacked'
  BY <1>2, <1>3, <1>7, DecisionsStay DEF IndInv
<1> QED
  BY <1>5, <1>6, <1>8, <1>9, <1>10, <1>11, <1>12, <1>13, <1>7 DEF IndInv, Backed

\* A value is repeated only if a correct node has sent it.
LEMMA RecvEstStep ==
  ASSUME IndInv, NEW i \in Correct, NEW r \in Rounds, NEW v \in Bit, RecvEst(i, r, v, Faulty)
  PROVE  IndInv' /\ Grows
<1>1. TypeOK
  BY DEF IndInv
<1>2. /\ est_sent \in [Correct -> [Rounds -> SUBSET Bit]]
      /\ bin_values \in [Correct -> [Rounds -> SUBSET Bit]]
  BY <1>1 DEF TypeOK
<1>3. /\ coin' = coin /\ input' = input /\ pc' = pc /\ round' = round /\ est' = est
      /\ aux_sent' = aux_sent /\ conf_msg' = conf_msg /\ values' = values /\ decided' = decided
      /\ heard' = heard
      /\ est_sent' = [est_sent EXCEPT ![i][r] = est_sent[i][r] \cup {v}]
      /\ \/ bin_values' = bin_values
         \/ bin_values' = [bin_values EXCEPT ![i][r] = bin_values[i][r] \cup {v}]
  BY DEF RecvEst
<1>4. est_sent[i][r] \cup {v} \in SUBSET Bit /\ bin_values[i][r] \cup {v} \in SUBSET Bit
  BY <1>2
<1>5. /\ est_sent' \in [Correct -> [Rounds -> SUBSET Bit]]
      /\ \A j \in Correct, q \in Rounds :
           est_sent'[j][q] = IF j = i /\ q = r THEN est_sent[i][r] \cup {v} ELSE est_sent[j][q]
  BY <1>2, <1>3, <1>4, OneChange
<1>6. /\ bin_values' \in [Correct -> [Rounds -> SUBSET Bit]]
      /\ \A j \in Correct, q \in Rounds :
           /\ bin_values[j][q] \subseteq bin_values'[j][q]
           /\ bin_values'[j][q] \subseteq bin_values[j][q] \cup est_sent'[j][q]
  <2>1. CASE bin_values' = bin_values
    BY <1>2, <2>1
  <2>2. CASE bin_values' = [bin_values EXCEPT ![i][r] = bin_values[i][r] \cup {v}]
    <3>1. /\ bin_values' \in [Correct -> [Rounds -> SUBSET Bit]]
          /\ \A j \in Correct, q \in Rounds :
               bin_values'[j][q] = IF j = i /\ q = r THEN bin_values[i][r] \cup {v} ELSE bin_values[j][q]
      BY <1>2, <1>4, <2>2, OneChange
    <3> QED
      BY <1>5, <3>1
  <2> QED
    BY <1>3, <2>1, <2>2
<1>7. TypeOK'
  BY <1>1, <1>3, <1>5, <1>6 DEF TypeOK
<1>8. Grows
  <2>1. \A j \in Correct, q \in Rounds : est_sent[j][q] \subseteq est_sent'[j][q]
    BY <1>5
  <2> QED
    BY <1>3, <1>6, <2>1 DEF Grows
<1>9. Unset' /\ Fresh'
  BY <1>3 DEF IndInv, Unset, Fresh
<1>10. ConfBacked'
  BY <1>3, <1>6 DEF IndInv, Backed, ConfBacked
<1>11. BinBacked'
  BY <1>6, <1>8, BinStays DEF IndInv, Backed
<1>12. PICK k \in Correct : v \in est_sent[k][r]
  <2> DEFINE S == {j \in Correct : v \in est_sent[j][r]}
  <2>1. S \cup Faulty = EstSenders(r, v, Faulty) /\ S \cup Faulty \in SUBSET Node
    BY FaultAssumption DEF EstSenders, Correct
  <2>2. Cardinality(S \cup Faulty) \in Nat
    BY <2>1, SubsetCard
  <2> DEFINE c == Cardinality(S \cup Faulty)
  <2>3. c >= f + 1 \/ c >= 2 * f + 1
    BY DEF RecvEst, EstSenders
  <2>4. c >= f + 1
    <3> HIDE DEF c
    <3>1. c \in Nat
      BY <2>2 DEF c
    <3> QED
      BY <2>3, <3>1, Numbers
  <2> QED
    BY <2>4, CorrectSender
<1>13. InputBacked'
  <2> SUFFICES ASSUME NEW j \in Correct, NEW w \in est_sent'[j][0]
               PROVE  \E l \in Correct : input[l] = w
    BY <1>3 DEF InputBacked
  <2>1. 0 \in Rounds
    BY RoundAssumption DEF Rounds
  <2>2. w \in est_sent[j][0] \/ (r = 0 /\ w = v)
    BY <1>5, <2>1
  <2>3. w \in est_sent[j][0] \/ w \in est_sent[k][0]
    BY <1>12, <2>2
  <2> QED
    BY <2>3 DEF IndInv, Backed, InputBacked
<1>14. EstBacked'
  <2>1. \A j \in Correct, q \in Rounds :
          est_sent'[j][q] \subseteq est_sent[j][q] \cup (IF j = i /\ q = r THEN {v} ELSE {})
    BY <1>5
  <2>2. ASSUME r > 0 PROVE FromBefore(r - 1, v)'
    <3>1. r - 1 \in Rounds /\ r - 1 < MaxRound /\ (r - 1) + 1 = r
      BY <2>2, RoundAssumption DEF Rounds
    <3>2. v \in est_sent[k][(r - 1) + 1]
      BY <1>12, <3>1
    <3>3. FromBefore(r - 1, v)
      BY <3>1, <3>2 DEF IndInv, Backed, EstBacked
    <3> QED
      BY <1>1, <1>7, <1>8, <3>1, <3>3, FromBeforeStays
  <2> QED
    BY <1>1, <1>7, <1>8, <2>1, <2>2, EstStays DEF IndInv, Backed
<1>15. AtCoin'
  <2> SUFFICES ASSUME NEW j \in Correct, NEW q \in Rounds, pc[j] = "coin", round[j] = q
               PROVE  HasHeard(j, q)'
    BY <1>3 DEF AtCoin
  <2>1. HasHeard(j, q)
    BY DEF IndInv, AtCoin
  <2> QED
    BY <1>1, <1>3, <1>7, <1>8, <2>1, HeardStays
<1>16. DecisionBacked'
  BY <1>1, <1>3, <1>8, DecisionsStay DEF IndInv
<1> QED
  BY <1>7, <1>9, <1>10, <1>11, <1>13, <1>14, <1>15, <1>16, <1>8 DEF IndInv, Backed

\* An AUX changes nothing that the invariant is about.
LEMMA SendAuxStep ==
  ASSUME IndInv, NEW i \in Correct, SendAux(i)
  PROVE  IndInv' /\ Grows
<1>1. TypeOK
  BY DEF IndInv
<1>2. /\ coin' = coin /\ input' = input /\ round' = round /\ est' = est /\ est_sent' = est_sent
      /\ bin_values' = bin_values /\ conf_msg' = conf_msg /\ values' = values /\ decided' = decided
      /\ heard' = heard
      /\ pc' = [pc EXCEPT ![i] = "aux"] /\ pc[i] = "bin"
      /\ aux_sent' = [aux_sent EXCEPT ![i][round[i]] = AnElement(bin_values[i][round[i]])]
  BY DEF SendAux
<1>3. round[i] \in Rounds /\ pc \in [Correct -> Waits] /\ "aux" \in Waits
  BY <1>1 DEF TypeOK, Waits
<1>4. aux_sent' \in [Correct -> [Rounds -> Bit \cup {None}]]
  <2>1. AnElement(bin_values[i][round[i]]) \in Bit \cup {None}
    BY DEF AnElement, Bit
  <2>2. aux_sent \in [Correct -> [Rounds -> Bit \cup {None}]]
    BY <1>1 DEF TypeOK
  <2> QED
    BY <1>2, <1>3, <2>1, <2>2, OneChange
<1>5. TypeOK'
  BY <1>1, <1>2, <1>3, <1>4 DEF TypeOK
<1>6. \A j \in Correct : pc'[j] = IF j = i THEN "aux" ELSE pc[j]
  BY <1>2, <1>3
<1>7. Unset' /\ Fresh'
  BY <1>2, <1>6 DEF IndInv, Unset, Fresh
<1>8. Grows
  BY <1>2 DEF Grows
<1>9. ConfBacked' /\ BinBacked'
  BY <1>2 DEF IndInv, Backed, ConfBacked, BinBacked
<1>10. InputBacked' /\ EstBacked'
  BY <1>1, <1>2, <1>5, <1>8, EstimatesStay DEF IndInv
<1>11. AtCoin'
  <2> SUFFICES ASSUME NEW j \in Correct, NEW r \in Rounds, pc'[j] = "coin", round'[j] = r
               PROVE  HasHeard(j, r)'
    BY DEF AtCoin
  <2>1. HasHeard(j, r)
    BY <1>2, <1>6 DEF IndInv, AtCoin
  <2> QED
    BY <1>1, <1>2, <1>5, <1>8, <2>1, HeardStays
<1>12. DecisionBacked'
  BY <1>1, <1>2, <1>8, DecisionsStay DEF IndInv
<1> QED
  BY <1>5, <1>7, <1>9, <1>10, <1>11, <1>12, <1>8 DEF IndInv, Backed

\* The first CONF of a node in its round names values it has output.
LEMMA SendConfStep ==
  ASSUME IndInv, NEW i \in Correct, SendConf(i, Faulty)
  PROVE  IndInv' /\ Grows
<1>1. TypeOK
  BY DEF IndInv
<1> DEFINE r == round[i]
<1>2. /\ coin' = coin /\ input' = input /\ round' = round /\ est' = est /\ est_sent' = est_sent
      /\ bin_values' = bin_values /\ aux_sent' = aux_sent /\ decided' = decided /\ heard' = heard
      /\ pc' = [pc EXCEPT ![i] = "conf"] /\ pc[i] = "aux"
      /\ conf_msg' = [conf_msg EXCEPT ![i][r] = bin_values[i][r]]
  BY DEF SendConf
<1>3. PICK V \in AuxOutcome(i, Faulty) : values' = [values EXCEPT ![i] = V]
  BY DEF SendConf
<1>4. V \in SUBSET Bit
  BY DEF AuxOutcome, Bit
<1>5. /\ r \in Rounds /\ pc \in [Correct -> Waits] /\ "conf" \in Waits
      /\ conf_msg \in [Correct -> [Rounds -> SUBSET Bit]]
      /\ bin_values \in [Correct -> [Rounds -> SUBSET Bit]]
      /\ values \in [Correct -> SUBSET Bit]
  BY <1>1 DEF TypeOK, Waits
<1> HIDE DEF r
<1>6. /\ conf_msg' \in [Correct -> [Rounds -> SUBSET Bit]]
      /\ \A j \in Correct, q \in Rounds :
           conf_msg'[j][q] = IF j = i /\ q = r THEN bin_values[i][r] ELSE conf_msg[j][q]
  BY <1>2, <1>5, OneChange
<1>7. TypeOK'
  BY <1>1, <1>2, <1>3, <1>4, <1>5, <1>6 DEF TypeOK
<1>8. /\ \A j \in Correct : pc'[j] = IF j = i THEN "conf" ELSE pc[j]
      /\ \A j \in Correct : j # i => values'[j] = values[j]
  BY <1>2, <1>3, <1>5
<1>9. Unset' /\ Fresh'
  <2>1. Unset'
    BY <1>2, <1>8 DEF IndInv, Unset
  <2>2. Fresh'
    <3> SUFFICES ASSUME NEW j \in Correct, NEW q \in Rounds,
                        q > round[j] \/ (q = round[j] /\ pc'[j] \in {"input", "bin", "aux"})
                 PROVE  conf_msg'[j][q] = {}
      BY <1>2 DEF Fresh
    <3>1. ~ (j = i /\ q = r)
      BY <1>5, <1>8, RoundAssumption DEF r, Rounds
    <3>2. q > round[j] \/ (q = round[j] /\ pc[j] \in {"input", "bin", "aux"})
      BY <1>8
    <3> QED
      BY <1>6, <3>1, <3>2 DEF IndInv, Fresh
  <2> QED
    BY <2>1, <2>2
<1>10. Grows
  <2>1. conf_msg[i][r] = {}
    BY <1>2, <1>5 DEF IndInv, Fresh, r
  <2> QED
    BY <1>2, <1>6, <2>1 DEF Grows
<1>11. ConfBacked'
  BY <1>2, <1>6 DEF IndInv, Backed, ConfBacked
<1>12. BinBacked'
  BY <1>2 DEF IndInv, Backed, BinBacked
<1>13. InputBacked' /\ EstBacked'
  BY <1>1, <1>2, <1>7, <1>10, EstimatesStay DEF IndInv
<1>14. AtCoin'
  <2> SUFFICES ASSUME NEW j \in Correct, NEW q \in Rounds, pc'[j] = "coin", round'[j] = q
               PROVE  HasHeard(j, q)'
    BY DEF AtCoin
  <2>1. HasHeard(j, q) /\ j # i
    BY <1>2, <1>8 DEF IndInv, AtCoin
  <2> QED
    BY <1>1, <1>7, <1>8, <1>10, <2>1, HeardStays
<1>15. DecisionBacked'
  BY <1>1, <1>2, <1>10, DecisionsStay DEF IndInv
<1> QED
  BY <1>7, <1>9, <1>11, <1>12, <1>13, <1>14, <1>15, <1>10 DEF IndInv, Backed

\* A quorum that a node has heard is one.
LEMMA HeardQuorum ==
  ASSUME HeardBefore, NEW i \in Correct, NEW r \in Rounds, NEW v \in Bit,
         Cardinality(ConfSenders(i, r, {v}, Faulty)) >= N - f
  PROVE  ConfQuorum(r, v)
<1>1. ConfSenders(i, r, {v}, Faulty) \subseteq Named(r, v)
  BY DEF ConfSenders, Conf, HeardBefore, Named
<1>2. Named(r, v) \in SUBSET Node
  BY ConfTypes
<1>3. /\ Cardinality(ConfSenders(i, r, {v}, Faulty)) <= Cardinality(Named(r, v))
      /\ Cardinality(ConfSenders(i, r, {v}, Faulty)) \in Nat
      /\ Cardinality(Named(r, v)) \in Nat
  BY <1>1, <1>2, MoreCard, SubsetCard
<1> QED
  BY <1>3, Numbers DEF ConfQuorum

\* A node goes to the coin with a quorum, or with both values.
LEMMA CallCoinStep ==
  ASSUME IndInv, HeardBefore, NEW i \in Correct, CallCoin(i, Faulty)
  PROVE  IndInv' /\ Grows
<1>1. TypeOK
  BY DEF IndInv
<1> DEFINE r == round[i]
<1>2. /\ coin' = coin /\ input' = input /\ round' = round /\ est' = est /\ est_sent' = est_sent
      /\ bin_values' = bin_values /\ aux_sent' = aux_sent /\ conf_msg' = conf_msg
      /\ decided' = decided /\ heard' = heard
      /\ pc' = [pc EXCEPT ![i] = "coin"] /\ pc[i] = "conf"
  BY DEF CallCoin
<1>3. PICK V \in ConfOutcome(i, Faulty) : values' = [values EXCEPT ![i] = V]
  BY DEF CallCoin
<1>4. V \in SUBSET Bit /\ V \subseteq bin_values[i][r]
  BY DEF ConfOutcome, Bit
<1>5. V = {0, 1} \/ \E v \in Bit : V = {v} /\ ConfQuorum(r, v)
  <2>1. CASE V = {0, 1}
    BY <2>1
  <2>2. CASE V # {0, 1}
    <3>1. V \in {{0}, {1}} /\ Cardinality(ConfSenders(i, r, V, Faulty)) >= N - f
      BY <2>2 DEF ConfOutcome
    <3>2. r \in Rounds
      BY <1>1 DEF TypeOK
    <3> HIDE DEF r
    <3>3. PICK v \in Bit : V = {v} /\ Cardinality(ConfSenders(i, r, {v}, Faulty)) >= N - f
      BY <3>1 DEF Bit
    <3> QED
      BY <3>2, <3>3, HeardQuorum
  <2> QED
    BY <2>1, <2>2
<1>6. /\ r \in Rounds /\ pc \in [Correct -> Waits] /\ "coin" \in Waits
      /\ bin_values \in [Correct -> [Rounds -> SUBSET Bit]]
      /\ values \in [Correct -> SUBSET Bit]
  BY <1>1 DEF TypeOK, Waits
<1> HIDE DEF r
<1>7. TypeOK'
  BY <1>1, <1>2, <1>3, <1>4, <1>6 DEF TypeOK
<1>8. /\ \A j \in Correct : pc'[j] = IF j = i THEN "coin" ELSE pc[j]
      /\ \A j \in Correct : values'[j] = IF j = i THEN V ELSE values[j]
  BY <1>2, <1>3, <1>6
<1>9. Unset' /\ Fresh'
  BY <1>2, <1>8 DEF IndInv, Unset, Fresh
<1>10. Grows
  BY <1>2 DEF Grows
<1>11. ConfBacked' /\ BinBacked'
  BY <1>2 DEF IndInv, Backed, ConfBacked, BinBacked
<1>12. InputBacked' /\ EstBacked'
  BY <1>1, <1>2, <1>7, <1>10, EstimatesStay DEF IndInv
<1>13. AtCoin'
  <2> SUFFICES ASSUME NEW j \in Correct, NEW q \in Rounds, pc'[j] = "coin", round'[j] = q
               PROVE  HasHeard(j, q)'
    BY DEF AtCoin
  <2>1. CASE j # i
    <3>1. HasHeard(j, q)
      BY <1>2, <1>8, <2>1 DEF IndInv, AtCoin
    <3> QED
      BY <1>1, <1>7, <1>8, <1>10, <2>1, <3>1, HeardStays
  <2>2. CASE j = i
    <3>1. q = r /\ values'[j] = V
      BY <1>2, <1>8, <2>2 DEF r
    <3>2. V = {0, 1} => bin_values'[j][q] = {0, 1}
      BY <1>2, <1>4, <1>6, <2>2, <3>1 DEF Bit
    <3>3. \A v \in Bit : ConfQuorum(q, v) => ConfQuorum(q, v)'
      BY <1>10, QuorumStays
    <3> QED
      BY <1>5, <3>1, <3>2, <3>3 DEF HasHeard
  <2> QED
    BY <2>1, <2>2
<1>14. DecisionBacked'
  BY <1>1, <1>2, <1>10, DecisionsStay DEF IndInv
<1> QED
  BY <1>7, <1>9, <1>11, <1>12, <1>13, <1>14, <1>10 DEF IndInv, Backed

\* The coin is a bit, and the one that is already known.
LEMMA CoinBits ==
  ASSUME TypeOK, NEW r \in Rounds, NEW s \in CoinValues(r)
  PROVE  s \in Bit /\ (coin[r] # None => coin[r] = s)
<1>1. CASE coin[r] # None
  BY <1>1 DEF CoinValues, TypeOK
<1>2. CASE coin[r] = None
  <2>1. PICK c \in Coins : s = c[r]
    BY <1>2 DEF CoinValues
  <2> QED
    BY <1>2, <2>1, CoinAssumption
<1> QED
  BY <1>1, <1>2

\* The estimate for the next round is backed by this one.
LEMMA NewEstimateBacked ==
  ASSUME NEW i \in Correct, NEW r \in Rounds, NEW s \in Bit, HasHeard(i, r)
  PROVE  /\ NewEstimate(values[i], s) \in Bit
         /\ ConfQuorum(r, NewEstimate(values[i], s))
            \/ (NewEstimate(values[i], s) = s /\ bin_values[i][r] = {0, 1})
<1>1. CASE values[i] = {0, 1} /\ bin_values[i][r] = {0, 1}
  <2>1. {0, 1} # {0} /\ {0, 1} # {1}
    <3>1. 0 \in {0, 1} /\ 1 \in {0, 1} /\ 0 \notin {1} /\ 1 \notin {0}
      OBVIOUS
    <3> QED
      BY <3>1
  <2>2. values[i] \notin {{0}, {1}}
    BY <1>1, <2>1
  <2> QED
    BY <1>1, <2>2 DEF NewEstimate
<1>2. ASSUME NEW v \in Bit, values[i] = {v}, ConfQuorum(r, v)
      PROVE  NewEstimate(values[i], s) = v
  <2>1. v = 0 \/ v = 1
    BY DEF Bit
  <2>2. CASE v = 0
    BY <1>2, <2>2 DEF NewEstimate, AnElement
  <2>3. CASE v = 1
    BY <1>2, <2>3 DEF NewEstimate, AnElement
  <2> QED
    BY <2>1, <2>2, <2>3
<1> QED
  BY <1>1, <1>2 DEF HasHeard

\* The next estimate comes from the quorum or from the coin.
LEMMA RecvCoinStep ==
  ASSUME IndInv, NEW i \in Correct, RecvCoin(i, Faulty)
  PROVE  IndInv' /\ Grows
<1>1. TypeOK
  BY DEF IndInv
<1>2. PICK r \in Rounds : r = round[i]
  BY <1>1 DEF TypeOK
<1>3. PICK s \in CoinValues(r) :
        /\ pc[i] = "coin"
        /\ decided' = IF values[i] = {s} /\ decided[i] = None
                      THEN [decided EXCEPT ![i] = s] ELSE decided
        /\ IF values[i] = {s} /\ decided[i] = s
           THEN pc' = [pc EXCEPT ![i] = "quit"] /\ UNCHANGED <<est, round, est_sent>>
           ELSE IF r = MaxRound
           THEN pc' = [pc EXCEPT ![i] = "bound"] /\ UNCHANGED <<est, round, est_sent>>
           ELSE StartRound(i, r + 1, NewEstimate(values[i], s))
        /\ coin' = [coin EXCEPT ![r] = s]
        /\ UNCHANGED <<input, bin_values, aux_sent, conf_msg, values, heard>>
  BY <1>2 DEF RecvCoin
<1>4. /\ pc \in [Correct -> Waits] /\ "quit" \in Waits /\ "bound" \in Waits
      /\ coin \in [Rounds -> Bit \cup {None}] /\ decided \in [Correct -> Bit \cup {None}]
  BY <1>1 DEF TypeOK, Waits
<1>5. s \in Bit /\ (coin[r] # None => coin[r] = s)
  BY <1>1, CoinBits
<1>6. HasHeard(i, r)
  BY <1>2, <1>3 DEF IndInv, AtCoin
<1>7. PICK e \in Bit : /\ e = NewEstimate(values[i], s)
                       /\ ConfQuorum(r, e) \/ (e = s /\ bin_values[i][r] = {0, 1})
  BY <1>5, <1>6, NewEstimateBacked
<1>8. /\ coin' \in [Rounds -> Bit \cup {None}] /\ coin'[r] = s
      /\ \A q \in Rounds : coin[q] # None => coin'[q] = coin[q]
      /\ decided' \in [Correct -> Bit \cup {None}]
      /\ input' = input /\ bin_values' = bin_values /\ aux_sent' = aux_sent
      /\ conf_msg' = conf_msg /\ values' = values /\ heard' = heard
  BY <1>3, <1>4, <1>5
\* What the ways to go on have in common.
<1>9. ASSUME TypeOK', Unset', Fresh', Backed', Grows,
             \A j \in Correct : pc'[j] = "coin" => pc[j] = "coin" /\ round'[j] = round[j]
      PROVE  IndInv' /\ Grows
  <2>1. AtCoin'
    <3> SUFFICES ASSUME NEW j \in Correct, NEW q \in Rounds, pc'[j] = "coin", round'[j] = q
                 PROVE  HasHeard(j, q)'
      BY DEF AtCoin
    <3>1. HasHeard(j, q)
      BY <1>9 DEF IndInv, AtCoin
    <3> QED
      BY <1>1, <1>8, <1>9, <3>1, HeardStays
  <2>2. DecisionBacked'
    <3>1. CASE decided' = decided
      BY <1>1, <1>9, <3>1, DecisionsStay DEF IndInv
    <3>2. CASE values[i] = {s} /\ decided' = [decided EXCEPT ![i] = s]
      <4>1. ConfQuorum(r, s)
        <5>1. {s} # {0, 1}
          OBVIOUS
        <5>2. PICK v \in Bit : values[i] = {v} /\ ConfQuorum(r, v)
          BY <1>6, <3>2, <5>1 DEF HasHeard
        <5>3. v = s
          BY <3>2, <5>2
        <5> QED
          BY <5>2, <5>3
      <4>2. ConfQuorum(r, s)'
        BY <1>9, <4>1, QuorumStays
      <4> SUFFICES ASSUME NEW j \in Correct, NEW d, d = decided'[j], d # None
                   PROVE  \E q \in Rounds : coin'[q] = d /\ ConfQuorum(q, d)'
        BY DEF DecisionBacked, Decided
      <4>3. CASE j = i
        <5>1. d = s
          BY <1>4, <3>2, <4>3
        <5> QED
          BY <1>8, <4>2, <5>1
      <4>4. CASE j # i
        <5>1. d = decided[j]
          BY <1>4, <3>2, <4>4
        <5>2. PICK q \in Rounds : coin[q] = d /\ ConfQuorum(q, d)
          BY <5>1 DEF IndInv, DecisionBacked, Decided
        <5>3. ConfQuorum(q, d)'
          BY <1>9, <5>2, QuorumStays
        <5>4. coin'[q] = d
          BY <1>8, <5>2
        <5> QED
          BY <5>3, <5>4
      <4> QED
        BY <4>3, <4>4
    <3> QED
      BY <1>3, <3>1, <3>2
  <2> QED
    BY <1>9, <2>1, <2>2 DEF IndInv
<1>10. CASE r < MaxRound /\ StartRound(i, r + 1, e)
  <2>1. r + 1 \in Rounds /\ (r + 1) - 1 = r /\ r + 1 > r /\ 0 \in Rounds /\ 0 # r + 1
    BY <1>10, RoundAssumption DEF Rounds
  <2>2. /\ pc' \in [Correct -> Waits] /\ round' \in [Correct -> Rounds]
        /\ est' \in [Correct -> Bit \cup {None}]
        /\ est_sent' \in [Correct -> [Rounds -> SUBSET Bit]]
        /\ \A j \in Correct, q \in Rounds :
             est_sent'[j][q] = IF j = i /\ q = r + 1 THEN est_sent[j][q] \cup {e} ELSE est_sent[j][q]
        /\ \A j \in Correct : pc'[j] = IF j = i THEN "bin" ELSE pc[j]
        /\ \A j \in Correct : round'[j] = IF j = i THEN r + 1 ELSE round[j]
    BY <1>1, <1>10, <2>1, StartRoundTypes
  <2>3. TypeOK'
    BY <1>1, <1>8, <2>2 DEF TypeOK
  <2>4. Grows
    <3>1. \A j \in Correct, q \in Rounds : est_sent[j][q] \subseteq est_sent'[j][q]
      BY <2>2
    <3> QED
      BY <1>8, <3>1 DEF Grows
  <2>5. Unset'
    BY <1>8, <2>2 DEF IndInv, Unset
  <2>6. Fresh'
    <3> SUFFICES ASSUME NEW j \in Correct, NEW q \in Rounds,
                        q > round'[j] \/ (q = round'[j] /\ pc'[j] \in {"input", "bin", "aux"})
                 PROVE  conf_msg[j][q] = {}
      BY <1>8 DEF Fresh
    <3>1. CASE j = i
      <4>1. q > r
        BY <2>2, <3>1, RoundAssumption DEF Rounds
      <4> QED
        BY <1>2, <3>1, <4>1 DEF IndInv, Fresh
    <3>2. CASE j # i
      BY <2>2, <3>2 DEF IndInv, Fresh
    <3> QED
      BY <3>1, <3>2
  <2>7. ConfBacked'
    BY <1>8 DEF IndInv, Backed, ConfBacked
  <2>8. BinBacked'
    BY <1>8, <2>4, BinStays DEF IndInv, Backed
  <2>9. InputBacked'
    <3>1. \A j \in Correct : est_sent'[j][0] = est_sent[j][0]
      BY <2>1, <2>2
    <3> QED
      BY <1>8, <3>1, InputsStay DEF IndInv, Backed
  <2>10. EstBacked'
    <3>1. FromBefore(r, e)'
      <4>1. CASE ConfQuorum(r, e)
        BY <2>4, <4>1, QuorumStays DEF FromBefore
      <4>2. CASE e = s /\ bin_values[i][r] = {0, 1}
        BY <1>8, <4>2 DEF FromBefore
      <4> QED
        BY <1>7, <4>1, <4>2
    <3>2. FromBefore((r + 1) - 1, e)'
      BY <2>1, <3>1
    <3>3. \A j \in Correct, q \in Rounds :
            est_sent'[j][q] \subseteq est_sent[j][q] \cup (IF j = i /\ q = r + 1 THEN {e} ELSE {})
      BY <2>2
    <3> QED
      BY <1>1, <2>1, <2>3, <2>4, <3>2, <3>3, EstStays DEF IndInv, Backed
  <2>11. \A j \in Correct : pc'[j] = "coin" => pc[j] = "coin" /\ round'[j] = round[j]
    BY <2>2
  <2> QED
    BY <1>9, <2>3, <2>4, <2>5, <2>6, <2>7, <2>8, <2>9, <2>10, <2>11 DEF Backed
<1>11. CASE /\ est' = est /\ round' = round /\ est_sent' = est_sent
            /\ \E end \in {"quit", "bound"} : pc' = [pc EXCEPT ![i] = end]
  <2>1. /\ pc' \in [Correct -> Waits]
        /\ \A j \in Correct : j # i => pc'[j] = pc[j]
        /\ pc'[i] \in {"quit", "bound"}
    BY <1>4, <1>11
  <2>2. TypeOK'
    BY <1>1, <1>8, <1>11, <2>1 DEF TypeOK
  <2>3. Grows
    BY <1>8, <1>11 DEF Grows
  <2>4. Unset' /\ Fresh'
    <3>1. \A j \in Correct : pc'[j] \in {"input", "bin", "aux"} => pc'[j] = pc[j]
      BY <2>1
    <3>2. \A j \in Correct : pc'[j] = "input" => pc[j] = "input"
      BY <2>1
    <3> QED
      BY <1>8, <1>11, <3>1, <3>2 DEF IndInv, Unset, Fresh
  <2>5. ConfBacked' /\ BinBacked'
    BY <1>8, <1>11 DEF IndInv, Backed, ConfBacked, BinBacked
  <2>6. InputBacked' /\ EstBacked'
    BY <1>1, <1>8, <1>11, <2>2, <2>3, EstimatesStay DEF IndInv
  <2>7. \A j \in Correct : pc'[j] = "coin" => pc[j] = "coin" /\ round'[j] = round[j]
    BY <1>11, <2>1
  <2> QED
    BY <1>9, <2>2, <2>3, <2>4, <2>5, <2>6, <2>7 DEF Backed
<1>12. \/ r < MaxRound /\ StartRound(i, r + 1, e)
       \/ /\ est' = est /\ round' = round /\ est_sent' = est_sent
          /\ \E end \in {"quit", "bound"} : pc' = [pc EXCEPT ![i] = end]
  <2>1. r < MaxRound \/ r = MaxRound
    BY RoundAssumption DEF Rounds
  <2> QED
    BY <1>3, <1>7, <2>1
<1> QED
  BY <1>10, <1>11, <1>12

-----------------------------------------------------------------------------

\* Nothing has been sent at first.
LEMMA Initial == Init => IndInv
<1> SUFFICES ASSUME Init PROVE IndInv
  OBVIOUS
<1>1. 0 \in Rounds
  BY RoundAssumption DEF Rounds
<1>2. TypeOK
  BY <1>1 DEF Init, TypeOK, Waits
<1>3. Unset /\ Fresh
  BY DEF Init, Unset, Fresh
<1>4. ConfBacked /\ BinBacked
  BY DEF Init, ConfBacked, BinBacked
<1>5. \A i \in Correct, q \in Rounds : est_sent[i][q] = {}
  BY DEF Init
<1>6. InputBacked
  BY <1>1, <1>5 DEF InputBacked
<1>7. EstBacked
  <2>1. \A q \in Rounds : q < MaxRound => q + 1 \in Rounds
    BY RoundAssumption DEF Rounds
  <2> QED
    BY <1>5, <2>1 DEF EstBacked
<1>8. AtCoin /\ DecisionBacked
  BY DEF Init, AtCoin, DecisionBacked, Decided
<1> QED
  BY <1>2, <1>3, <1>4, <1>6, <1>7, <1>8 DEF IndInv, Backed

\* A step that changes nothing that the invariant is about but its types.
LEMMA NothingSent ==
  ASSUME IndInv, TypeOK',
         UNCHANGED <<coin, input, pc, round, est, est_sent, bin_values, aux_sent, conf_msg,
                     values, decided>>
  PROVE  IndInv' /\ Grows
<1>1. Unset' /\ Fresh'
  BY DEF IndInv, Unset, Fresh
<1>2. Grows
  BY DEF Grows
<1>3. ConfBacked' /\ BinBacked'
  BY DEF IndInv, Backed, ConfBacked, BinBacked
<1>4. InputBacked' /\ EstBacked'
  BY <1>2, EstimatesStay DEF IndInv
<1>5. AtCoin'
  <2> SUFFICES ASSUME NEW j \in Correct, NEW q \in Rounds, pc[j] = "coin", round[j] = q
               PROVE  HasHeard(j, q)'
    BY DEF AtCoin
  <2>1. HasHeard(j, q)
    BY DEF IndInv, AtCoin
  <2> QED
    BY <1>2, <2>1, HeardStays DEF IndInv
<1>6. DecisionBacked'
  BY <1>2, DecisionsStay DEF IndInv
<1> QED
  BY <1>1, <1>2, <1>3, <1>4, <1>5, <1>6 DEF IndInv, Backed

\* An error changes no message, and what it leaves behind has the types of messages.
LEMMA RaiseStep ==
  ASSUME IndInv, NEW i \in Correct, Raise(i)
  PROVE  IndInv' /\ Grows
<1>1. /\ heard' = [heard EXCEPT ![i] = [aux |-> aux_sent, conf |-> conf_msg]]
      /\ UNCHANGED <<coin, input, pc, round, est, est_sent, bin_values, aux_sent, conf_msg,
                     values, decided>>
  BY DEF Raise
<1>2. TypeOK'
  BY <1>1 DEF IndInv, TypeOK
<1> QED
  BY <1>1, <1>2, NothingSent

\* Every step keeps the invariant and takes nothing back.
LEMMA Inductive == IndInv /\ HeardBefore /\ [Next]_vars => IndInv' /\ Grows
<1> SUFFICES ASSUME IndInv, HeardBefore, [Next]_vars PROVE IndInv' /\ Grows
  OBVIOUS
<1>1. ASSUME NEW i \in Correct, NEW v \in Inputs[i], GiveInput(i, v) PROVE IndInv' /\ Grows
  BY <1>1, GiveInputStep
<1>2. ASSUME NEW i \in Correct, NEW r \in Rounds, NEW v \in Bit, RecvEst(i, r, v, Faulty)
      PROVE  IndInv' /\ Grows
  BY <1>2, RecvEstStep
<1>3. ASSUME NEW i \in Correct, SendAux(i) PROVE IndInv' /\ Grows
  BY <1>3, SendAuxStep
<1>4. ASSUME NEW i \in Correct, SendConf(i, Faulty) PROVE IndInv' /\ Grows
  BY <1>4, SendConfStep
<1>5. ASSUME NEW i \in Correct, CallCoin(i, Faulty) PROVE IndInv' /\ Grows
  BY <1>5, CallCoinStep
<1>6. ASSUME NEW i \in Correct, RecvCoin(i, Faulty) PROVE IndInv' /\ Grows
  BY <1>6, RecvCoinStep
<1>7. ASSUME NEW i \in Correct, Raise(i) PROVE IndInv' /\ Grows
  BY <1>7, RaiseStep
<1>8. CASE UNCHANGED vars
  <2>1. TypeOK'
    BY <1>8 DEF vars, IndInv, TypeOK
  <2> QED
    BY <1>8, <2>1, NothingSent DEF vars
<1> QED
  BY <1>1, <1>2, <1>3, <1>4, <1>5, <1>6, <1>7, <1>8, VictimAssumption DEF Next, Step

\* A receive loop that ends, ends with CONF messages that have been sent.
LEMMA HeardStaysBefore == IndInv /\ HeardBefore /\ [Next]_vars => HeardBefore'
<1> SUFFICES ASSUME IndInv, HeardBefore, [Next]_vars PROVE HeardBefore'
  OBVIOUS
<1>1. Grows
  BY Inductive
<1>2. CASE heard' = heard
  BY <1>1, <1>2 DEF HeardBefore, Grows
<1>3. ASSUME NEW i \in Correct, Raise(i) PROVE HeardBefore'
  <2>1. /\ heard' = [heard EXCEPT ![i] = [aux |-> aux_sent, conf |-> conf_msg]]
        /\ conf_msg' = conf_msg
    BY <1>3 DEF Raise
  <2>2. heard = [k \in Correct |-> heard[k]]
    BY DEF IndInv, TypeOK
  <2>3. \A k \in Correct : heard'[k] = IF k = i THEN [aux |-> aux_sent, conf |-> conf_msg] ELSE heard[k]
    BY <2>1, <2>2
  <2> QED
    BY <2>1, <2>3 DEF HeardBefore
<1>4. heard' = heard \/ \E i \in Correct : Raise(i)
  BY VictimAssumption DEF Next, Step, GiveInput, RecvEst, SendAux, SendConf, CallCoin, RecvCoin, vars
<1> QED
  BY <1>2, <1>3, <1>4

\* What stands behind the messages, the coin and the decisions holds at all times.
THEOREM Invariance == Spec => []IndInv /\ []HeardBefore
<1>1. Init => HeardBefore
  BY DEF Init, HeardBefore
<1> QED
  BY <1>1, Initial, Inductive, HeardStaysBefore, PTL DEF Spec

-----------------------------------------------------------------------------
(* What it yields.                                                         *)

\* The state keeps its types: estimates, coins and decisions are bits and no node
\* is in a round beyond the bound.
THEOREM TypeCorrect == Spec => []TypeOK
<1>1. IndInv => TypeOK
  BY DEF IndInv
<1> QED
  BY <1>1, Invariance, PTL

\* Two nodes at the same coin have not settled on opposite values: each value would
\* have a quorum of CONF messages, and these would share a correct sender.
THEOREM NoOppositeValuesTheorem == Spec => []NoOppositeValues
<1>1. IndInv => NoOppositeValues
  <2> SUFFICES ASSUME IndInv, NEW i \in Correct, NEW j \in Correct,
                      pc[i] = "coin", pc[j] = "coin", round[i] = round[j],
                      values[i] = {0}, values[j] = {1}
               PROVE  FALSE
    BY DEF NoOppositeValues
  <2>1. round[i] \in Rounds
    BY DEF IndInv, TypeOK
  <2>2. HasHeard(i, round[i]) /\ HasHeard(j, round[i])
    BY <2>1 DEF IndInv, AtCoin
  <2>3. ConfQuorum(round[i], 0) /\ ConfQuorum(round[i], 1)
    BY <2>2 DEF HasHeard, Bit
  <2> QED
    BY <2>3, OneQuorum
<1> QED
  BY <1>1, Invariance, PTL

\* Every value that is ever an estimate was an input: take the first round in which
\* one that was not is sent; it comes from the round before, where it was sent too.
LEMMA SentWasInput ==
  ASSUME IndInv, NEW i \in Correct, NEW r \in Rounds, NEW v \in est_sent[i][r]
  PROVE  \E k \in Correct : input[k] = v
<1> SUFFICES ASSUME \A k \in Correct : input[k] # v PROVE FALSE
  OBVIOUS
<1> DEFINE T == {q \in Rounds : \E k \in Correct : v \in est_sent[k][q]}
<1>1. T \in SUBSET Nat /\ T # {}
  BY RoundAssumption DEF Rounds
<1>2. PICK q \in T : \A p \in T : q <= p
  <2> HIDE DEF T
  <2> QED
    BY <1>1, Least
<1>3. PICK k \in Correct : v \in est_sent[k][q]
  BY <1>2
<1>4. CASE q = 0
  BY <1>3, <1>4 DEF IndInv, Backed, InputBacked
<1>5. CASE q # 0
  <2>1. q - 1 \in Rounds /\ q - 1 < MaxRound /\ (q - 1) + 1 = q /\ ~ (q <= q - 1)
    BY <1>5, RoundAssumption DEF Rounds
  <2>2. FromBefore(q - 1, v)
    <3>1. v \in est_sent[k][(q - 1) + 1]
      BY <1>3, <2>1
    <3> QED
      BY <2>1, <3>1 DEF IndInv, Backed, EstBacked
  <2>3. v \in Bit
    BY <1>3 DEF IndInv, TypeOK
  <2>4. \E l \in Correct : v \in est_sent[l][q - 1]
    <3>1. CASE ConfQuorum(q - 1, v)
      BY <2>1, <3>1, QuorumSent DEF IndInv, Backed
    <3>2. CASE \E l \in Correct : bin_values[l][q - 1] = {0, 1}
      <4>1. PICK l \in Correct : bin_values[l][q - 1] = {0, 1}
        BY <3>2
      <4>2. v \in bin_values[l][q - 1]
        BY <2>3, <4>1 DEF Bit
      <4> QED
        BY <2>1, <4>2 DEF IndInv, Backed, BinBacked
    <3> QED
      BY <2>2, <3>1, <3>2 DEF FromBefore
  <2>5. q - 1 \in T
    BY <2>1, <2>4
  <2> QED
    BY <1>2, <2>1, <2>5
<1> QED
  BY <1>4, <1>5

\* What a correct node decides was the input of a correct node.
THEOREM ValidityTheorem == Spec => []Validity
<1>1. IndInv => Validity
  <2> SUFFICES ASSUME IndInv, NEW i \in Decided
               PROVE  \E j \in Correct : input[j] = decided[i]
    BY DEF Validity
  <2>1. PICK r \in Rounds : coin[r] = decided[i] /\ ConfQuorum(r, decided[i])
    BY DEF IndInv, DecisionBacked
  <2>2. PICK k \in Correct : decided[i] \in est_sent[k][r]
    BY <2>1, QuorumSent DEF IndInv, Backed
  <2> QED
    BY <2>2, SentWasInput
<1> QED
  BY <1>1, Invariance, PTL

\* After a round with a quorum for its coin's value, no other value is ever sent.
LEMMA OneValueAfter ==
  ASSUME IndInv, NEW r \in Rounds, NEW v, coin[r] = v, ConfQuorum(r, v),
         NEW q \in Rounds, q > r, NEW k \in Correct
  PROVE  est_sent[k][q] \subseteq {v}
<1> SUFFICES ASSUME ~ (est_sent[k][q] \subseteq {v}) PROVE FALSE
  OBVIOUS
<1> DEFINE T == {p \in Rounds : p > r /\ \E l \in Correct : ~ (est_sent[l][p] \subseteq {v})}
<1>1. T \in SUBSET Nat /\ T # {}
  BY RoundAssumption DEF Rounds
<1>2. PICK p \in T : \A x \in T : p <= x
  <2> HIDE DEF T
  <2> QED
    BY <1>1, Least
<1>3. PICK l \in Correct : ~ (est_sent[l][p] \subseteq {v})
  BY <1>2
<1>4. PICK w \in est_sent[l][p] : w # v
  BY <1>3
<1>5. /\ p - 1 \in Rounds /\ p - 1 < MaxRound /\ (p - 1) + 1 = p /\ p - 1 >= r
      /\ ~ (p <= p - 1)
  BY <1>2, RoundAssumption DEF Rounds
<1>6. FromBefore(p - 1, w)
  <2>1. w \in est_sent[l][(p - 1) + 1]
    BY <1>4, <1>5
  <2> QED
    BY <1>5, <2>1 DEF IndInv, Backed, EstBacked
<1>7. w \in Bit
  BY <1>4 DEF IndInv, TypeOK
<1>8. CASE p - 1 = r
  <2>1. CASE ConfQuorum(p - 1, w)
    BY <1>4, <1>8, <2>1, OneQuorum
  <2>2. CASE coin[p - 1] = w
    BY <1>4, <1>8, <2>2
  <2> QED
    BY <1>6, <2>1, <2>2 DEF FromBefore
<1>9. CASE p - 1 # r
  <2>1. p - 1 > r
    BY <1>5, <1>9, RoundAssumption DEF Rounds
  <2>2. PICK m \in Correct : w \in est_sent[m][p - 1]
    <3>1. CASE ConfQuorum(p - 1, w)
      BY <1>5, <3>1, QuorumSent DEF IndInv, Backed
    <3>2. CASE \E m \in Correct : bin_values[m][p - 1] = {0, 1}
      <4>1. PICK m \in Correct : bin_values[m][p - 1] = {0, 1}
        BY <3>2
      <4>2. w \in bin_values[m][p - 1]
        BY <1>7, <4>1 DEF Bit
      <4> QED
        BY <1>5, <4>2 DEF IndInv, Backed, BinBacked
    <3> QED
      BY <1>6, <3>1, <3>2 DEF FromBefore
  <2>3. p - 1 \in T
    BY <1>4, <1>5, <2>1, <2>2
  <2> QED
    BY <1>2, <1>5, <2>3
<1> QED
  BY <1>8, <1>9

\* Decisions of correct nodes agree, whatever the rounds they were made in: a later
\* one needs a quorum for a value that no correct node sends any more.
THEOREM AgreementTheorem == Spec => []Agreement
<1>1. IndInv => Agreement
  <2> SUFFICES ASSUME IndInv, NEW i \in Decided, NEW j \in Decided
               PROVE  decided[i] = decided[j]
    BY DEF Agreement
  <2>1. PICK r \in Rounds : coin[r] = decided[i] /\ ConfQuorum(r, decided[i])
    BY DEF IndInv, DecisionBacked
  <2>2. PICK q \in Rounds : coin[q] = decided[j] /\ ConfQuorum(q, decided[j])
    BY DEF IndInv, DecisionBacked
  <2>3. CASE r = q
    BY <2>1, <2>2, <2>3
  <2>4. CASE q > r
    <3>1. PICK k \in Correct : decided[j] \in est_sent[k][q]
      BY <2>2, QuorumSent DEF IndInv, Backed
    <3>2. est_sent[k][q] \subseteq {decided[i]}
      BY <2>1, <2>4, OneValueAfter
    <3> QED
      BY <3>1, <3>2
  <2>5. CASE r > q
    <3>1. PICK k \in Correct : decided[i] \in est_sent[k][r]
      BY <2>1, QuorumSent DEF IndInv, Backed
    <3>2. est_sent[k][r] \subseteq {decided[j]}
      BY <2>2, <2>5, OneValueAfter
    <3> QED
      BY <3>1, <3>2
  <2>6. r = q \/ q > r \/ r > q
    BY RoundAssumption DEF Rounds
  <2> QED
    BY <2>3, <2>4, <2>5, <2>6
<1> QED
  BY <1>1, Invariance, PTL

-----------------------------------------------------------------------------
(* BinaryAgreement implements AgreedBit.                                   *)

\* A node that has begun has its input.
Started == \A i \in Correct : pc[i] # "input" => input[i] # None

\* It begins when it is given one, and keeps it.
LEMMA StartedStays == IndInv /\ Started /\ [Next]_vars => Started'
<1> SUFFICES ASSUME IndInv, Started, [Next]_vars PROVE Started'
  OBVIOUS
<1>1. input \in [Correct -> Bit \cup {None}] /\ pc \in [Correct -> Waits]
  BY DEF IndInv, TypeOK
<1>2. ASSUME NEW i \in Correct, NEW v \in Inputs[i], GiveInput(i, v) PROVE Started'
  <2>1. v # None
    BY InputAssumption, NoneAssumption
  <2>2. input' = [input EXCEPT ![i] = v] /\ pc' = [pc EXCEPT ![i] = "bin"]
    BY <1>2 DEF GiveInput, StartRound
  <2> QED
    BY <1>1, <2>1, <2>2 DEF Started
<1>3. ASSUME NEW i \in Correct, Step(i, Faulty)
      PROVE  input' = input /\ \A j \in Correct : pc[j] = "input" => pc'[j] = "input"
  <2>1. CASE \E r \in Rounds, v \in Bit : RecvEst(i, r, v, Faulty)
    BY <2>1 DEF RecvEst
  <2>2. CASE SendAux(i)
    BY <1>1, <2>2 DEF SendAux
  <2>3. CASE SendConf(i, Faulty)
    BY <1>1, <2>3 DEF SendConf
  <2>4. CASE CallCoin(i, Faulty)
    BY <1>1, <2>4 DEF CallCoin
  <2>5. CASE RecvCoin(i, Faulty)
    BY <1>1, <2>5 DEF RecvCoin, StartRound
  <2> QED
    BY <1>3, <2>1, <2>2, <2>3, <2>4, <2>5 DEF Step
<1>4. CASE UNCHANGED <<input, pc>>
  BY <1>4 DEF Started
<1> QED
  BY <1>2, <1>3, <1>4 DEF Next, Started, Raise, vars

\* The instance of AgreedBit counts in the same way.
LEMMA SameCardinality == \A S : Bits!Cardinality(S) = Cardinality(S)
BY DEF Cardinality, Bits!Cardinality, IsFiniteSet, Bits!IsFiniteSet

\* A quorum of CONF messages is of nodes that take part.
LEMMA QuorumTakesPart ==
  ASSUME IndInv, Started, NEW r \in Rounds, NEW v, ConfQuorum(r, v)
  PROVE  Cardinality(Bits!TakePart) >= N - f
<1>1. Named(r, v) \subseteq Bits!TakePart
  <2> SUFFICES ASSUME NEW j \in Correct, conf_msg[j][r] = {v} PROVE input[j] # None
    BY DEF Named, Bits!TakePart, Bits!Correct, Correct
  <2>1. pc[j] # "input"
    <3> SUFFICES ASSUME pc[j] = "input" PROVE FALSE
      OBVIOUS
    <3>1. round[j] = 0 /\ (r > 0 \/ r = 0)
      BY RoundAssumption DEF IndInv, Unset, Rounds
    <3>2. conf_msg[j][r] = {}
      BY <3>1 DEF IndInv, Fresh
    <3> QED
      BY <3>2
  <2> QED
    BY <2>1 DEF Started
<1>2. Bits!TakePart \in SUBSET Node
  BY FaultAssumption DEF Bits!TakePart, Bits!Correct
<1>3. Cardinality(Named(r, v)) <= Cardinality(Bits!TakePart)
  BY <1>1, <1>2, MoreCard
<1>4. Cardinality(Named(r, v)) \in Nat
  BY ConfTypes, SubsetCard
<1>5. Cardinality(Bits!TakePart) \in Nat
  BY <1>2, SubsetCard
<1>6. N - f \in Int
  BY Numbers
<1> QED
  BY <1>3, <1>4, <1>5, <1>6 DEF ConfQuorum

\* So where a node has decided, N-f nodes take part.
EnoughTakePart == Decided # {} => Cardinality(Bits!TakePart) >= N - f

\* By the CONF messages behind the decision.
LEMMA DecisionTakesPart == IndInv /\ Started => EnoughTakePart
<1> SUFFICES ASSUME IndInv, Started, NEW i \in Decided PROVE Cardinality(Bits!TakePart) >= N - f
  BY DEF EnoughTakePart
<1>1. PICK r \in Rounds : coin[r] = decided[i] /\ ConfQuorum(r, decided[i])
  BY DEF IndInv, DecisionBacked
<1> QED
  BY <1>1, QuorumTakesPart

\* Every step is one of AgreedBit or leaves its variables alone.
LEMMA RefinementStep ==
  IndInv /\ Started /\ [Next]_vars /\ IndInv' /\ EnoughTakePart' /\ Agreement' /\ Validity'
    => [Bits!Next]_(Bits!vars)
<1> SUFFICES ASSUME IndInv, Started, [Next]_vars, IndInv', EnoughTakePart', Agreement', Validity'
             PROVE  [Bits!Next]_(Bits!vars)
  OBVIOUS
<1>1. ASSUME NEW i \in Correct, NEW v \in Inputs[i], GiveInput(i, v) PROVE Bits!Next
  <2>1. input[i] = None
    BY <1>1 DEF GiveInput, IndInv, Unset
  <2>2. Bits!Give(i, v)
    BY <1>1, <2>1 DEF GiveInput, Bits!Give
  <2>3. v \in Bit
    BY InputAssumption
  <2> QED
    BY <2>2, <2>3 DEF Bits!Next, Bits!Correct, Bits!Bit, Correct, Bit
<1>2. ASSUME NEW i \in Correct, RecvCoin(i, Faulty) PROVE [Bits!Next]_(Bits!vars)
  <2>1. PICK s : /\ decided' = IF values[i] = {s} /\ decided[i] = None
                                THEN [decided EXCEPT ![i] = s] ELSE decided
                 /\ input' = input /\ pc[i] = "coin"
    BY <1>2 DEF RecvCoin
  <2>2. CASE decided' = decided
    BY <2>1, <2>2 DEF Bits!vars
  <2>3. CASE decided' # decided
    <3>1. decided[i] = None /\ decided' = [decided EXCEPT ![i] = s] /\ input[i] # None
      BY <2>1, <2>3 DEF Started
    <3>2. decided \in [Correct -> Bit \cup {None}] /\ decided' \in [Correct -> Bit \cup {None}]
      BY DEF IndInv, TypeOK
    <3>3. decided'[i] = s /\ s # None
      BY <2>3, <3>1, <3>2
    <3>4. i \in Decided'
      BY <3>3 DEF Decided
    <3>5. \E j \in Correct : input[j] = s
      BY <2>1, <3>3, <3>4 DEF Validity
    <3>6. \A j \in Correct : decided[j] \in {None, s}
      <4> SUFFICES ASSUME NEW j \in Correct, decided[j] # None PROVE decided[j] = s
        OBVIOUS
      <4>1. decided'[j] = decided[j]
        BY <3>1, <3>2
      <4>2. j \in Decided'
        BY <4>1 DEF Decided
      <4> QED
        BY <3>3, <3>4, <4>1, <4>2 DEF Agreement
    <3>7. Cardinality(Bits!TakePart) >= N - f
      <4>1. (Cardinality(Bits!TakePart) >= N - f)'
        BY <3>4 DEF EnoughTakePart
      <4> QED
        BY <2>1, <4>1 DEF Bits!TakePart
    <3>8. Bits!Decide(i, s)
      BY <2>1, <3>1, <3>5, <3>6, <3>7, SameCardinality DEF Bits!Decide, Bits!Correct, Correct
    <3>9. s \in Bit
      BY <3>2, <3>3
    <3> QED
      BY <3>8, <3>9 DEF Bits!Next, Bits!Correct, Bits!Bit, Correct, Bit
  <2> QED
    BY <2>2, <2>3
<1>3. CASE UNCHANGED <<input, decided>>
  BY <1>3 DEF Bits!vars
<1>4. ASSUME NEW i \in Correct,
             \/ \E r \in Rounds, v \in Bit : RecvEst(i, r, v, Faulty)
             \/ SendAux(i) \/ SendConf(i, Faulty) \/ CallCoin(i, Faulty)
      PROVE  UNCHANGED <<input, decided>>
  BY <1>4 DEF RecvEst, SendAux, SendConf, CallCoin
<1>5. CASE UNCHANGED vars \/ \E i \in Victims : Raise(i)
  BY <1>3, <1>5 DEF vars, Raise
<1> QED
  BY <1>1, <1>2, <1>3, <1>4, <1>5 DEF Next, Step

\* binaryagreement.py implements AgreedBit.
THEOREM Refinement == Spec => ImplementsAgreedBit
<1>1. Init => Started
  BY DEF Init, Started
<1>2. Spec => []Started
  BY <1>1, StartedStays, Invariance, PTL DEF Spec
<1>3. Init => Bits!Init
  BY DEF Init, Bits!Init, Bits!Correct, Correct
<1> QED
  BY <1>2, <1>3, RefinementStep, DecisionTakesPart, Invariance, AgreementTheorem, ValidityTheorem, PTL
     DEF Spec, ImplementsAgreedBit, Bits!Spec

-----------------------------------------------------------------------------
(* Where a decision was made.                                              *)

\* A node has sent its estimate, and has decided in a round it has left, unless it
\* has come to the bound.
PastOf(i) ==
  /\ pc[i] = "input" => decided[i] = None
  /\ pc[i] # "input" => est[i] \in est_sent[i][round[i]]
  /\ pc[i] # "bound" /\ decided[i] # None =>
       \E r \in Rounds : r < round[i] /\ coin[r] = decided[i] /\ ConfQuorum(r, decided[i])
Past == \A i \in Correct : PastOf(i)

\* A decision stays where it was made.
LEMMA WhereStays ==
  ASSUME Grows, NEW i \in Correct, NEW b, NEW d, d # None,
         \E r \in Rounds : r < b /\ coin[r] = d /\ ConfQuorum(r, d)
  PROVE  \E r \in Rounds : r < b /\ coin'[r] = d /\ ConfQuorum(r, d)'
<1>1. PICK r \in Rounds : r < b /\ coin[r] = d /\ ConfQuorum(r, d)
  OBVIOUS
<1>2. ConfQuorum(r, d)'
  BY <1>1, QuorumStays
<1>3. coin'[r] = d
  BY <1>1 DEF Grows
<1> QED
  BY <1>1, <1>2, <1>3

\* A node that neither decides nor moves keeps where it has decided.
LEMMA PastStays ==
  ASSUME Grows, TypeOK, NEW i \in Correct, PastOf(i),
         decided'[i] = decided[i], round'[i] = round[i], est'[i] = est[i],
         pc'[i] = "input" <=> pc[i] = "input", pc[i] = "bound" => pc'[i] = "bound"
  PROVE  PastOf(i)'
<1>1. pc'[i] = "input" => decided'[i] = None
  BY DEF PastOf
<1>2. pc'[i] # "input" => est'[i] \in est_sent'[i][round'[i]]
  BY DEF PastOf, Grows, TypeOK
<1>3. ASSUME pc'[i] # "bound", NEW d, d = decided[i], d # None
      PROVE  \E r \in Rounds : r < round'[i] /\ coin'[r] = d /\ ConfQuorum(r, d)'
  <2>1. PICK b : b = round[i]
    OBVIOUS
  <2>2. \E r \in Rounds : r < b /\ coin[r] = d /\ ConfQuorum(r, d)
    BY <1>3, <2>1 DEF PastOf
  <2>3. \E r \in Rounds : r < b /\ coin'[r] = d /\ ConfQuorum(r, d)'
    BY <1>3, <2>2, WhereStays
  <2> QED
    BY <2>1, <2>3
<1> QED
  BY <1>1, <1>2, <1>3 DEF PastOf

\* A node decides in the round that it leaves.
LEMMA PastInductive == IndInv /\ HeardBefore /\ Past /\ [Next]_vars => Past'
<1> SUFFICES ASSUME IndInv, HeardBefore, Past, [Next]_vars, NEW j \in Correct PROVE PastOf(j)'
  BY DEF Past
<1>1. Grows /\ TypeOK /\ PastOf(j) /\ IndInv'
  BY Inductive DEF IndInv, Past
<1> HIDE DEF PastOf
<1>2. ASSUME NEW i \in Correct, NEW v \in Inputs[i], GiveInput(i, v) PROVE PastOf(j)'
  <2>1. /\ pc[i] = "input" /\ decided' = decided /\ StartRound(i, 0, v)
        /\ v \in Bit /\ 0 \in Rounds
    BY <1>2, InputAssumption, RoundAssumption DEF GiveInput, Rounds
  <2>2. /\ \A k \in Correct, q \in Rounds :
             est_sent'[k][q] = IF k = i /\ q = 0 THEN est_sent[k][q] \cup {v} ELSE est_sent[k][q]
        /\ \A k \in Correct : pc'[k] = IF k = i THEN "bin" ELSE pc[k]
        /\ \A k \in Correct : round'[k] = IF k = i THEN 0 ELSE round[k]
    BY <1>1, <2>1, StartRoundTypes, ZenonT(60)
  <2>3. est' = [est EXCEPT ![i] = v] /\ est \in [Correct -> Bit \cup {None}]
    BY <1>1, <2>1 DEF StartRound, TypeOK
  <2>4. CASE j = i
    BY <1>1, <2>1, <2>2, <2>3, <2>4 DEF PastOf
  <2>5. CASE j # i
    BY <1>1, <2>1, <2>2, <2>3, <2>5, PastStays
  <2> QED
    BY <2>4, <2>5
<1>3. ASSUME NEW i \in Correct, NEW r \in Rounds, NEW v \in Bit, RecvEst(i, r, v, Faulty)
      PROVE  PastOf(j)'
  BY <1>1, <1>3, PastStays DEF RecvEst
<1>4. ASSUME NEW i \in Correct, SendAux(i) \/ SendConf(i, Faulty) \/ CallCoin(i, Faulty)
      PROVE  PastOf(j)'
  <2>1. /\ decided' = decided /\ round' = round /\ est' = est
        /\ pc[i] \in {"bin", "aux", "conf"}
        /\ \E w \in {"aux", "conf", "coin"} : pc' = [pc EXCEPT ![i] = w]
    BY <1>4 DEF SendAux, SendConf, CallCoin
  <2>2. pc \in [Correct -> Waits]
    BY <1>1 DEF TypeOK
  <2>3. (pc'[j] = "input" <=> pc[j] = "input") /\ (pc[j] = "bound" => pc'[j] = "bound")
    BY <2>1, <2>2
  <2> QED
    BY <1>1, <2>1, <2>3, PastStays
<1>5. ASSUME NEW i \in Correct, RecvCoin(i, Faulty) PROVE PastOf(j)'
  <2>1. PICK r \in Rounds : r = round[i]
    BY <1>1 DEF TypeOK
  <2>2. PICK s \in CoinValues(r) :
          /\ pc[i] = "coin"
          /\ decided' = IF values[i] = {s} /\ decided[i] = None
                        THEN [decided EXCEPT ![i] = s] ELSE decided
          /\ IF values[i] = {s} /\ decided[i] = s
             THEN pc' = [pc EXCEPT ![i] = "quit"] /\ UNCHANGED <<est, round, est_sent>>
             ELSE IF r = MaxRound
             THEN pc' = [pc EXCEPT ![i] = "bound"] /\ UNCHANGED <<est, round, est_sent>>
             ELSE StartRound(i, r + 1, NewEstimate(values[i], s))
          /\ coin' = [coin EXCEPT ![r] = s]
    BY <1>5, <2>1 DEF RecvCoin
  <2>3. s \in Bit /\ s # None /\ coin'[r] = s
    BY <1>1, <2>2, CoinBits, NoneAssumption DEF TypeOK
  <2>4. HasHeard(i, r)
    BY <2>1, <2>2 DEF IndInv, AtCoin
  <2>5. /\ pc \in [Correct -> Waits] /\ decided \in [Correct -> Bit \cup {None}]
        /\ est \in [Correct -> Bit \cup {None}]
    BY <1>1 DEF TypeOK
  <2>6. CASE values[i] = {s} /\ decided[i] = s
    <3>1. /\ decided' = decided /\ est' = est /\ round' = round
          /\ pc' = [pc EXCEPT ![i] = "quit"]
      BY <2>2, <2>3, <2>6
    <3>2. (pc'[j] = "input" <=> pc[j] = "input") /\ (pc[j] = "bound" => pc'[j] = "bound")
      BY <2>2, <2>5, <3>1
    <3> QED
      BY <1>1, <3>1, <3>2, PastStays
  <2>7. CASE ~ (values[i] = {s} /\ decided[i] = s) /\ r = MaxRound
    <3>1. /\ \A k \in Correct : k # i => decided'[k] = decided[k]
          /\ est' = est /\ round' = round /\ pc' = [pc EXCEPT ![i] = "bound"]
      BY <2>2, <2>5, <2>7
    <3>2. CASE j = i
      <4>1. pc'[j] = "bound"
        BY <2>5, <3>1, <3>2
      <4>2. est[j] \in est_sent[j][round[j]]
        BY <1>1, <2>2, <3>2 DEF PastOf
      <4>3. est'[j] \in est_sent'[j][round'[j]]
        BY <1>1, <3>1, <4>2 DEF Grows, TypeOK
      <4> QED
        BY <4>1, <4>3 DEF PastOf
    <3>3. CASE j # i
      BY <1>1, <2>5, <3>1, <3>3, PastStays
    <3> QED
      BY <3>2, <3>3
  <2>8. CASE ~ (values[i] = {s} /\ decided[i] = s) /\ r # MaxRound
    <3>1. PICK e \in Bit : StartRound(i, r + 1, e)
      BY <2>2, <2>3, <2>4, <2>8, NewEstimateBacked
    <3>2. r + 1 \in Rounds /\ r < r + 1
      BY <2>8, RoundAssumption DEF Rounds
    <3>3. /\ e \in est_sent'[i][r + 1]
          /\ \A k \in Correct : pc'[k] = IF k = i THEN "bin" ELSE pc[k]
          /\ \A k \in Correct : round'[k] = IF k = i THEN r + 1 ELSE round[k]
      <4>1. /\ est_sent \in [Correct -> [Rounds -> SUBSET Bit]]
            /\ pc \in [Correct -> Waits] /\ round \in [Correct -> Rounds]
        BY <1>1 DEF TypeOK
      <4> QED
        BY <3>1, <3>2, <4>1 DEF StartRound
    <3>4. est' = [est EXCEPT ![i] = e]
      BY <3>1 DEF StartRound
    <3>5. CASE j = i
      <4>1. pc'[j] = "bin" /\ round'[j] = r + 1 /\ est'[j] \in est_sent'[j][round'[j]]
        BY <2>5, <3>2, <3>3, <3>4, <3>5
      <4>2. ASSUME NEW d, d = decided'[j], d # None
            PROVE  \E q \in Rounds : q < round'[j] /\ coin'[q] = d /\ ConfQuorum(q, d)'
        <5>1. CASE decided' = decided
          <6>1. \E q \in Rounds : q < r /\ coin[q] = d /\ ConfQuorum(q, d)
            BY <1>1, <2>1, <2>2, <3>5, <4>2, <5>1 DEF PastOf
          <6>2. \E q \in Rounds : q < r /\ coin'[q] = d /\ ConfQuorum(q, d)'
            BY <1>1, <4>2, <6>1, WhereStays
          <6>3. \A q \in Rounds : q < r => q < r + 1
            BY RoundAssumption DEF Rounds
          <6> QED
            BY <4>1, <6>2, <6>3
        <5>2. CASE values[i] = {s} /\ decided' = [decided EXCEPT ![i] = s]
          <6>1. d = s
            BY <2>5, <3>5, <4>2, <5>2
          <6>2. PICK v \in Bit : values[i] = {v} /\ ConfQuorum(r, v)
            <7>1. {s} # {0, 1}
              OBVIOUS
            <7> QED
              BY <2>4, <5>2, <7>1 DEF HasHeard
          <6>3. v = s
            BY <5>2, <6>2
          <6>4. ConfQuorum(r, s)
            BY <6>2, <6>3
          <6>5. ConfQuorum(r, s)'
            BY <1>1, <6>4, QuorumStays
          <6> QED
            BY <2>3, <3>2, <4>1, <6>1, <6>5
        <5> QED
          BY <2>2, <5>1, <5>2
      <4> QED
        BY <4>1, <4>2 DEF PastOf
    <3>6. CASE j # i
      <4>1. decided'[j] = decided[j] /\ est'[j] = est[j]
        BY <2>2, <2>5, <3>4, <3>6
      <4> QED
        BY <1>1, <3>3, <3>6, <4>1, PastStays
    <3> QED
      BY <3>5, <3>6
  <2> QED
    BY <2>6, <2>7, <2>8
<1>6. CASE UNCHANGED vars
  BY <1>1, <1>6, PastStays DEF vars
<1>7. ASSUME NEW i \in Correct, Raise(i) PROVE PastOf(j)'
  BY <1>1, <1>7, PastStays DEF Raise
<1> QED
  BY <1>2, <1>3, <1>4, <1>5, <1>6, <1>7, VictimAssumption DEF Next, Step

\* Decisions are made in rounds that are left, and estimates are sent.
THEOREM PastInvariance == Spec => []Past
<1>1. Init => Past
  BY DEF Init, Past, PastOf
<1>2. Init => IndInv
  BY Initial
<1> QED
  BY <1>1, PastInductive, Invariance, PTL DEF Spec

\* "If one party decides at round r, then in all the following rounds, everybody will
\* propose r as an estimation" (lines 274-277).
THEOREM DecisionIsProposedTheorem == Spec => []DecisionIsProposed
<1>1. IndInv /\ Past => DecisionIsProposed
  <2> SUFFICES ASSUME IndInv, Past, NEW i \in Decided, NEW j \in Correct,
                      pc[i] # "bound", round[j] >= round[i], pc[j] \notin {"input", "bound"}
               PROVE  est[j] = decided[i]
    BY DEF DecisionIsProposed
  <2>1. PICK r \in Rounds : r < round[i] /\ coin[r] = decided[i] /\ ConfQuorum(r, decided[i])
    BY DEF Past, PastOf, Decided
  <2>2. round[i] \in Rounds /\ round[j] \in Rounds
    BY DEF IndInv, TypeOK, Decided
  <2>3. round[j] > r
    BY <2>1, <2>2, RoundAssumption DEF Rounds
  <2>4. est_sent[j][round[j]] \subseteq {decided[i]}
    BY <2>1, <2>2, <2>3, OneValueAfter
  <2>5. est[j] \in est_sent[j][round[j]]
    BY DEF Past, PastOf
  <2> QED
    BY <2>4, <2>5
<1> QED
  BY <1>1, Invariance, PastInvariance, PTL

-----------------------------------------------------------------------------
(* What a node knows that has not decided.                                 *)

\* A node saw another value than the coin's in every round it has left undecided,
\* and one that quits does so on the coin of its own round.
Disputed(i, q) == coin[q] # None /\ \E v \in bin_values[i][q] : v # coin[q]
LeftOf(i) ==
  /\ pc[i] = "coin" => values[i] \subseteq bin_values[i][round[i]]
  /\ pc[i] = "quit" => decided[i] # None /\ coin[round[i]] = decided[i]
  /\ decided[i] = None => \A q \in Rounds : q < round[i] => Disputed(i, q)
Left == \A i \in Correct : LeftOf(i)

\* A round that left a node undecided stays one.
LEMMA DisputeStays ==
  ASSUME Grows, NEW i \in Correct, NEW q \in Rounds, Disputed(i, q)
  PROVE  Disputed(i, q)'
<1>1. coin[q] # None => coin'[q] = coin[q]
  BY DEF Grows
<1>2. bin_values[i][q] \subseteq bin_values'[i][q]
  BY DEF Grows
<1> QED
  BY <1>1, <1>2 DEF Disputed

\* A node that stays in its round and does not begin to wait for a coin or quit.
LEMMA LeftStays ==
  ASSUME Grows, TypeOK, NEW i \in Correct, LeftOf(i),
         decided'[i] = decided[i], round'[i] = round[i], values'[i] = values[i] \/ pc'[i] # "coin",
         pc'[i] \in {"coin", "quit"} => pc'[i] = pc[i]
  PROVE  LeftOf(i)'
<1>1. round[i] \in Rounds /\ round'[i] \in Rounds
  BY DEF TypeOK
<1>2. /\ bin_values[i][round[i]] \subseteq bin_values'[i][round[i]]
      /\ coin[round[i]] # None => coin'[round[i]] = coin[round[i]]
  BY <1>1 DEF Grows
<1>3. pc'[i] = "coin" => values'[i] \subseteq bin_values'[i][round'[i]]
  BY <1>2 DEF LeftOf
<1>4. pc'[i] = "quit" => decided'[i] # None /\ coin'[round'[i]] = decided'[i]
  BY <1>2 DEF LeftOf
<1>5. ASSUME decided'[i] = None, NEW q \in Rounds, q < round'[i] PROVE Disputed(i, q)'
  <2>1. Disputed(i, q)
    BY <1>5 DEF LeftOf
  <2> QED
    BY <2>1, DisputeStays
<1> QED
  BY <1>3, <1>4, <1>5 DEF LeftOf

\* The coin that ends a round leaves a node undecided only when it has heard of the
\* other value.
LEMMA LeftInductive == IndInv /\ HeardBefore /\ Left /\ [Next]_vars => Left'
<1> SUFFICES ASSUME IndInv, HeardBefore, Left, [Next]_vars, NEW j \in Correct PROVE LeftOf(j)'
  BY DEF Left
<1>1. Grows /\ TypeOK /\ LeftOf(j)
  BY Inductive DEF IndInv, Left
<1> HIDE DEF LeftOf
<1>2. ASSUME NEW i \in Correct, NEW v \in Inputs[i], GiveInput(i, v) PROVE LeftOf(j)'
  <2>1. /\ pc[i] = "input" /\ decided' = decided /\ values' = values /\ StartRound(i, 0, v)
        /\ v \in Bit /\ 0 \in Rounds /\ round[i] = 0
    BY <1>2, InputAssumption, RoundAssumption DEF GiveInput, Rounds, IndInv, Unset
  <2>2. /\ \A k \in Correct : pc'[k] = IF k = i THEN "bin" ELSE pc[k]
        /\ \A k \in Correct : round'[k] = IF k = i THEN 0 ELSE round[k]
    BY <1>1, <2>1, StartRoundTypes
  <2> QED
    BY <1>1, <2>1, <2>2, LeftStays
<1>3. ASSUME NEW i \in Correct, NEW r \in Rounds, NEW v \in Bit, RecvEst(i, r, v, Faulty)
      PROVE  LeftOf(j)'
  BY <1>1, <1>3, LeftStays DEF RecvEst
<1>4. ASSUME NEW i \in Correct, SendAux(i) \/ SendConf(i, Faulty) PROVE LeftOf(j)'
  <2>1. /\ decided' = decided /\ round' = round
        /\ \/ pc' = [pc EXCEPT ![i] = "aux"] /\ values' = values
           \/ /\ pc' = [pc EXCEPT ![i] = "conf"]
              /\ \E V : values' = [values EXCEPT ![i] = V]
    BY <1>4 DEF SendAux, SendConf
  <2>2. pc \in [Correct -> Waits] /\ values \in [Correct -> SUBSET Bit]
    BY <1>1 DEF TypeOK
  <2>3. pc'[j] \in {"coin", "quit"} => pc'[j] = pc[j]
    BY <2>1, <2>2
  <2>4. values'[j] = values[j] \/ pc'[j] # "coin"
    BY <2>1, <2>2
  <2> QED
    BY <1>1, <2>1, <2>3, <2>4, LeftStays
<1>5. ASSUME NEW i \in Correct, CallCoin(i, Faulty) PROVE LeftOf(j)'
  <2>1. PICK V \in ConfOutcome(i, Faulty) : values' = [values EXCEPT ![i] = V]
    BY <1>5 DEF CallCoin
  <2>2. /\ decided' = decided /\ round' = round /\ bin_values' = bin_values
        /\ pc[i] = "conf" /\ pc' = [pc EXCEPT ![i] = "coin"]
    BY <1>5 DEF CallCoin
  <2>3. /\ pc \in [Correct -> Waits] /\ values \in [Correct -> SUBSET Bit]
    BY <1>1 DEF TypeOK
  <2>4. V \subseteq bin_values[i][round[i]]
    BY <2>1 DEF ConfOutcome
  <2>5. CASE j = i
    <3>1. pc'[j] = "coin" /\ values'[j] = V
      BY <2>1, <2>2, <2>3, <2>5
    <3>2. ASSUME decided'[j] = None, NEW q \in Rounds, q < round'[j] PROVE Disputed(j, q)'
      <4>1. Disputed(j, q)
        BY <1>1, <2>2, <3>2 DEF LeftOf
      <4> QED
        BY <1>1, <4>1, DisputeStays
    <3> QED
      BY <2>2, <2>4, <2>5, <3>1, <3>2 DEF LeftOf
  <2>6. CASE j # i
    BY <1>1, <2>1, <2>2, <2>3, <2>6, LeftStays
  <2> QED
    BY <2>5, <2>6
<1>6. ASSUME NEW i \in Correct, RecvCoin(i, Faulty) PROVE LeftOf(j)'
  <2>1. PICK r \in Rounds : r = round[i]
    BY <1>1 DEF TypeOK
  <2>2. PICK s \in CoinValues(r) :
          /\ pc[i] = "coin"
          /\ decided' = IF values[i] = {s} /\ decided[i] = None
                        THEN [decided EXCEPT ![i] = s] ELSE decided
          /\ IF values[i] = {s} /\ decided[i] = s
             THEN pc' = [pc EXCEPT ![i] = "quit"] /\ UNCHANGED <<est, round, est_sent>>
             ELSE IF r = MaxRound
             THEN pc' = [pc EXCEPT ![i] = "bound"] /\ UNCHANGED <<est, round, est_sent>>
             ELSE StartRound(i, r + 1, NewEstimate(values[i], s))
          /\ coin' = [coin EXCEPT ![r] = s]
          /\ values' = values /\ bin_values' = bin_values
    BY <1>6, <2>1 DEF RecvCoin
  <2>3. s \in Bit /\ s # None /\ coin'[r] = s
    BY <1>1, <2>2, CoinBits, NoneAssumption DEF TypeOK
  <2>4. HasHeard(i, r) /\ values[i] \subseteq bin_values[i][r]
    BY <2>1, <2>2 DEF IndInv, AtCoin, Left, LeftOf
  <2>5. /\ pc \in [Correct -> Waits] /\ decided \in [Correct -> Bit \cup {None}]
        /\ round \in [Correct -> Rounds]
    BY <1>1 DEF TypeOK
  <2>6. \A k \in Correct : k # i => decided'[k] = decided[k]
    BY <2>2, <2>5
  <2>7. decided'[i] = None => Disputed(i, r)'
    <3> SUFFICES ASSUME decided'[i] = None PROVE \E v \in bin_values[i][r] : v # s
      BY <2>2, <2>3 DEF Disputed
    <3>1. values[i] # {s}
      BY <2>2, <2>3, <2>5
    <3>2. \E v \in values[i] : v # s
      BY <2>3, <2>4, <3>1 DEF HasHeard, Bit
    <3> QED
      BY <2>4, <3>2
  <2>8. decided'[i] = None => decided[i] = None
    BY <2>2, <2>3, <2>5
  <2>9. ASSUME decided'[i] = None, NEW q \in Rounds, q <= r PROVE Disputed(i, q)'
    <3>1. q < r \/ q = r
      BY <2>9, RoundAssumption DEF Rounds
    <3>2. CASE q < r
      <4>1. Disputed(i, q)
        BY <2>1, <2>8, <2>9, <3>2 DEF Left, LeftOf
      <4> QED
        BY <1>1, <4>1, DisputeStays
    <3> QED
      BY <2>7, <2>9, <3>1, <3>2
  <2>10. CASE values[i] = {s} /\ decided[i] = s
    <3>1. decided' = decided /\ round' = round /\ pc' = [pc EXCEPT ![i] = "quit"]
      BY <2>2, <2>3, <2>10
    <3>2. CASE j = i
      <4>1. pc'[j] = "quit" /\ decided'[j] = s /\ round'[j] = r
        BY <2>1, <2>5, <2>10, <3>1, <3>2
      <4> QED
        BY <2>3, <4>1 DEF LeftOf
    <3>3. CASE j # i
      BY <1>1, <2>2, <2>5, <2>6, <3>1, <3>3, LeftStays
    <3> QED
      BY <3>2, <3>3
  <2>11. CASE ~ (values[i] = {s} /\ decided[i] = s) /\ r = MaxRound
    <3>1. round' = round /\ pc' = [pc EXCEPT ![i] = "bound"]
      BY <2>2, <2>11
    <3>2. CASE j = i
      <4>1. pc'[j] = "bound" /\ round'[j] = r
        BY <2>1, <2>5, <3>1, <3>2
      <4>2. \A q \in Rounds : q < r => q <= r
        BY RoundAssumption DEF Rounds
      <4> QED
        BY <2>9, <3>2, <4>1, <4>2 DEF LeftOf
    <3>3. CASE j # i
      BY <1>1, <2>2, <2>5, <2>6, <3>1, <3>3, LeftStays
    <3> QED
      BY <3>2, <3>3
  <2>12. CASE ~ (values[i] = {s} /\ decided[i] = s) /\ r # MaxRound
    <3>1. PICK e \in Bit : StartRound(i, r + 1, e)
      BY <2>2, <2>3, <2>4, <2>12, NewEstimateBacked
    <3>2. \A q \in Rounds : q < r + 1 => q <= r
      BY RoundAssumption DEF Rounds
    <3>3. r + 1 \in Rounds
      BY <2>12, RoundAssumption DEF Rounds
    <3>4. /\ \A k \in Correct : pc'[k] = IF k = i THEN "bin" ELSE pc[k]
          /\ \A k \in Correct : round'[k] = IF k = i THEN r + 1 ELSE round[k]
      BY <1>1, <3>1, <3>3, StartRoundTypes
    <3>5. CASE j = i
      BY <2>9, <3>2, <3>4, <3>5 DEF LeftOf
    <3>6. CASE j # i
      BY <1>1, <2>2, <2>6, <3>4, <3>6, LeftStays
    <3> QED
      BY <3>5, <3>6
  <2> QED
    BY <2>10, <2>11, <2>12
<1>7. CASE UNCHANGED vars
  BY <1>1, <1>7, LeftStays DEF vars
<1>8. ASSUME NEW i \in Correct, Raise(i) PROVE LeftOf(j)'
  BY <1>1, <1>8, LeftStays DEF Raise
<1> QED
  BY <1>2, <1>3, <1>4, <1>5, <1>6, <1>7, <1>8, VictimAssumption DEF Next, Step

\* Undecided nodes have met the other value in each round they have left.
THEOREM LeftInvariance == Spec => []Left
<1>1. Init => Left
  <2> SUFFICES ASSUME Init, NEW i \in Correct PROVE LeftOf(i)
    BY DEF Left
  <2>1. pc[i] = "input" /\ round[i] = 0
    BY DEF Init
  <2>2. \A q \in Rounds : ~ (q < 0)
    BY RoundAssumption DEF Rounds
  <2> QED
    BY <2>1, <2>2 DEF LeftOf
<1>2. Init => IndInv
  BY Initial
<1> QED
  BY <1>1, LeftInductive, Invariance, PTL DEF Spec

\* A node that quits leaves nobody behind who needs it: a node that is undecided is in
\* no later round, and in the same one it has the decided value and meets its coin.
THEOREM QuitLeavesDecisionTheorem == Spec => []QuitLeavesDecision
<1>1. IndInv /\ Past /\ Left => QuitLeavesDecision
  <2> SUFFICES ASSUME IndInv, Past, Left, NEW i \in Correct, NEW j \in Correct,
                      pc[i] = "quit", decided[j] = None
               PROVE  /\ round[j] <= round[i]
                      /\ round[j] = round[i] => est[j] = decided[i] /\ coin[round[j]] = est[j]
    BY DEF QuitLeavesDecision, Decided
  <2>1. PICK d : d = decided[i] /\ d # None /\ coin[round[i]] = d
    BY DEF Left, LeftOf
  <2>2. PICK r \in Rounds : r < round[i] /\ coin[r] = d /\ ConfQuorum(r, d)
    BY <2>1 DEF Past, PastOf
  <2>3. PICK q \in Rounds : q = round[i]
    BY DEF IndInv, TypeOK
  <2>4. \A k \in Correct : est_sent[k][q] \subseteq {d}
    BY <2>2, <2>3, OneValueAfter
  <2>5. ASSUME q < round[j] PROVE FALSE
    <3>1. PICK w \in bin_values[j][q] : w # d
      BY <2>1, <2>3, <2>5 DEF Left, LeftOf, Disputed
    <3>2. PICK k \in Correct : w \in est_sent[k][q]
      BY <3>1 DEF IndInv, Backed, BinBacked
    <3> QED
      BY <2>4, <3>1, <3>2
  <2>6. ASSUME round[j] = q PROVE est[j] = d
    <3>1. pc[j] # "input"
      <4>1. r \in Nat /\ q \in Nat
        BY RoundAssumption DEF Rounds
      <4>2. ~ (q = 0)
        BY <2>2, <2>3, <4>1
      <4> QED
        BY <2>6, <4>2 DEF IndInv, Unset
    <3>2. est[j] \in est_sent[j][q]
      BY <2>6, <3>1 DEF Past, PastOf
    <3> QED
      BY <2>4, <3>2
  <2>7. round[j] <= q
    <3>1. round[j] \in Rounds
      BY DEF IndInv, TypeOK
    <3>2. round[j] \in Nat /\ q \in Nat
      BY <3>1, RoundAssumption DEF Rounds
    <3> QED
      BY <2>5, <3>2
  <2> QED
    BY <2>1, <2>3, <2>6, <2>7
<1> QED
  BY <1>1, Invariance, PastInvariance, LeftInvariance, PTL
=============================================================================
