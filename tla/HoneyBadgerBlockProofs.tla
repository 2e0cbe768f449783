----------------------- MODULE HoneyBadgerBlockProofs -----------------------
(***************************************************************************)
(* Proofs about HoneyBadgerBlock and CommonSubset for any number of nodes  *)
(* and any placement of at most f faulty ones: the assertions of           *)
(* commonsubset.py hold, it implements AgreedSet, and proposals stay       *)
(* secret until the set is agreed on.                                      *)
(***************************************************************************)
EXTENDS HoneyBadgerBlock, FiniteSetTheorems, TLAPS

USE DEF N, Correct, Bit, Outcomes

-----------------------------------------------------------------------------
(* The inductive invariant.                                                *)

\* The agreements that have come to 1.
Accepted == {j \in Node : decision[j] = 1}

\* A node votes 1 only for what it has, and 0 only once N-f ones are agreed on.
InputsBacked ==
  \A i \in Correct, j \in Node :
    /\ aba_input[i][j] = 1 => HasValue(j)
    /\ aba_input[i][j] = 0 => Cardinality(Accepted) >= N - f

\* A bit that is agreed on has been the input of a correct node.
DecisionsBacked ==
  \A j \in Node : decision[j] # None => \E i \in Correct : aba_input[i][j] = decision[j]

\* Shares are for a set that is agreed on.
InOrder ==
  /\ \A i \in Correct : acs[i] = "returned" => aba_ended[i] = Node
  /\ \A i \in shares_sent : acs[i] = "returned"

IndInv == TypeOK /\ InputsBacked /\ DecisionsBacked /\ InOrder

USE DEF TypeOK, ACSTypeOK

\* Sets of nodes are finite and no larger than N.
LEMMA SubsetCard ==
  ASSUME NEW S \in SUBSET Node
  PROVE  /\ IsFiniteSet(S) /\ Cardinality(S) \in Nat /\ Cardinality(S) <= N
         /\ N \in Nat /\ f \in Nat /\ N - f \in Int
         /\ \A T \in SUBSET S : Cardinality(T) <= Cardinality(S)
BY FS_Subset, FS_CardinalityType, NodeAssumption, FaultAssumption

-----------------------------------------------------------------------------
(* What the invariant says when all agreements have ended.                 *)

\* If every agreement has its bit, N-f of the bits are 1: where one is 0, a
\* correct node has seen N-f ones.
LEMMA AllDecided ==
  ASSUME IndInv, \A j \in Node : decision[j] # None
  PROVE  Cardinality(Accepted) >= N - f
<1>1. CASE Accepted = Node
  BY <1>1, SubsetCard
<1>2. CASE Accepted # Node
  <2>1. PICK j \in Node : decision[j] = 0
    BY <1>2 DEF Accepted, IndInv
  <2>2. PICK i \in Correct : aba_input[i][j] = 0
    BY <2>1, NoneAssumption DEF IndInv, DecisionsBacked
  <2> QED
    BY <2>2 DEF IndInv, InputsBacked
<1> QED
  BY <1>1, <1>2

\* What has been accepted has arrived as a value.
LEMMA AcceptedHaveValues ==
  ASSUME IndInv
  PROVE  \A j \in Accepted : HasValue(j)
<1> SUFFICES ASSUME NEW j \in Accepted PROVE HasValue(j)
  OBVIOUS
<1>1. j \in Node /\ decision[j] = 1
  BY DEF Accepted
<1>2. PICK i \in Correct : aba_input[i][j] = 1
  BY <1>1, NoneAssumption DEF IndInv, DecisionsBacked
<1> QED
  BY <1>1, <1>2 DEF IndInv, InputsBacked

\* The assertions of lines 55 and 60 follow from the invariant.
LEMMA Assertions == IndInv => AssertionsHold
<1> SUFFICES ASSUME IndInv, NEW i \in Correct, aba_ended[i] = Node
             PROVE  Cardinality(Ones(i)) >= N - f /\ \A j \in Ones(i) : HasValue(j)
  BY DEF AssertionsHold
<1>1. Ones(i) = Accepted
  BY DEF Ones, OnesOf, Accepted
<1>2. \A j \in Node : decision[j] # None
  BY DEF IndInv
<1> QED
  BY <1>1, <1>2, AllDecided, AcceptedHaveValues

\* When there is a set.
LEMMA ChosenSetIs ==
  ChosenSet = IF \A j \in Node : decision[j] # None THEN {Accepted} ELSE {}
BY DEF ChosenSet, Accepted

\* What a set that is agreed on is like.
ChosenSound ==
  ChosenSet # {} => /\ ChosenSet = {Accepted}
                    /\ Cardinality(Accepted) >= N - f
                    /\ \A j \in Accepted : fixed[j] \in {"value", "garbage"}

\* The set agreed on is made of N-f broadcasts that succeeded.
LEMMA ChosenIsSound == IndInv => ChosenSound
BY ChosenSetIs, AllDecided, AcceptedHaveValues DEF ChosenSound, HasValue

\* With keys for more than f shares, what is on the network decrypts nothing until
\* the set is agreed on.
LEMMA Secret == K > f /\ IndInv => SecretUntilAgreed
<1> SUFFICES ASSUME K > f, IndInv, Cardinality(shares_sent \cup Faulty) >= K
             PROVE  ChosenSet # {}
  BY DEF SecretUntilAgreed
<1>1. shares_sent # {}
  <2>1. SUFFICES ASSUME shares_sent = {} PROVE FALSE
    OBVIOUS
  <2>2. shares_sent \cup Faulty = Faulty
    BY <2>1
  <2>3. Cardinality(Faulty) \in Nat /\ Cardinality(Faulty) <= f /\ f \in Nat /\ K \in Nat
    BY SubsetCard, FaultAssumption, KeyAssumption
  <2>4. Cardinality(Faulty) >= K
    BY <2>2
  <2> QED
    BY <2>3, <2>4
<1>2. PICK i \in Correct : aba_ended[i] = Node
  BY <1>1 DEF IndInv, InOrder
<1>3. \A j \in Node : decision[j] # None
  BY <1>2 DEF IndInv
<1> QED
  BY <1>3, ChosenSetIs

-----------------------------------------------------------------------------
(* Steps.                                                                  *)

\* What is accepted stays accepted.
LEMMA AcceptedGrows ==
  ASSUME \A j \in Node : decision[j] = 1 => decision'[j] = 1, IndInv, Cardinality(Accepted) >= N - f
  PROVE  Cardinality(Accepted') >= N - f
<1>1. Accepted \subseteq Accepted' /\ Accepted' \in SUBSET Node
  BY DEF Accepted
<1> QED
  BY <1>1, SubsetCard

\* A broadcast comes to something.
LEMMA FixStep ==
  ASSUME IndInv, NEW j \in Node, NEW outcome \in Outcomes, Fix(j, outcome)
  PROVE  ACSTypeOK' /\ InputsBacked' /\ DecisionsBacked'
<1>1. /\ fixed[j] = None /\ fixed' = [fixed EXCEPT ![j] = outcome]
      /\ UNCHANGED <<decision, rbc_values, aba_input, aba_ended, acs>>
  BY DEF Fix
<1>2. \A k \in Node : HasValue(k) => HasValue(k)'
  BY <1>1, NoneAssumption DEF IndInv, HasValue
<1>3. ACSTypeOK'
  BY <1>1, NoneAssumption DEF IndInv
<1>4. InputsBacked'
  BY <1>1, <1>2 DEF IndInv, InputsBacked, Accepted
<1>5. DecisionsBacked'
  BY <1>1 DEF IndInv, DecisionsBacked
<1> QED
  BY <1>3, <1>4, <1>5

\* An agreement comes to a bit.
LEMMA DecideStep ==
  ASSUME IndInv, NEW j \in Node, NEW b \in Bit, Decide(j, b)
  PROVE  ACSTypeOK' /\ InputsBacked' /\ DecisionsBacked'
<1>1. /\ decision[j] = None /\ decision' = [decision EXCEPT ![j] = b]
      /\ UNCHANGED <<fixed, rbc_values, aba_input, aba_ended, acs>>
      /\ \E i \in Correct : aba_input[i][j] = b
  BY DEF Decide
<1>2. ACSTypeOK'
  BY <1>1, NoneAssumption DEF IndInv
<1>3. \A k \in Node : decision[k] = 1 => decision'[k] = 1
  BY <1>1, NoneAssumption DEF IndInv
<1>4. InputsBacked'
  BY <1>1, <1>3, AcceptedGrows DEF IndInv, InputsBacked, HasValue
<1>5. DecisionsBacked'
  BY <1>1 DEF IndInv, DecisionsBacked
<1> QED
  BY <1>2, <1>4, <1>5

\* Inputs are given once.
LEMMA GivenInputs ==
  ASSUME IndInv, NEW i \in Correct, NEW J \in SUBSET Node, NEW b \in Bit, NEW k \in Node
  PROVE  /\ GiveInput(aba_input[i], J, b) \in [Node -> Bit \cup {None}]
         /\ aba_input[i][k] # None => GiveInput(aba_input[i], J, b)[k] = aba_input[i][k]
         /\ GiveInput(aba_input[i], J, b)[k] \in {aba_input[i][k], b}
         /\ GiveInput(aba_input[i], J, b)[k] # aba_input[i][k] => k \in J
BY DEF GiveInput, IndInv

\* A value arrives and is voted for.
LEMMA RecvRbcStep ==
  ASSUME IndInv, NEW i \in Correct, NEW j \in Node, RecvRbc(i, j)
  PROVE  ACSTypeOK' /\ InputsBacked' /\ DecisionsBacked'
<1>1. /\ HasValue(j)
      /\ rbc_values' = [rbc_values EXCEPT ![i] = @ \cup {j}]
      /\ aba_input'  = [aba_input EXCEPT ![i] = GiveInput(aba_input[i], {j}, 1)]
      /\ UNCHANGED <<fixed, decision, aba_ended, acs>>
  BY DEF RecvRbc
<1> DEFINE given == GiveInput(aba_input[i], {j}, 1)
<1>a. /\ given \in [Node -> Bit \cup {None}]
      /\ \A k \in Node : /\ aba_input[i][k] # None => given[k] = aba_input[i][k]
                         /\ given[k] \in {aba_input[i][k], 1}
                         /\ given[k] # aba_input[i][k] => k \in {j}
  <2>1. {j} \in SUBSET Node /\ 1 \in Bit
    OBVIOUS
  <2> QED
    BY <2>1, GivenInputs
<1> HIDE DEF given
<1>b. aba_input' = [aba_input EXCEPT ![i] = given]
  BY <1>1 DEF given
<1>2. ACSTypeOK'
  <2>1. fixed[j] \in {"value", "garbage"} /\ fixed' = fixed
    BY <1>1 DEF HasValue
  <2>2. \A h \in Correct : rbc_values'[h] \subseteq rbc_values[h] \cup {j}
    BY <1>1 DEF IndInv
  <2>3. \A h \in Correct : \A k \in rbc_values'[h] : fixed'[k] \in {"value", "garbage"}
    BY <2>1, <2>2 DEF IndInv
  <2>4. aba_input' \in [Correct -> [Node -> Bit \cup {None}]]
    BY <1>a, <1>b DEF IndInv
  <2>5. rbc_values' \in [Correct -> SUBSET Node]
    BY <1>1 DEF IndInv
  <2> QED
    BY <1>1, <2>3, <2>4, <2>5 DEF IndInv
<1>3. \A k \in Node, h \in Correct :
        \/ aba_input'[h][k] = aba_input[h][k]
        \/ aba_input[h][k] = None /\ k = j /\ aba_input'[h][k] = 1
  BY <1>a, <1>b DEF IndInv
<1>4. InputsBacked'
  <2>1. Accepted' = Accepted /\ fixed' = fixed /\ HasValue(j)
    BY <1>1 DEF Accepted
  <2>2. ASSUME NEW h \in Correct, NEW k \in Node
        PROVE  /\ aba_input'[h][k] = 1 => HasValue(k)
               /\ aba_input'[h][k] = 0 => Cardinality(Accepted) >= N - f
    BY <1>3, <2>1 DEF IndInv, InputsBacked
  <2> QED
    BY <2>1, <2>2 DEF InputsBacked, HasValue
<1>5. DecisionsBacked'
  BY <1>1, <1>3 DEF IndInv, DecisionsBacked
<1> QED
  BY <1>2, <1>4, <1>5

\* A bit arrives, and gives zeros if it is the last of N-f ones.
LEMMA RecvAbaStep ==
  ASSUME IndInv, NEW i \in Correct, NEW j \in Node, RecvAba(i, j)
  PROVE  ACSTypeOK' /\ InputsBacked' /\ DecisionsBacked'
<1> DEFINE Zeros == Cardinality(OnesOf(aba_ended[i] \cup {j})) >= N - f
<1>1. /\ decision[j] # None
      /\ aba_ended' = [aba_ended EXCEPT ![i] = @ \cup {j}]
      /\ aba_input' = [aba_input EXCEPT ![i] = IF Zeros THEN GiveInput(aba_input[i], Node, 0) ELSE aba_input[i]]
      /\ UNCHANGED <<fixed, decision, rbc_values, acs>>
  BY DEF RecvAba, Enough
<1>2. OnesOf(aba_ended[i] \cup {j}) \subseteq Accepted /\ Accepted \subseteq Node
  BY DEF OnesOf, Accepted, IndInv
<1>3. Zeros => Cardinality(Accepted) >= N - f
  BY <1>2, SubsetCard
<1> HIDE DEF Zeros
<1>4. ACSTypeOK'
  BY <1>1, GivenInputs DEF IndInv
<1>5. \A k \in Node, h \in Correct :
        \/ aba_input'[h][k] = aba_input[h][k]
        \/ aba_input[h][k] = None /\ Zeros /\ aba_input'[h][k] = 0
  BY <1>1, GivenInputs DEF IndInv
<1>6. InputsBacked'
  BY <1>1, <1>3, <1>5 DEF IndInv, InputsBacked, Accepted, HasValue
<1>7. DecisionsBacked'
  BY <1>1, <1>5 DEF IndInv, DecisionsBacked
<1> QED
  BY <1>4, <1>6, <1>7

\* commonsubset returns.
LEMMA FinishStep ==
  ASSUME IndInv, NEW i \in Correct, Finish(i)
  PROVE  ACSTypeOK' /\ InputsBacked' /\ DecisionsBacked'
BY DEF Finish, IndInv, InputsBacked, DecisionsBacked, Accepted, HasValue

\* Every step keeps the invariant.
LEMMA Inductive == IndInv /\ [Next]_vars => IndInv'
<1> SUFFICES ASSUME IndInv, [Next]_vars PROVE IndInv'
  OBVIOUS
<1> DEFINE ACSInv == ACSTypeOK /\ InputsBacked /\ DecisionsBacked
           BlockInv == /\ block \in [Correct -> {"start", "acs", "shares", "returned", "raised"}]
                       /\ shares_sent \subseteq Correct
                       /\ spoiled \subseteq Correct
<1>1. ASSUME NEW i \in Correct, Propose(i) PROVE IndInv'
  <2>1. Fix(i, "value") /\ i \in Node /\ "value" \in Outcomes
    BY <1>1 DEF Propose
  <2>2. ACSInv'
    BY <2>1, FixStep
  <2>3. BlockInv' /\ InOrder'
    BY <1>1 DEF Propose, Fix, IndInv, InOrder
  <2> QED
    BY <2>2, <2>3 DEF IndInv
<1>2. ASSUME NEW i \in Correct, SendShares(i) PROVE IndInv'
  <2>1. ACSInv'
    BY <1>2 DEF SendShares, acsVars, IndInv, InputsBacked, DecisionsBacked, Accepted, HasValue
  <2>2. BlockInv' /\ InOrder'
    BY <1>2 DEF SendShares, acsVars, IndInv, InOrder
  <2> QED
    BY <2>1, <2>2 DEF IndInv
<1>3. ASSUME NEW i \in Correct, NEW received \in SUBSET Node, NEW good \in BOOLEAN,
             Decrypt(i, received, good)
      PROVE  IndInv'
  <2>1. ACSInv'
    BY <1>3 DEF Decrypt, acsVars, IndInv, InputsBacked, DecisionsBacked, Accepted, HasValue
  <2>2. BlockInv' /\ InOrder'
    BY <1>3 DEF Decrypt, acsVars, IndInv, InOrder
  <2> QED
    BY <2>1, <2>2 DEF IndInv
<1>4. ASSUME NEW j \in Faulty, NEW outcome \in Outcomes, Fix(j, outcome), UNCHANGED blockVars
      PROVE  IndInv'
  <2>1. ACSInv'
    BY <1>4, FixStep, FaultAssumption
  <2>2. BlockInv' /\ InOrder'
    BY <1>4 DEF Fix, blockVars, IndInv, InOrder
  <2> QED
    BY <2>1, <2>2 DEF IndInv
<1>5. ASSUME NEW j \in Node, NEW b \in Bit, Decide(j, b), UNCHANGED blockVars PROVE IndInv'
  <2>1. ACSInv'
    BY <1>5, DecideStep
  <2>2. BlockInv' /\ InOrder'
    BY <1>5 DEF Decide, blockVars, IndInv, InOrder
  <2> QED
    BY <2>1, <2>2 DEF IndInv
<1>6. ASSUME NEW i \in Correct, NEW j \in Node, RecvRbc(i, j), UNCHANGED blockVars PROVE IndInv'
  <2>1. ACSInv'
    BY <1>6, RecvRbcStep
  <2>2. BlockInv' /\ InOrder'
    BY <1>6 DEF RecvRbc, blockVars, IndInv, InOrder
  <2> QED
    BY <2>1, <2>2 DEF IndInv
<1>7. ASSUME NEW i \in Correct, NEW j \in Node, RecvAba(i, j), UNCHANGED blockVars PROVE IndInv'
  <2>1. ACSInv'
    BY <1>7, RecvAbaStep
  <2>2. BlockInv' /\ InOrder'
    BY <1>7 DEF RecvAba, blockVars, IndInv, InOrder
  <2> QED
    BY <2>1, <2>2 DEF IndInv
<1>8. ASSUME NEW i \in Correct, Finish(i), UNCHANGED blockVars PROVE IndInv'
  <2>1. ACSInv'
    BY <1>8, FinishStep
  <2>2. BlockInv' /\ InOrder'
    BY <1>8 DEF Finish, AllEnded, blockVars, IndInv, InOrder
  <2> QED
    BY <2>1, <2>2 DEF IndInv
<1>9. CASE UNCHANGED vars
  BY <1>9 DEF vars, acsVars, blockVars, IndInv, InputsBacked, DecisionsBacked, InOrder, Accepted, HasValue
<1> QED
  BY <1>1, <1>2, <1>3, <1>4, <1>5, <1>6, <1>7, <1>8, <1>9 DEF Next

\* The invariant holds when a round begins.
LEMMA Initial == Init => IndInv
BY NoneAssumption DEF Init, ACSInit, IndInv, InputsBacked, DecisionsBacked, InOrder

\* The inductive invariant holds in every reachable state.
LEMMA Invariance == Spec => []IndInv
BY Initial, Inductive, PTL DEF Spec

-----------------------------------------------------------------------------
(* The theorems.                                                           *)

\* A node has only values of broadcasts that came to one, and bits agreed on.
THEOREM TypeCorrect == Spec => []TypeOK
BY Invariance, PTL DEF IndInv

\* The assertions of commonsubset.py, lines 55 and 60, never fail.
THEOREM AssertionsTheorem == Spec => []AssertionsHold
BY Invariance, Assertions, PTL

\* With keys for more than f shares no proposal can be decrypted before the set is
\* agreed on.
THEOREM SecretTheorem == ASSUME K > f PROVE Spec => []SecretUntilAgreed
<1>1. IndInv => SecretUntilAgreed
  BY Secret
<1> QED
  BY <1>1, Invariance, PTL

-----------------------------------------------------------------------------
(* Refinement.                                                             *)

\* The instance of AgreedSet counts in the same way.
LEMMA SameCardinality == \A S : Agreed!Cardinality(S) = Cardinality(S)
BY DEF Cardinality, Agreed!Cardinality, IsFiniteSet, Agreed!IsFiniteSet

\* What the broadcasts of a step add can be proposed.
LEMMA FixRefines ==
  ASSUME IndInv, NEW j \in Node, NEW outcome \in Outcomes, Fix(j, outcome)
  PROVE  [Agreed!Next]_(Agreed!vars)
<1> DEFINE proposers == {k \in Node : HasValue(k)}
<1>1. /\ fixed[j] = None /\ fixed' = [fixed EXCEPT ![j] = outcome]
      /\ UNCHANGED <<decision, rbc_values, aba_input, aba_ended, acs>>
  BY DEF Fix
<1>2. ChosenSet' = ChosenSet /\ {i \in Correct : acs[i] = "returned"}' = {i \in Correct : acs[i] = "returned"}
  BY <1>1 DEF ChosenSet
<1>3. \A k \in Node : fixed'[k] = IF k = j THEN outcome ELSE fixed[k]
  BY <1>1 DEF IndInv
<1>4. proposers' = proposers \/ proposers' = proposers \cup {j}
  BY <1>1, <1>3, NoneAssumption DEF HasValue
<1> QED
  BY <1>2, <1>4 DEF Agreed!Next, Agreed!Propose, Agreed!vars

\* Every step is one of AgreedSet or leaves its variables alone.
LEMMA RefinementStep ==
  ASSUME IndInv, ChosenSound', [Next]_vars
  PROVE  [Agreed!Next]_(Agreed!vars)
<1>1. ASSUME NEW i \in Correct, Propose(i) PROVE [Agreed!Next]_(Agreed!vars)
  BY <1>1, FixRefines DEF Propose
<1>2. ASSUME NEW j \in Faulty, NEW outcome \in Outcomes, Fix(j, outcome)
      PROVE  [Agreed!Next]_(Agreed!vars)
  BY <1>2, FixRefines, FaultAssumption
<1>3. ASSUME NEW j \in Node, NEW b \in Bit, Decide(j, b) PROVE [Agreed!Next]_(Agreed!vars)
  <2>1. /\ decision[j] = None
        /\ UNCHANGED <<fixed, rbc_values, aba_input, aba_ended, acs>>
    BY <1>3 DEF Decide
  <2>2. ChosenSet = {}
    BY <2>1, ChosenSetIs
  <2>3. /\ {k \in Node : HasValue(k)}' = {k \in Node : HasValue(k)}
        /\ {i \in Correct : acs[i] = "returned"}' = {i \in Correct : acs[i] = "returned"}
    BY <2>1 DEF HasValue
  <2>4. CASE ChosenSet' = {}
    BY <2>2, <2>3, <2>4 DEF Agreed!vars
  <2>5. CASE ChosenSet' # {}
    <3>1. /\ ChosenSet' = {Accepted'}
          /\ Cardinality(Accepted') >= N - f
          /\ \A k \in Accepted' : fixed'[k] \in {"value", "garbage"}
      BY <2>5 DEF ChosenSound
    <3>2. Accepted' \in SUBSET Node
      BY DEF Accepted
    <3>3. Accepted' \subseteq {k \in Node : HasValue(k)}
      BY <2>1, <3>1, <3>2 DEF HasValue
    <3>4. Agreed!Choose(Accepted')
      BY <2>2, <2>3, <3>1, <3>3, SameCardinality DEF Agreed!Choose
    <3> QED
      BY <3>2, <3>4 DEF Agreed!Next
  <2> QED
    BY <2>4, <2>5
<1>4. ASSUME NEW i \in Correct, Finish(i) PROVE [Agreed!Next]_(Agreed!vars)
  <2>1. /\ acs' = [acs EXCEPT ![i] = "returned"] /\ aba_ended[i] = Node
        /\ UNCHANGED <<fixed, decision>>
    BY <1>4 DEF Finish, AllEnded
  <2>2. ChosenSet # {} /\ ChosenSet' = ChosenSet
    <3>1. \A j \in Node : decision[j] # None
      BY <2>1 DEF IndInv
    <3>2. ChosenSet = {Accepted}
      BY <3>1, ChosenSetIs
    <3> QED
      BY <2>1, <3>2 DEF ChosenSet
  <2>3. {k \in Node : HasValue(k)}' = {k \in Node : HasValue(k)}
    BY <2>1 DEF HasValue
  <2>4. {h \in Correct : acs[h] = "returned"}' = {h \in Correct : acs[h] = "returned"} \cup {i}
    BY <2>1 DEF IndInv
  <2> QED
    BY <2>2, <2>3, <2>4 DEF Agreed!Next, Agreed!Return, Agreed!Correct
<1>5. CASE UNCHANGED <<fixed, decision, acs>>
  <2>1. ChosenSet' = ChosenSet
    BY <1>5 DEF ChosenSet
  <2> QED
    BY <1>5, <2>1 DEF Agreed!vars, HasValue
<1>6. ASSUME NEW i \in Correct, NEW j \in Node, RecvRbc(i, j) \/ RecvAba(i, j)
      PROVE  [Agreed!Next]_(Agreed!vars)
  BY <1>5, <1>6 DEF RecvRbc, RecvAba
<1>7. ASSUME NEW i \in Correct, NEW received \in SUBSET Node, NEW good \in BOOLEAN,
             SendShares(i) \/ Decrypt(i, received, good)
      PROVE  [Agreed!Next]_(Agreed!vars)
  BY <1>5, <1>7 DEF SendShares, Decrypt, acsVars
<1>8. CASE UNCHANGED vars
  BY <1>5, <1>8 DEF vars, acsVars
<1> QED
  BY <1>1, <1>2, <1>3, <1>4, <1>6, <1>7, <1>8 DEF Next

\* commonsubset.py, in the rounds of honeybadger_block.py, implements AgreedSet.
THEOREM Refinement == Spec => ImplementsAgreedSet
<1>1. Init => Agreed!Init
  <2>1. SUFFICES ASSUME Init PROVE Agreed!Init
    OBVIOUS
  <2>2. /\ fixed = [j \in Node |-> None] /\ decision = [j \in Node |-> None]
        /\ acs = [i \in Correct |-> "running"]
    BY <2>1 DEF Init, ACSInit
  <2>3. PICK j \in Node : TRUE
    BY NodeAssumption, FaultAssumption, FS_EmptySet
  <2>4. ChosenSet = {}
    BY <2>2, <2>3 DEF ChosenSet
  <2> QED
    BY <2>2, <2>4, NoneAssumption DEF Agreed!Init, HasValue
<1>2. IndInv /\ ChosenSound' /\ [Next]_vars => [Agreed!Next]_(Agreed!vars)
  BY RefinementStep
<1> QED
  BY <1>1, <1>2, Invariance, ChosenIsSound, PTL DEF Spec, ImplementsAgreedSet, Agreed!Spec
=============================================================================
