---------------------- MODULE ReliableBroadcastProofs ----------------------
(***************************************************************************)
(* Proofs about ReliableBroadcast for any number of nodes, any placement   *)
(* of at most f faulty ones and anything they may send: what correct nodes *)
(* return agrees, is recoverable by the others, and is the value of a      *)
(* correct leader; and the protocol implements Broadcast.                  *)
(***************************************************************************)
EXTENDS ReliableBroadcast, FiniteSetTheorems, TLAPS

USE DEF N, Correct

-----------------------------------------------------------------------------
(* Counting.                                                               *)

Holders(i, r) == {j \in Node : stripes[i][r][j] # None}
Echoed(r)     == {j \in Correct : fromLeader[j] = r}
SaidReady(r)  == {j \in Correct : [tag |-> "READY", src |-> j, root |-> r] \in msgs}

\* Sets of nodes are finite and no larger than N.
LEMMA SubsetCard ==
  ASSUME NEW S \in SUBSET Node
  PROVE  IsFiniteSet(S) /\ Cardinality(S) \in Nat /\ Cardinality(S) <= N
BY FS_Subset, FS_CardinalityType, NodeAssumption

\* All but |Faulty| <= f members of a set of nodes are correct: what the
\* thresholds f+1, 2f+1 and N-f of the code are counted for.
LEMMA CorrectPart ==
  ASSUME NEW S \in SUBSET Node
  PROVE  /\ Cardinality(S \cap Correct) + Cardinality(Faulty) >= Cardinality(S)
         /\ Cardinality(S \cap Correct) + f >= Cardinality(S)
<1>1. S \cap Correct = S \ Faulty
  OBVIOUS
<1>2. Cardinality(S \ Faulty) = Cardinality(S) - Cardinality(S \cap Faulty)
  BY SubsetCard, FS_Difference
<1>3. Cardinality(S \cap Faulty) <= Cardinality(Faulty)
  BY FS_Intersection, SubsetCard, FaultAssumption
<1>4. /\ Cardinality(S) \in Nat /\ Cardinality(Faulty) \in Nat
      /\ Cardinality(S \cap Faulty) \in Nat
  BY SubsetCard, FaultAssumption
<1> QED
  BY <1>1, <1>2, <1>3, <1>4, FaultAssumption

\* Disjoint sets of nodes add up.
LEMMA DisjointCard ==
  ASSUME NEW S \in SUBSET Node, NEW T \in SUBSET Node, S \cap T = {}
  PROVE  Cardinality(S \cup T) = Cardinality(S) + Cardinality(T)
<1>1. IsFiniteSet(S) /\ IsFiniteSet(T)
  BY SubsetCard
<1>2. Cardinality(S \cup T) = Cardinality(S) + Cardinality(T) - Cardinality(S \cap T)
  BY <1>1, FS_Union
<1>3. Cardinality(S \cap T) = 0
  BY FS_EmptySet
<1>4. Cardinality(S) \in Nat /\ Cardinality(T) \in Nat
  BY SubsetCard
<1> QED
  BY <1>2, <1>3, <1>4

\* More than f nodes include a correct one.
LEMMA OneIsCorrect ==
  ASSUME NEW S \in SUBSET Node, Cardinality(S) >= f + 1
  PROVE  S \cap Correct # {}
<1>1. Cardinality(S \cap Correct) + f >= Cardinality(S)
  BY CorrectPart
<1>2. Cardinality(S) \in Nat /\ Cardinality(S \cap Correct) \in Nat /\ f \in Nat
  BY SubsetCard, FaultAssumption
<1>3. Cardinality(S \cap Correct) # 0
  BY <1>1, <1>2
<1> QED
  BY <1>3, FS_EmptySet

-----------------------------------------------------------------------------
(* Types.                                                                  *)

\* What BroadcastReady does, whatever makes it due: nothing, or one READY of
\* the node for the root, which it has not sent one before.
LEMMA BroadcastReadyEffect ==
  ASSUME NEW i, NEW r, NEW due, BroadcastReady(i, r, due)
  PROVE  \/ UNCHANGED <<readySent, msgs>>
         \/ /\ due /\ ~ readySent[i]
            /\ readySent' = [readySent EXCEPT ![i] = TRUE]
            /\ msgs' = msgs \cup {[tag |-> "READY", src |-> i, root |-> r]}
BY DEF BroadcastReady

\* BroadcastReady keeps the types.
LEMMA BroadcastReadyType ==
  ASSUME TypeOK, NEW i \in Correct, NEW r \in Root, NEW due, BroadcastReady(i, r, due)
  PROVE  msgs' \subseteq Message /\ readySent' \in [Correct -> BOOLEAN]
<1>1. CASE UNCHANGED <<readySent, msgs>>
  BY <1>1 DEF TypeOK
<1>2. CASE /\ readySent' = [readySent EXCEPT ![i] = TRUE]
           /\ msgs' = msgs \cup {[tag |-> "READY", src |-> i, root |-> r]}
  BY <1>2 DEF TypeOK, Message, ReadyMsg
<1> QED
  BY <1>1, <1>2, BroadcastReadyEffect

\* What ReturnIfComplete does: nothing, or the node returns what it decodes.
LEMMA ReturnEffect ==
  ASSUME NEW i, NEW r, NEW senders, NEW count, NEW held,
         ReturnIfComplete(i, r, senders, count, held)
  PROVE  \/ output' = output
         \/ /\ Cardinality(senders) >= OutputThreshold /\ count >= K
            /\ output' = [output EXCEPT ![i] = decode_output(r, held)]
BY DEF ReturnIfComplete

\* ReturnIfComplete keeps the types.
LEMMA ReturnType ==
  ASSUME TypeOK, NEW i \in Correct, NEW r \in Root, NEW senders, NEW count, NEW held,
         ReturnIfComplete(i, r, senders, count, held)
  PROVE  output' \in [Correct -> Result \cup {None}]
<1>1. decode_output(r, held) \in Result
  BY DEF decode_output, Result
<1>2. CASE output' = output
  BY <1>2 DEF TypeOK
<1>3. CASE output' = [output EXCEPT ![i] = decode_output(r, held)]
  BY <1>1, <1>3 DEF TypeOK
<1> QED
  BY <1>2, <1>3, ReturnEffect

\* Every action keeps the types: a root or a leaf that is stored or sent comes
\* out of a well-formed message.
LEMMA TypeStep ==
  ASSUME TypeOK, [Next]_vars
  PROVE  TypeOK'
<1>1. ASSUME NEW r \in Codeword, LeaderInput(r) PROVE TypeOK'
  <2>1. \A i \in Node : [tag |-> "VAL", src |-> leader, dst |-> i, root |-> r,
                         leaf |-> i] \in Message
    BY NodeAssumption, RootAssumption DEF Message, ValMsg
  <2>2. msgs' \subseteq Message
    BY <1>1, <2>1 DEF LeaderInput, TypeOK
  <2> QED
    BY <1>1, <2>2 DEF LeaderInput, TypeOK
<1>2. ASSUME NEW i \in Correct, NEW m \in msgs, RecvVal(i, m) PROVE TypeOK'
  <2>1. m \in ValMsg
    BY <1>2 DEF RecvVal, TypeOK, Message, ValMsg, EchoMsg, ReadyMsg
  <2>2. [tag |-> "ECHO", src |-> i, root |-> m.root, leaf |-> m.leaf] \in Message
    BY <2>1 DEF Message, ValMsg, EchoMsg
  <2>3. msgs' \subseteq Message
    BY <1>2, <2>2 DEF RecvVal, TypeOK
  <2>4. fromLeader' \in [Correct -> Root \cup {None}]
    BY <1>2, <2>1 DEF RecvVal, TypeOK, ValMsg
  <2> QED
    BY <1>2, <2>3, <2>4 DEF RecvVal, TypeOK
<1>3. ASSUME NEW i \in Correct, NEW m \in msgs, RecvEcho(i, m) PROVE TypeOK'
  <2>1. m \in EchoMsg
    BY <1>3 DEF RecvEcho, TypeOK, Message, ValMsg, EchoMsg, ReadyMsg
  <2>2. m.root \in Root /\ m.src \in Node /\ m.leaf \in Node
    BY <2>1 DEF EchoMsg
  <2>3. msgs' \subseteq Message /\ readySent' \in [Correct -> BOOLEAN]
    BY <1>3, <2>2, BroadcastReadyType DEF RecvEcho
  <2>4. output' \in [Correct -> Result \cup {None}]
    BY <1>3, <2>2, ReturnType DEF RecvEcho
  <2>5. stripes' \in [Correct -> [Root -> [Node -> Node \cup {None}]]]
    BY <1>3, <2>2 DEF RecvEcho, TypeOK
  <2>6. /\ echoSenders' \in [Correct -> SUBSET Node]
        /\ echoCounter' \in [Correct -> [Root -> Nat]]
    BY <1>3, <2>2 DEF RecvEcho, TypeOK
  <2> QED
    BY <1>3, <2>3, <2>4, <2>5, <2>6 DEF RecvEcho, TypeOK
<1>4. ASSUME NEW i \in Correct, NEW m \in msgs, RecvReady(i, m) PROVE TypeOK'
  <2>1. m \in ReadyMsg
    BY <1>4 DEF RecvReady, TypeOK, Message, ValMsg, EchoMsg, ReadyMsg
  <2>2. m.root \in Root /\ m.src \in Node
    BY <2>1 DEF ReadyMsg
  <2>3. msgs' \subseteq Message /\ readySent' \in [Correct -> BOOLEAN]
    BY <1>4, <2>2, BroadcastReadyType DEF RecvReady
  <2>4. output' \in [Correct -> Result \cup {None}]
    BY <1>4, <2>2, ReturnType DEF RecvReady
  <2>5. /\ ready' \in [Correct -> [Root -> SUBSET Node]]
        /\ readySenders' \in [Correct -> SUBSET Node]
    BY <1>4, <2>2 DEF RecvReady, TypeOK
  <2> QED
    BY <1>4, <2>3, <2>4, <2>5 DEF RecvReady, TypeOK
<1>5. CASE UNCHANGED vars
  BY <1>5 DEF vars, TypeOK
<1> QED
  BY <1>1, <1>2, <1>3, <1>4, <1>5 DEF Next

\* The variables keep their types.
THEOREM TypeCorrect == Spec => []TypeOK
<1>1. Init => TypeOK
  BY FaultyAssumption, RootAssumption DEF Init, TypeOK
<1>2. TypeOK /\ [Next]_vars => TypeOK'
  BY TypeStep
<1> QED
  BY <1>1, <1>2, PTL DEF Spec

-----------------------------------------------------------------------------
(* The inductive invariant. Agreement alone is not inductive: it rests on  *)
(* what lies behind the READYs a node counts, and that on what lies behind *)
(* the stripes it holds.                                                   *)

\* Enough correct nodes have accepted r that, whatever the faulty ones do, no
\* other root can have as many.
EchoQuorum(r) == Cardinality(Echoed(r)) + Cardinality(Faulty) >= N - f

EchoTrue == \A m \in msgs :
  m.tag = "ECHO" /\ m.src \in Correct => fromLeader[m.src] = m.root

StripeTrue == \A i \in Correct, r \in Root, j \in Node :
  stripes[i][r][j] # None =>
    stripes[i][r][j] = j /\ (j \in Correct => fromLeader[j] = r)

EchoCount == \A i \in Correct, r \in Root :
  echoCounter[i][r] = Cardinality(Holders(i, r))

ReadyTrue == \A m \in msgs :
  m.tag = "READY" /\ m.src \in Correct => EchoQuorum(m.root)

ReadyHeard == \A i \in Correct, r \in Root, j \in Correct :
  j \in ready[i][r] => [tag |-> "READY", src |-> j, root |-> r] \in msgs

ReturnJustified == \A i \in Correct : output[i] # None =>
  /\ Cardinality(ready[i][output[i].root]) >= OutputThreshold
  /\ echoCounter[i][output[i].root] >= K
  /\ output[i].ok = (output[i].root \in Codeword)

\* With a correct leader, only its input is ever accepted.
LeaderTrue == leader \in Correct =>
  /\ \A m \in msgs : m.tag = "VAL" /\ m.src = leader => m.root = input
  /\ \A i \in Correct : fromLeader[i] # None => fromLeader[i] = input

IndInv == /\ TypeOK
          /\ EchoTrue /\ StripeTrue /\ EchoCount
          /\ ReadyTrue /\ ReadyHeard /\ ReturnJustified
          /\ LeaderTrue

-----------------------------------------------------------------------------
(* Quorums of echoes.                                                      *)

\* A set of senders is certified by its correct members.
LEMMA CorrectSupport ==
  ASSUME NEW H \in SUBSET Node, NEW E \in SUBSET Correct, H \cap Correct \subseteq E
  PROVE  Cardinality(E) + Cardinality(Faulty) >= Cardinality(H)
<1>1. Cardinality(H \cap Correct) + Cardinality(Faulty) >= Cardinality(H)
  BY CorrectPart
<1>2. E \in SUBSET Node /\ H \cap Correct \in SUBSET Node
  OBVIOUS
<1>3. Cardinality(H \cap Correct) <= Cardinality(E)
  BY <1>2, SubsetCard, FS_Subset
<1>4. /\ Cardinality(H) \in Nat /\ Cardinality(H \cap Correct) \in Nat
      /\ Cardinality(E) \in Nat /\ Cardinality(Faulty) \in Nat
  BY <1>2, SubsetCard, FaultAssumption
<1> QED
  BY <1>1, <1>3, <1>4

\* Two roots cannot both have N-f echoes: N > 3f leaves no room for two
\* disjoint sets of correct nodes of that size.
LEMMA OneQuorum ==
  ASSUME NEW r1, NEW r2, EchoQuorum(r1), EchoQuorum(r2)
  PROVE  r1 = r2
<1> SUFFICES ASSUME r1 # r2 PROVE FALSE
  OBVIOUS
<1>1. Echoed(r1) \cap Echoed(r2) = {}
  BY DEF Echoed
<1>2. /\ Echoed(r1) \in SUBSET Node /\ Echoed(r2) \in SUBSET Node
      /\ Echoed(r1) \cup Echoed(r2) \in SUBSET Node
      /\ (Echoed(r1) \cup Echoed(r2)) \cap Faulty = {}
  BY DEF Echoed
<1>3. Cardinality(Echoed(r1) \cup Echoed(r2))
        = Cardinality(Echoed(r1)) + Cardinality(Echoed(r2))
  BY <1>1, <1>2, DisjointCard
<1>4. Cardinality((Echoed(r1) \cup Echoed(r2)) \cup Faulty)
        = Cardinality(Echoed(r1) \cup Echoed(r2)) + Cardinality(Faulty)
  BY <1>2, DisjointCard, FaultAssumption
<1>5. Cardinality((Echoed(r1) \cup Echoed(r2)) \cup Faulty) <= N
  BY <1>2, SubsetCard, FaultAssumption
<1>6. /\ Cardinality(Echoed(r1)) \in Nat /\ Cardinality(Echoed(r2)) \in Nat
      /\ Cardinality(Faulty) \in Nat /\ N \in Nat
  BY <1>2, SubsetCard, FaultAssumption
<1>7. /\ Cardinality(Echoed(r1)) + Cardinality(Faulty) >= N - f
      /\ Cardinality(Echoed(r2)) + Cardinality(Faulty) >= N - f
  BY DEF EchoQuorum
<1> QED
  BY <1>3, <1>4, <1>5, <1>6, <1>7, FaultAssumption

\* A node accepts a VAL once and keeps to it.
LEMMA FromLeaderStable ==
  ASSUME TypeOK, [Next]_vars, NEW j \in Correct, fromLeader[j] # None
  PROVE  fromLeader'[j] = fromLeader[j]
<1>1. ASSUME NEW r \in Codeword, LeaderInput(r) PROVE fromLeader' = fromLeader
  BY <1>1 DEF LeaderInput
<1>2. ASSUME NEW i \in Correct, NEW m \in msgs, RecvVal(i, m)
      PROVE  fromLeader'[j] = fromLeader[j]
  BY <1>2 DEF RecvVal, TypeOK
<1>3. ASSUME NEW i \in Correct, NEW m \in msgs, RecvEcho(i, m)
      PROVE  fromLeader' = fromLeader
  BY <1>3 DEF RecvEcho
<1>4. ASSUME NEW i \in Correct, NEW m \in msgs, RecvReady(i, m)
      PROVE  fromLeader' = fromLeader
  BY <1>4 DEF RecvReady
<1>5. CASE UNCHANGED vars
  BY <1>5 DEF vars
<1> QED
  BY <1>1, <1>2, <1>3, <1>4, <1>5 DEF Next

\* So a quorum of echoes, once there, stays.
LEMMA QuorumStable ==
  ASSUME TypeOK, [Next]_vars, NEW r \in Root, EchoQuorum(r)
  PROVE  EchoQuorum(r)'
<1>1. Echoed(r) \subseteq Echoed(r)'
  BY FromLeaderStable, RootAssumption DEF Echoed
<1>2. Echoed(r) \in SUBSET Node /\ Echoed(r)' \in SUBSET Node
  BY DEF Echoed
<1>3. Cardinality(Echoed(r)) <= Cardinality(Echoed(r)')
  BY <1>1, <1>2, SubsetCard, FS_Subset
<1>4. /\ Cardinality(Echoed(r)) \in Nat /\ Cardinality(Echoed(r)') \in Nat
      /\ Cardinality(Faulty) \in Nat
  BY <1>2, SubsetCard, FaultAssumption
<1> QED
  BY <1>3, <1>4, SubsetCard, FaultAssumption DEF EchoQuorum

-----------------------------------------------------------------------------
(* The invariant holds initially, and each action preserves it.            *)

\* Nothing has been received or sent, except by the faulty nodes.
LEMMA InvInit == Init => IndInv
<1> SUFFICES ASSUME Init PROVE IndInv
  OBVIOUS
<1>1. TypeOK
  BY FaultyAssumption, RootAssumption DEF Init, TypeOK
<1>2. EchoTrue /\ ReadyTrue
  BY FaultyAssumption DEF Init, EchoTrue, ReadyTrue
<1>3. StripeTrue /\ ReadyHeard /\ ReturnJustified
  BY DEF Init, StripeTrue, ReadyHeard, ReturnJustified
<1>4. EchoCount
  <2> SUFFICES ASSUME NEW i \in Correct, NEW r \in Root
               PROVE  echoCounter[i][r] = Cardinality(Holders(i, r))
    BY DEF EchoCount
  <2>1. Holders(i, r) = {}
    BY DEF Init, Holders
  <2> QED
    BY <2>1, FS_EmptySet DEF Init
<1>5. LeaderTrue
  BY FaultyAssumption DEF Init, LeaderTrue
<1> QED
  BY <1>1, <1>2, <1>3, <1>4, <1>5 DEF IndInv

\* A correct leader sends one VAL to each node, all for its input.
LEMMA LeaderInputStep ==
  ASSUME IndInv, NEW r \in Codeword, LeaderInput(r)
  PROVE  IndInv'
<1>0. TypeOK /\ TypeOK' /\ [Next]_vars
  BY TypeStep DEF IndInv, Next
<1>1. /\ UNCHANGED <<fromLeader, stripes, echoCounter, ready, readySent, output>>
      /\ \A m \in msgs' : m \in msgs \/ (m.tag = "VAL" /\ m.src = leader /\ m.root = r)
      /\ msgs \subseteq msgs' /\ input' = r /\ input = None
  BY DEF LeaderInput
<1>2. EchoTrue'
  BY <1>1 DEF IndInv, EchoTrue
<1>3. StripeTrue' /\ EchoCount'
  BY <1>1 DEF IndInv, StripeTrue, EchoCount, Holders
<1>4. ReadyTrue'
  BY <1>1 DEF IndInv, ReadyTrue, EchoQuorum, Echoed
<1>5. ReadyHeard' /\ ReturnJustified'
  BY <1>1 DEF IndInv, ReadyHeard, ReturnJustified
<1>6. LeaderTrue'
  <2>1. \A m \in msgs : leader \in Correct /\ m.tag = "VAL" => m.src # leader
    <3>1. \A m \in msgs : m.root \in Root
      BY <1>0 DEF TypeOK, Message, ValMsg, EchoMsg, ReadyMsg
    <3> QED
      BY <1>1, <3>1, RootAssumption DEF IndInv, LeaderTrue
  <2> QED
    BY <1>1, <2>1 DEF IndInv, LeaderTrue
<1> QED
  BY <1>0, <1>2, <1>3, <1>4, <1>5, <1>6 DEF IndInv

\* A node that accepts a VAL echoes that root and, from then on, no other.
LEMMA RecvValStep ==
  ASSUME IndInv, NEW i \in Correct, NEW m \in msgs, RecvVal(i, m)
  PROVE  IndInv'
<1>0. TypeOK /\ TypeOK' /\ [Next]_vars
  BY TypeStep DEF IndInv, Next
<1>1. /\ UNCHANGED <<input, stripes, echoCounter, ready, readySent, output>>
      /\ fromLeader[i] = None
      /\ fromLeader' = [fromLeader EXCEPT ![i] = m.root]
      /\ msgs' = msgs \cup {[tag |-> "ECHO", src |-> i, root |-> m.root, leaf |-> m.leaf]}
  BY DEF RecvVal
<1>2. \A x \in msgs : x.root \in Root
  BY <1>0 DEF TypeOK, Message, ValMsg, EchoMsg, ReadyMsg
<1>3. EchoTrue'
  <2> SUFFICES ASSUME NEW x \in msgs', x.tag = "ECHO", x.src \in Correct
               PROVE  fromLeader'[x.src] = x.root
    BY DEF EchoTrue
  <2>1. CASE x \in msgs
    BY <1>0, <1>2, <2>1, RootAssumption, FromLeaderStable DEF IndInv, EchoTrue
  <2>2. CASE x = [tag |-> "ECHO", src |-> i, root |-> m.root, leaf |-> m.leaf]
    BY <1>0, <1>1, <2>2 DEF TypeOK
  <2> QED
    BY <1>1, <2>1, <2>2
<1>4. StripeTrue'
  BY <1>0, <1>1, FromLeaderStable, RootAssumption DEF IndInv, StripeTrue
<1>5. EchoCount'
  BY <1>1 DEF IndInv, EchoCount, Holders
<1>6. ReadyTrue'
  BY <1>0, <1>1, <1>2, QuorumStable DEF IndInv, ReadyTrue
<1>7. ReadyHeard' /\ ReturnJustified'
  BY <1>1 DEF IndInv, ReadyHeard, ReturnJustified
<1>8. LeaderTrue'
  <2> SUFFICES ASSUME leader \in Correct PROVE LeaderTrue'
    BY DEF LeaderTrue
  <2>1. m.root = input
    BY DEF RecvVal, IndInv, LeaderTrue
  <2>2. \A j \in Correct : fromLeader'[j] # None => fromLeader'[j] = input
    BY <1>0, <1>1, <2>1 DEF IndInv, LeaderTrue, TypeOK
  <2>3. \A x \in msgs' : x.tag = "VAL" /\ x.src = leader => x.root = input
    BY <1>1 DEF IndInv, LeaderTrue
  <2> QED
    BY <1>1, <2>2, <2>3 DEF LeaderTrue
<1> QED
  BY <1>0, <1>3, <1>4, <1>5, <1>6, <1>7, <1>8 DEF IndInv

\* A READY that BroadcastReady sends must be backed by a quorum of echoes, and
\* then ReadyTrue is preserved.
LEMMA ReadyTrueStep ==
  ASSUME IndInv, [Next]_vars, NEW i \in Correct, NEW r \in Root, NEW due,
         BroadcastReady(i, r, due), due => EchoQuorum(r)'
  PROVE  ReadyTrue'
<1> SUFFICES ASSUME NEW x \in msgs', x.tag = "READY", x.src \in Correct
             PROVE  EchoQuorum(x.root)'
  BY DEF ReadyTrue
<1>1. CASE x \in msgs
  <2>1. x.root \in Root
    BY <1>1 DEF IndInv, TypeOK, Message, ValMsg, EchoMsg, ReadyMsg
  <2> QED
    BY <1>1, <2>1, QuorumStable DEF IndInv, ReadyTrue
<1>2. CASE x \notin msgs
  <2>1. due /\ x = [tag |-> "READY", src |-> i, root |-> r]
    BY <1>2, BroadcastReadyEffect
  <2> QED
    BY <2>1
<1> QED
  BY <1>1, <1>2

\* When ReturnIfComplete makes a node return, the counts are there and it
\* returns what the root commits to.
LEMMA ReturnJustifiedStep ==
  ASSUME IndInv, TypeOK', StripeTrue', NEW i \in Correct, NEW r \in Root,
         output[i] = None,
         ReturnIfComplete(i, r, ready'[i][r], echoCounter'[i][r], stripes'[i][r]),
         \A j \in Correct : j # i => ready'[j] = ready[j] /\ echoCounter'[j] = echoCounter[j]
  PROVE  ReturnJustified'
<1> SUFFICES ASSUME NEW j \in Correct, output'[j] # None
             PROVE  /\ Cardinality(ready'[j][output'[j].root]) >= OutputThreshold
                    /\ echoCounter'[j][output'[j].root] >= K
                    /\ output'[j].ok = (output'[j].root \in Codeword)
  BY DEF ReturnJustified
<1>1. CASE j # i
  <2>1. output'[j] = output[j]
    <3>1. output \in [Correct -> Result \cup {None}]
      BY DEF IndInv, TypeOK
    <3>2. CASE output' = [output EXCEPT ![i] = decode_output(r, stripes'[i][r])]
      BY <1>1, <3>1, <3>2
    <3> QED
      BY <3>2, ReturnEffect
  <2> QED
    BY <1>1, <2>1 DEF IndInv, ReturnJustified
<1>2. CASE j = i
  <2>1. /\ Cardinality(ready'[i][r]) >= OutputThreshold
        /\ echoCounter'[i][r] >= K
        /\ output'[i] = decode_output(r, stripes'[i][r])
    BY <1>2, ReturnEffect DEF IndInv, TypeOK
  <2>2. \A k \in Node : stripes'[i][r][k] \in {None, k}
    BY DEF StripeTrue
  <2>3. output'[i].root = r /\ output'[i].ok = (r \in Codeword)
    BY <2>1, <2>2 DEF decode_output
  <2> QED
    BY <1>2, <2>1, <2>3
<1> QED
  BY <1>1, <1>2

\* The counts of stripes, echoes and senders go up together; a READY that is
\* sent has N-f echoes behind it, and so has what is returned.
LEMMA RecvEchoStep ==
  ASSUME IndInv, NEW i \in Correct, NEW m \in msgs, RecvEcho(i, m)
  PROVE  IndInv'
<1>0. TypeOK /\ TypeOK' /\ [Next]_vars
  BY TypeStep DEF IndInv, Next
<1> DEFINE r == m.root
<1>1. m \in EchoMsg
  BY <1>0 DEF RecvEcho, TypeOK, Message, ValMsg, EchoMsg, ReadyMsg
<1>2. r \in Root /\ m.src \in Node /\ m.leaf = m.src
  BY <1>1 DEF RecvEcho, merkleVerify, EchoMsg
<1>3. /\ UNCHANGED <<input, fromLeader, ready>>
      /\ output[i] = None
      /\ stripes[i][r][m.src] = None
      /\ stripes' = [stripes EXCEPT ![i][r][m.src] = m.leaf]
      /\ echoCounter' = [echoCounter EXCEPT ![i][r] = @ + 1]
      /\ BroadcastReady(i, r, echoCounter'[i][r] >= EchoThreshold)
      /\ ReturnIfComplete(i, r, ready[i][r], echoCounter'[i][r], stripes'[i][r])
  BY DEF RecvEcho, Receiving
<1>4. msgs \subseteq msgs' /\ \A x \in msgs' : x \in msgs \/ x.tag = "READY"
  BY <1>3, BroadcastReadyEffect
<1>5. EchoTrue'
  BY <1>3, <1>4 DEF IndInv, EchoTrue
<1>6. StripeTrue'
  <2>1. m.src \in Correct => fromLeader[m.src] = r
    BY DEF RecvEcho, IndInv, EchoTrue
  <2> QED
    BY <1>0, <1>2, <1>3, <2>1 DEF IndInv, StripeTrue, TypeOK
<1>7. EchoCount'
  <2> SUFFICES ASSUME NEW j \in Correct, NEW q \in Root
               PROVE  echoCounter'[j][q] = Cardinality(Holders(j, q)')
    BY DEF EchoCount
  <2>1. CASE j = i /\ q = r
    <3>1. Holders(i, r)' = Holders(i, r) \cup {m.src} /\ m.src \notin Holders(i, r)
      BY <1>0, <1>2, <1>3, RootAssumption DEF Holders, TypeOK
    <3>2. Holders(i, r) \in SUBSET Node
      BY DEF Holders
    <3>3. Cardinality(Holders(i, r)') = Cardinality(Holders(i, r)) + 1
      BY <3>1, <3>2, SubsetCard, FS_AddElement
    <3>4. echoCounter'[i][r] = echoCounter[i][r] + 1
      BY <1>0, <1>2, <1>3 DEF TypeOK
    <3> QED
      BY <1>2, <2>1, <3>3, <3>4 DEF IndInv, EchoCount
  <2>2. CASE ~ (j = i /\ q = r)
    <3>1. stripes'[j][q] = stripes[j][q] /\ echoCounter'[j][q] = echoCounter[j][q]
      BY <1>0, <1>2, <1>3, <2>2 DEF TypeOK
    <3> QED
      BY <3>1 DEF Holders, IndInv, EchoCount
  <2> QED
    BY <2>1, <2>2
<1>8. ReadyTrue'
  <2>1. ASSUME echoCounter'[i][r] >= EchoThreshold PROVE EchoQuorum(r)'
    <3>1. Holders(i, r)' \in SUBSET Node /\ Echoed(r)' \in SUBSET Correct
      BY DEF Holders, Echoed
    <3>2. Holders(i, r)' \cap Correct \subseteq Echoed(r)'
      BY <1>2, <1>6 DEF StripeTrue, Holders, Echoed
    <3>3. Cardinality(Echoed(r)') + Cardinality(Faulty) >= Cardinality(Holders(i, r)')
      BY <3>1, <3>2, CorrectSupport
    <3>4. Cardinality(Holders(i, r)') >= N - f
      BY <1>2, <1>7, <2>1 DEF EchoCount, EchoThreshold
    <3>5. /\ Cardinality(Holders(i, r)') \in Nat /\ Cardinality(Echoed(r)') \in Nat
          /\ Cardinality(Faulty) \in Nat /\ N \in Nat
      BY <3>1, SubsetCard, FaultAssumption
    <3> QED
      BY <3>3, <3>4, <3>5, FaultAssumption DEF EchoQuorum
  <2> QED
    BY <1>0, <1>2, <1>3, <2>1, ReadyTrueStep
<1>9. ReadyHeard'
  BY <1>3, <1>4 DEF IndInv, ReadyHeard
<1>10. ReturnJustified'
  BY <1>0, <1>2, <1>3, <1>6, ReturnJustifiedStep DEF TypeOK
<1>11. LeaderTrue'
  BY <1>3, <1>4 DEF IndInv, LeaderTrue
<1> QED
  BY <1>0, <1>5, <1>6, <1>7, <1>8, <1>9, <1>10, <1>11 DEF IndInv

\* A READY that is relayed has f+1 READYs behind it, one of a correct node, so
\* that the quorum of echoes behind that one is behind the relayed one too.
LEMMA RecvReadyStep ==
  ASSUME IndInv, NEW i \in Correct, NEW m \in msgs, RecvReady(i, m)
  PROVE  IndInv'
<1>0. TypeOK /\ TypeOK' /\ [Next]_vars
  BY TypeStep DEF IndInv, Next
<1> DEFINE r == m.root
<1>1. m \in ReadyMsg
  BY <1>0 DEF RecvReady, TypeOK, Message, ValMsg, EchoMsg, ReadyMsg
<1>2. /\ r \in Root /\ m.src \in Node
      /\ m = [tag |-> "READY", src |-> m.src, root |-> r]
  BY <1>1 DEF ReadyMsg
<1>3. /\ UNCHANGED <<input, fromLeader, stripes, echoCounter>>
      /\ output[i] = None
      /\ ready' = [ready EXCEPT ![i][r] = @ \cup {m.src}]
      /\ BroadcastReady(i, r, Cardinality(ready'[i][r]) >= ReadyThreshold)
      /\ ReturnIfComplete(i, r, ready'[i][r], echoCounter[i][r], stripes[i][r])
  BY DEF RecvReady, Receiving
<1>4. msgs \subseteq msgs' /\ \A x \in msgs' : x \in msgs \/ x.tag = "READY"
  BY <1>3, BroadcastReadyEffect
<1>5. EchoTrue'
  BY <1>3, <1>4 DEF IndInv, EchoTrue
<1>6. StripeTrue' /\ EchoCount'
  BY <1>3 DEF IndInv, StripeTrue, EchoCount, Holders
<1>7. ReadyHeard'
  <2> SUFFICES ASSUME NEW j \in Correct, NEW q \in Root, NEW k \in Correct, k \in ready'[j][q]
               PROVE  [tag |-> "READY", src |-> k, root |-> q] \in msgs'
    BY DEF ReadyHeard
  <2>1. CASE k \in ready[j][q]
    BY <1>4, <2>1 DEF IndInv, ReadyHeard
  <2>2. CASE k \notin ready[j][q]
    <3>1. j = i /\ q = r /\ k = m.src
      BY <1>0, <1>2, <1>3, <2>2 DEF TypeOK
    <3> QED
      BY <1>2, <1>4, <3>1
  <2> QED
    BY <2>1, <2>2
<1>8. ReadyTrue'
  <2>1. ASSUME Cardinality(ready'[i][r]) >= ReadyThreshold PROVE EchoQuorum(r)'
    <3>1. ready'[i][r] \in SUBSET Node
      BY <1>0, <1>2 DEF TypeOK
    <3>2. PICK j \in Correct : j \in ready'[i][r]
      BY <2>1, <3>1, OneIsCorrect DEF ReadyThreshold
    <3>3. [tag |-> "READY", src |-> j, root |-> r] \in msgs
      <4>1. CASE j \in ready[i][r]
        BY <1>2, <4>1 DEF IndInv, ReadyHeard
      <4>2. CASE j \notin ready[i][r]
        <5>1. j = m.src
          BY <1>0, <1>2, <1>3, <3>2, <4>2 DEF TypeOK
        <5> QED
          BY <1>2, <5>1
      <4> QED
        BY <4>1, <4>2
    <3>4. EchoQuorum(r)
      BY <3>3 DEF IndInv, ReadyTrue
    <3> QED
      BY <1>0, <1>2, <3>4, QuorumStable
  <2> QED
    BY <1>0, <1>2, <1>3, <2>1, ReadyTrueStep
<1>9. ReturnJustified'
  BY <1>0, <1>2, <1>3, <1>6, ReturnJustifiedStep DEF TypeOK
<1>10. LeaderTrue'
  BY <1>3, <1>4 DEF IndInv, LeaderTrue
<1> QED
  BY <1>0, <1>5, <1>6, <1>7, <1>8, <1>9, <1>10 DEF IndInv

\* Every step preserves the invariant, one case per action.
LEMMA InvStep ==
  ASSUME IndInv, [Next]_vars
  PROVE  IndInv'
<1>1. ASSUME NEW r \in Codeword, LeaderInput(r) PROVE IndInv'
  BY <1>1, LeaderInputStep
<1>2. ASSUME NEW i \in Correct, NEW m \in msgs, RecvVal(i, m) PROVE IndInv'
  BY <1>2, RecvValStep
<1>3. ASSUME NEW i \in Correct, NEW m \in msgs, RecvEcho(i, m) PROVE IndInv'
  BY <1>3, RecvEchoStep
<1>4. ASSUME NEW i \in Correct, NEW m \in msgs, RecvReady(i, m) PROVE IndInv'
  BY <1>4, RecvReadyStep
<1>5. CASE UNCHANGED vars
  <2>1. TypeOK'
    BY TypeStep DEF IndInv
  <2>2. EchoTrue' /\ StripeTrue' /\ EchoCount'
    BY <1>5 DEF vars, IndInv, EchoTrue, StripeTrue, EchoCount, Holders
  <2>3. ReadyTrue'
    BY <1>5 DEF vars, IndInv, ReadyTrue, EchoQuorum, Echoed
  <2>4. ReadyHeard' /\ ReturnJustified' /\ LeaderTrue'
    BY <1>5 DEF vars, IndInv, ReadyHeard, ReturnJustified, LeaderTrue
  <2> QED
    BY <2>1, <2>2, <2>3, <2>4 DEF IndInv
<1> QED
  BY <1>1, <1>2, <1>3, <1>4, <1>5 DEF Next

\* The inductive invariant holds in every reachable state.
THEOREM Invariance == Spec => []IndInv
<1>1. Init => IndInv
  BY InvInit
<1>2. IndInv /\ [Next]_vars => IndInv'
  BY InvStep
<1> QED
  BY <1>1, <1>2, PTL DEF Spec

-----------------------------------------------------------------------------
(* What follows from the invariant.                                        *)

\* Behind what a node returns stands a quorum of echoes and f+1 correct READYs.
LEMMA ReturnBacked ==
  ASSUME IndInv, NEW i \in Correct, output[i] # None
  PROVE  /\ output[i].root \in Root
         /\ output[i] = [root |-> output[i].root, ok |-> output[i].root \in Codeword]
         /\ EchoQuorum(output[i].root)
         /\ Cardinality(SaidReady(output[i].root)) >= f + 1
<1> DEFINE r == output[i].root
<1>1. output[i] \in Result /\ r \in Root
  BY DEF IndInv, TypeOK, Result
<1>2. output[i] = [root |-> r, ok |-> r \in Codeword]
  BY <1>1 DEF IndInv, ReturnJustified, Result
<1>3. ready[i][r] \in SUBSET Node /\ Cardinality(ready[i][r]) >= 2 * f + 1
  BY <1>1 DEF IndInv, TypeOK, ReturnJustified, OutputThreshold
<1>4. ready[i][r] \cap Correct \subseteq SaidReady(r)
  BY <1>1 DEF IndInv, ReadyHeard, SaidReady
<1>5. Cardinality(SaidReady(r)) >= f + 1
  <2>1. SaidReady(r) \in SUBSET Node /\ ready[i][r] \cap Correct \in SUBSET Node
    BY DEF SaidReady
  <2>2. Cardinality(ready[i][r] \cap Correct) <= Cardinality(SaidReady(r))
    BY <1>4, <2>1, SubsetCard, FS_Subset
  <2>3. Cardinality(ready[i][r] \cap Correct) + f >= Cardinality(ready[i][r])
    BY <1>3, CorrectPart
  <2>4. /\ Cardinality(ready[i][r] \cap Correct) \in Nat
        /\ Cardinality(SaidReady(r)) \in Nat /\ Cardinality(ready[i][r]) \in Nat
    BY <1>3, <2>1, SubsetCard
  <2> QED
    BY <1>3, <2>2, <2>3, <2>4, FaultAssumption
<1>6. EchoQuorum(r)
  <2>1. PICK j \in Correct : [tag |-> "READY", src |-> j, root |-> r] \in msgs
    <3>1. SaidReady(r) \in SUBSET Node
      BY DEF SaidReady
    <3>2. SaidReady(r) \cap Correct # {}
      BY <1>5, <3>1, OneIsCorrect
    <3> QED
      BY <3>2 DEF SaidReady
  <2> QED
    BY <2>1 DEF IndInv, ReadyTrue
<1> QED
  BY <1>1, <1>2, <1>5, <1>6

\* Correct nodes never return differently, for any N, any f with N >= 3f+1 and
\* any messages of the faulty nodes.
THEOREM AgreementTheorem == Spec => []Agreement
<1>1. ASSUME IndInv PROVE Agreement
  <2> SUFFICES ASSUME NEW i \in Correct, NEW j \in Correct,
                      output[i] # None, output[j] # None
               PROVE  output[i] = output[j]
    BY DEF Agreement, Returned
  <2>1. output[i].root = output[j].root
    BY <1>1, ReturnBacked, OneQuorum
  <2>2. /\ output[i] = [root |-> output[i].root, ok |-> output[i].root \in Codeword]
        /\ output[j] = [root |-> output[j].root, ok |-> output[j].root \in Codeword]
    BY <1>1, ReturnBacked
  <2> QED
    BY <2>1, <2>2
<1> QED
  BY <1>1, Invariance, PTL

\* Correct nodes never vouch for two roots.
THEOREM ReadyForOneRootTheorem == Spec => []ReadyForOneRoot
<1>1. ASSUME IndInv PROVE ReadyForOneRoot
  BY <1>1, OneQuorum DEF IndInv, ReadyTrue, ReadyForOneRoot
<1> QED
  BY <1>1, Invariance, PTL

\* Whatever one node returns, the messages of the other correct nodes suffice
\* for everyone to return it.
THEOREM ReturnIsRecoverableTheorem == Spec => []ReturnIsRecoverable
<1>1. ASSUME IndInv PROVE ReturnIsRecoverable
  <2> SUFFICES ASSUME NEW i \in Correct, output[i] # None
               PROVE  /\ Cardinality(Echoed(output[i].root)) >= K
                      /\ Cardinality(SaidReady(output[i].root)) >= ReadyThreshold
    BY DEF ReturnIsRecoverable, Returned, Echoed, SaidReady
  <2>1. EchoQuorum(output[i].root) /\ Cardinality(SaidReady(output[i].root)) >= f + 1
    BY <1>1, ReturnBacked
  <2>2. Echoed(output[i].root) \in SUBSET Node
    BY DEF Echoed
  <2>3. Cardinality(Echoed(output[i].root)) \in Nat /\ Cardinality(Faulty) \in Nat /\ N \in Nat
    BY <2>2, SubsetCard, FaultAssumption
  <2> QED
    BY <2>1, <2>3, FaultAssumption DEF EchoQuorum, K, ReadyThreshold
<1> QED
  BY <1>1, Invariance, PTL

\* With a correct leader a quorum of echoes is one for its input.
LEMMA QuorumIsInput ==
  ASSUME IndInv, leader \in Correct, NEW r \in Root, EchoQuorum(r)
  PROVE  r = input /\ r \in Codeword
<1>1. Echoed(r) \in SUBSET Node
  BY DEF Echoed
<1>2. Cardinality(Echoed(r)) \in Nat /\ Cardinality(Faulty) \in Nat /\ N \in Nat
  BY <1>1, SubsetCard, FaultAssumption
<1>3. Cardinality(Echoed(r)) # 0
  BY <1>2, FaultAssumption DEF EchoQuorum
<1>4. PICK j \in Correct : fromLeader[j] = r
  BY <1>3, FS_EmptySet DEF Echoed
<1>5. r = input
  BY <1>4, RootAssumption DEF IndInv, LeaderTrue
<1> QED
  BY <1>5, RootAssumption DEF IndInv, TypeOK

\* With a correct leader, what is returned is its input, decoded.
THEOREM ValidityTheorem == Spec => []Validity
<1>1. ASSUME IndInv PROVE Validity
  <2> SUFFICES ASSUME leader \in Correct, NEW i \in Correct, output[i] # None
               PROVE  output[i] = [root |-> input, ok |-> TRUE]
    BY DEF Validity, Returned
  <2> DEFINE r == output[i].root
  <2>1. /\ r \in Root /\ EchoQuorum(r)
        /\ output[i] = [root |-> r, ok |-> r \in Codeword]
    BY <1>1, ReturnBacked
  <2>2. r = input /\ (r \in Codeword) = TRUE
    BY <1>1, <2>1, QuorumIsInput
  <2> QED
    BY <2>1, <2>2
<1> QED
  BY <1>1, Invariance, PTL

-----------------------------------------------------------------------------
(* The protocol implements Broadcast.                                      *)

\* The READYs of correct nodes name one root, the one Broadcast has chosen.
ChosenTrue ==
  /\ Vouched = {} => chosen = None
  /\ \A r \in Vouched : r \in Root /\ EchoQuorum(r) /\ chosen = r

\* chosen is the root of every READY that a correct node has sent.
LEMMA ChosenIsVouched == IndInv => ChosenTrue
<1> SUFFICES ASSUME IndInv PROVE ChosenTrue
  OBVIOUS
<1>1. \A r \in Vouched : r \in Root /\ EchoQuorum(r)
  BY DEF IndInv, ReadyTrue, Vouched
<1>2. \A r1, r2 \in Vouched : r1 = r2
  BY <1>1, OneQuorum
<1> QED
  BY <1>1, <1>2 DEF chosen, ChosenTrue

\* Messages are never unsent, so a choice is final.
LEMMA ChosenStable ==
  ASSUME IndInv, ChosenTrue', msgs \subseteq msgs', Vouched # {}
  PROVE  chosen' = chosen
<1>1. PICK r \in Vouched : TRUE
  OBVIOUS
<1>2. r \in Vouched'
  BY <1>1 DEF Vouched
<1> QED
  BY <1>1, <1>2, ChosenIsVouched DEF ChosenTrue

\* A step that only sends messages is a choice when it sends the first READY
\* of a correct node, and none of Broadcast's business otherwise.
LEMMA SendStep ==
  ASSUME IndInv, IndInv', ChosenTrue', msgs \subseteq msgs',
         UNCHANGED <<input, output>>,
         \A r \in Root : EchoQuorum(r)' /\ leader \in Correct => r = input
  PROVE  [B!Next]_(B!vars)
<1>1. CASE Vouched # {}
  BY <1>1, ChosenStable DEF B!vars
<1>2. CASE Vouched = {} /\ Vouched' = {}
  BY <1>2, ChosenIsVouched DEF ChosenTrue, B!vars
<1>3. CASE Vouched = {} /\ Vouched' # {}
  <2>1. PICK r \in Vouched' : TRUE
    BY <1>3
  <2>2. chosen = None /\ chosen' = r /\ r \in Root /\ EchoQuorum(r)'
    BY <1>3, <2>1, ChosenIsVouched DEF ChosenTrue
  <2>3. B!Choose(r)
    BY <2>2 DEF B!Choose, B!Correct
  <2> QED
    BY <2>2, <2>3 DEF B!Next
<1> QED
  BY <1>1, <1>2, <1>3

\* When a node returns, some correct node has vouched for the root before.
LEMMA ReturnStep ==
  ASSUME IndInv, IndInv', ChosenTrue', msgs \subseteq msgs', input' = input,
         NEW i \in Correct, NEW r \in Vouched, NEW held,
         output[i] = None, output' = [output EXCEPT ![i] = decode_output(r, held)]
  PROVE  B!Next
<1>1. chosen = r /\ chosen' = r /\ r \in Root
  BY ChosenIsVouched, ChosenStable DEF ChosenTrue
<1>2. decode_output(r, held) \in Result /\ decode_output(r, held).root = r
  BY <1>1 DEF decode_output, Result
<1>3. output'[i] = decode_output(r, held) /\ output'[i] # None
  BY <1>2, RootAssumption DEF IndInv, TypeOK
<1>4. output'[i] = [root |-> r, ok |-> r \in Codeword]
  <2>1. output'[i].ok = (output'[i].root \in Codeword)
    BY <1>3 DEF IndInv, ReturnJustified
  <2> QED
    BY <1>2, <1>3, <2>1 DEF Result
<1>5. output' = [output EXCEPT ![i] = [root |-> chosen, ok |-> chosen \in Codeword]]
  BY <1>1, <1>3, <1>4
<1>6. B!Deliver(i)
  BY <1>1, <1>5, RootAssumption DEF B!Deliver
<1> QED
  BY <1>6 DEF B!Next, B!Correct

\* The handlers of ECHO and READY, which may do both.
LEMMA HandlerStep ==
  ASSUME IndInv, IndInv', ChosenTrue', [Next]_vars, input' = input,
         NEW i \in Correct, NEW r \in Root, NEW due, NEW senders, NEW count, NEW held,
         output[i] = None,
         BroadcastReady(i, r, due),
         ReturnIfComplete(i, r, senders, count, held),
         senders \in SUBSET Node,
         \A j \in Correct : j \in senders => [tag |-> "READY", src |-> j, root |-> r] \in msgs,
         \A q \in Root : EchoQuorum(q)' /\ leader \in Correct => q = input
  PROVE  [B!Next]_(B!vars)
<1>1. msgs \subseteq msgs'
  BY BroadcastReadyEffect
<1>2. CASE output' = output
  BY <1>1, <1>2, SendStep
<1>3. CASE /\ Cardinality(senders) >= OutputThreshold
           /\ output' = [output EXCEPT ![i] = decode_output(r, held)]
  <2>1. Cardinality(senders) >= f + 1
    BY <1>3, SubsetCard, FaultAssumption DEF OutputThreshold
  <2>2. PICK j \in Correct : j \in senders
    BY <2>1, OneIsCorrect
  <2>3. r \in Vouched
    BY <2>2 DEF Vouched
  <2> QED
    BY <1>1, <1>3, <2>3, ReturnStep
<1> QED
  BY <1>2, <1>3, ReturnEffect

\* With a correct leader a quorum, also the one a step completes, is for its input.
InputIsQuorum == \A r \in Root : EchoQuorum(r) /\ leader \in Correct => r = input

\* The same for every root at once.
LEMMA QuorumsAreInput == IndInv => InputIsQuorum
BY QuorumIsInput DEF InputIsQuorum

\* Every step is one of Broadcast or leaves its variables alone.
LEMMA RefinementStep ==
  ASSUME IndInv, IndInv', ChosenTrue', InputIsQuorum', [Next]_vars
  PROVE  [B!Next]_(B!vars)
<1>1. ASSUME NEW r \in Codeword, LeaderInput(r) PROVE [B!Next]_(B!vars)
  <2>1. Vouched' = Vouched
    BY <1>1 DEF LeaderInput, Vouched
  <2>2. chosen' = chosen
    BY <2>1 DEF chosen
  <2>3. B!Give(r)
    BY <1>1, <2>2 DEF LeaderInput, B!Give, B!Correct
  <2> QED
    BY <2>3 DEF B!Next
<1>2. ASSUME NEW i \in Correct, NEW m \in msgs, RecvVal(i, m) PROVE [B!Next]_(B!vars)
  BY <1>2, SendStep DEF RecvVal, InputIsQuorum
<1>3. ASSUME NEW i \in Correct, NEW m \in msgs, RecvEcho(i, m) PROVE [B!Next]_(B!vars)
  <2>1. m.root \in Root
    BY DEF IndInv, TypeOK, Message, ValMsg, EchoMsg, ReadyMsg
  <2>2. /\ ready[i][m.root] \in SUBSET Node
        /\ \A j \in Correct : j \in ready[i][m.root] =>
             [tag |-> "READY", src |-> j, root |-> m.root] \in msgs
    BY <2>1 DEF IndInv, TypeOK, ReadyHeard
  <2>3. /\ input' = input /\ output[i] = None
        /\ BroadcastReady(i, m.root, echoCounter'[i][m.root] >= EchoThreshold)
        /\ ReturnIfComplete(i, m.root, ready[i][m.root], echoCounter'[i][m.root],
                            stripes'[i][m.root])
    BY <1>3 DEF RecvEcho, Receiving
  <2>4. \A q \in Root : EchoQuorum(q)' /\ leader \in Correct => q = input
    BY <2>3 DEF InputIsQuorum
  <2> QED
    BY <2>1, <2>2, <2>3, <2>4, HandlerStep
<1>4. ASSUME NEW i \in Correct, NEW m \in msgs, RecvReady(i, m) PROVE [B!Next]_(B!vars)
  <2>1. /\ m.root \in Root /\ m.src \in Node
        /\ m = [tag |-> "READY", src |-> m.src, root |-> m.root]
    BY <1>4 DEF RecvReady, IndInv, TypeOK, Message, ValMsg, EchoMsg, ReadyMsg
  <2>2. ready'[i][m.root] = ready[i][m.root] \cup {m.src}
    BY <1>4, <2>1 DEF RecvReady, IndInv, TypeOK
  <2>3. /\ ready'[i][m.root] \in SUBSET Node
        /\ \A j \in Correct : j \in ready'[i][m.root] =>
             [tag |-> "READY", src |-> j, root |-> m.root] \in msgs
    BY <2>1, <2>2 DEF IndInv, TypeOK, ReadyHeard
  <2>4. /\ input' = input /\ output[i] = None
        /\ BroadcastReady(i, m.root, Cardinality(ready'[i][m.root]) >= ReadyThreshold)
        /\ ReturnIfComplete(i, m.root, ready'[i][m.root], echoCounter[i][m.root],
                            stripes[i][m.root])
    BY <1>4 DEF RecvReady, Receiving
  <2>5. \A q \in Root : EchoQuorum(q)' /\ leader \in Correct => q = input
    BY <2>4 DEF InputIsQuorum
  <2> QED
    BY <2>1, <2>3, <2>4, <2>5, HandlerStep
<1>5. CASE UNCHANGED vars
  <2>1. Vouched' = Vouched
    BY <1>5 DEF vars, Vouched
  <2>2. chosen' = chosen
    BY <2>1 DEF chosen
  <2> QED
    BY <1>5, <2>2 DEF vars, B!vars
<1> QED
  BY <1>1, <1>2, <1>3, <1>4, <1>5 DEF Next

\* The message protocol implements Broadcast: what commonsubset.py builds on.
THEOREM Refinement == Spec => ImplementsBroadcast
<1>1. Init => B!Init
  <2>1. Init => Vouched = {}
    BY FaultyAssumption DEF Init, Vouched
  <2> QED
    BY <2>1 DEF Init, B!Init, B!Correct, chosen
<1>2. IndInv /\ IndInv' /\ ChosenTrue' /\ InputIsQuorum' /\ [Next]_vars => [B!Next]_(B!vars)
  BY RefinementStep
<1> QED
  BY <1>1, <1>2, Invariance, ChosenIsVouched, QuorumsAreInput, PTL
     DEF Spec, ImplementsBroadcast, B!Spec
=============================================================================
