------------------------- MODULE ReliableBroadcast -------------------------
(***************************************************************************)
(* One instance of honeybadgerbft/core/reliablebroadcast.py: the leader    *)
(* disperses a value as N erasure-coded stripes under a Merkle root, the   *)
(* nodes echo their stripes, and a node returns the value once 2f+1 nodes  *)
(* are READY for the root and it holds N-2f stripes.                       *)
(*                                                                         *)
(* A value is represented by its Merkle root, and the branch and stripe a  *)
(* message carries by the index of the leaf they belong to: hashing is     *)
(* collision free, so merkleVerify accepts a branch at exactly one index.  *)
(* Messages of the correct nodes are delivered in any order and at any     *)
(* time; the ones the faulty nodes may send are a constant, and each node  *)
(* may or may not receive each of them.                                    *)
(*                                                                         *)
(* A message counts for the node that it names. That faulty nodes name no  *)
(* correct one is an assumption: no code sees to it.                       *)
(***************************************************************************)
EXTENDS Integers, FiniteSets

CONSTANTS
  Node,        \* the N nodes
  Faulty,      \* the nodes that need not run this code
  f,           \* the fault tolerance the nodes are configured with
  leader,      \* the node whose value is broadcast
  Root,        \* Merkle roots
  Codeword,    \* the roots whose N leaves are the encoding of some value
  FaultyMsgs,  \* the messages the faulty nodes may send
  None

N       == Cardinality(Node)
Correct == Node \ Faulty

ValMsg   == [tag : {"VAL"}, src : Node, dst : Node, root : Root, leaf : Node]
EchoMsg  == [tag : {"ECHO"}, src : Node, root : Root, leaf : Node]
ReadyMsg == [tag : {"READY"}, src : Node, root : Root]
Message  == ValMsg \cup EchoMsg \cup ReadyMsg

\* What a call comes to: the value of a root, or the assertion that it decodes.
Result == [root : Root, ok : BOOLEAN]

ASSUME NodeAssumption   == IsFiniteSet(Node) /\ leader \in Node
ASSUME FaultAssumption  == /\ Faulty \subseteq Node
                           /\ f \in Nat
                           /\ Cardinality(Faulty) <= f
                           /\ N >= 3 * f + 1
ASSUME RootAssumption   == Codeword \subseteq Root /\ None \notin Root \cup Node \cup Result
ASSUME FaultyAssumption == \A m \in FaultyMsgs : m \in Message /\ m.src \in Faulty

K               == N - 2 * f
EchoThreshold   == N - f
ReadyThreshold  == f + 1
OutputThreshold == 2 * f + 1

VARIABLES
  msgs,         \* the messages sent so far, by anyone
  input,        \* the root of the value a correct leader was given
  fromLeader,   \* per node: the root of the VAL it accepted
  stripes,      \* per node, root and sender: the leaf held, or None
  echoSenders,  \* per node: who has sent it a verified ECHO
  echoCounter,  \* per node and root: how many ECHOs it counted
  ready,        \* per node and root: who has sent it a READY
  readySenders, \* per node: who has sent it a READY of any root
  readySent,    \* per node: it has broadcast a READY
  output        \* per node: None, or what its call has come to

vars == <<msgs, input, fromLeader, stripes, echoSenders, echoCounter,
          ready, readySenders, readySent, output>>

Init ==
  /\ msgs         = FaultyMsgs
  /\ input        = None
  /\ fromLeader   = [i \in Correct |-> None]
  /\ stripes      = [i \in Correct |-> [r \in Root |-> [j \in Node |-> None]]]
  /\ echoSenders  = [i \in Correct |-> {}]
  /\ echoCounter  = [i \in Correct |-> [r \in Root |-> 0]]
  /\ ready        = [i \in Correct |-> [r \in Root |-> {}]]
  /\ readySenders = [i \in Correct |-> {}]
  /\ readySent    = [i \in Correct |-> FALSE]
  /\ output       = [i \in Correct |-> None]

-----------------------------------------------------------------------------

\* The branch and stripe of m are those of the given leaf of its root.
UncheckedBranch(m, index) == TRUE  \* mutant of merkleVerify
merkleVerify(m, index) == m.leaf = index

\* The receive loop runs until the call returns or raises; the leader reaches
\* it only after input() has given it a value.
Receiving(i) == output[i] = None /\ (i = leader => input # None)

\* What decode_output makes of the stripes held for root r: re-encoding them
\* gives r back when r commits to an encoding and the stripes are its own.
decode_output(r, held) ==
  [root |-> r,
   ok   |-> r \in Codeword /\ \A j \in Node : held[j] \in {None, j}]

\* Mutant of BroadcastReady: the root is left out of the message.
BroadcastBareReady(i, r, due) ==
  IF due /\ ~ readySent[i]
  THEN /\ readySent' = [readySent EXCEPT ![i] = TRUE]
       /\ msgs' = msgs \cup {[tag |-> "READY", src |-> i]}
  ELSE UNCHANGED <<readySent, msgs>>

\* broadcast(('READY', roothash)) behind "and not readySent".
BroadcastReady(i, r, due) ==
  IF due /\ ~ readySent[i]
  THEN /\ readySent' = [readySent EXCEPT ![i] = TRUE]
       /\ msgs' = msgs \cup {[tag |-> "READY", src |-> i, root |-> r]}
  ELSE UNCHANGED <<readySent, msgs>>

\* Mutant of ReturnIfComplete: enough stripes are taken for enough READYs.
ReturnIfDecodable(i, r, senders, count, held) ==
  IF count >= K
  THEN output' = [output EXCEPT ![i] = decode_output(r, held)]
  ELSE UNCHANGED output

\* The test that ends both the ECHO and the READY branch.
ReturnIfComplete(i, r, senders, count, held) ==
  IF Cardinality(senders) >= OutputThreshold /\ count >= K
  THEN output' = [output EXCEPT ![i] = decode_output(r, held)]
  ELSE UNCHANGED output

-----------------------------------------------------------------------------

\* A correct leader is given a value and sends every node its stripe.
LeaderInput(r) ==
  /\ leader \in Correct
  /\ input = None
  /\ input' = r
  /\ msgs' = msgs \cup
       {[tag |-> "VAL", src |-> leader, dst |-> i, root |-> r, leaf |-> i] : i \in Node}
  /\ UNCHANGED <<fromLeader, stripes, echoSenders, echoCounter,
                 ready, readySenders, readySent, output>>

\* The first VAL of the leader that verifies is echoed to everyone.
RecvVal(i, m) ==
  /\ m.tag = "VAL" /\ m.dst = i
  /\ Receiving(i)
  /\ fromLeader[i] = None
  /\ m.src = leader
  /\ merkleVerify(m, i)
  /\ fromLeader' = [fromLeader EXCEPT ![i] = m.root]
  /\ msgs' = msgs \cup {[tag |-> "ECHO", src |-> i, root |-> m.root, leaf |-> m.leaf]}
  /\ UNCHANGED <<input, stripes, echoSenders, echoCounter,
                 ready, readySenders, readySent, output>>

RecvEcho(i, m) ==
  /\ m.tag = "ECHO"
  /\ Receiving(i)
  /\ stripes[i][m.root][m.src] = None
  /\ m.src \notin echoSenders[i]
  /\ merkleVerify(m, m.src)
  /\ stripes'     = [stripes EXCEPT ![i][m.root][m.src] = m.leaf]
  /\ echoSenders' = [echoSenders EXCEPT ![i] = @ \cup {m.src}]
  /\ echoCounter' = [echoCounter EXCEPT ![i][m.root] = @ + 1]
  /\ BroadcastReady(i, m.root, echoCounter'[i][m.root] >= EchoThreshold)
  /\ ReturnIfComplete(i, m.root, ready[i][m.root], echoCounter'[i][m.root],
                      stripes'[i][m.root])
  /\ UNCHANGED <<input, fromLeader, ready, readySenders>>

RecvReady(i, m) ==
  /\ m.tag = "READY"
  /\ Receiving(i)
  /\ m.src \notin ready[i][m.root]
  /\ m.src \notin readySenders[i]
  /\ ready'        = [ready EXCEPT ![i][m.root] = @ \cup {m.src}]
  /\ readySenders' = [readySenders EXCEPT ![i] = @ \cup {m.src}]
  /\ BroadcastReady(i, m.root, Cardinality(ready'[i][m.root]) >= ReadyThreshold)
  /\ ReturnIfComplete(i, m.root, ready'[i][m.root], echoCounter[i][m.root],
                      stripes[i][m.root])
  /\ UNCHANGED <<input, fromLeader, stripes, echoSenders, echoCounter>>

Next ==
  \/ \E r \in Codeword : LeaderInput(r)
  \/ \E i \in Correct, m \in msgs : RecvVal(i, m)
  \/ \E i \in Correct, m \in msgs : RecvEcho(i, m)
  \/ \E i \in Correct, m \in msgs : RecvReady(i, m)

Spec == Init /\ [][Next]_vars

\* Every message a correct node has sent is delivered: receive() hands out
\* whatever is queued, and a message is handled at most once, so a node that
\* keeps taking messages gets to each. Nothing a faulty node may send has to
\* arrive, and the leader need never be given an input. That the node keeps taking
\* messages is assumed: an ECHO or READY whose payload is not of the right type
\* raises an error that nothing catches (lines 250-261), and is not modelled.
Delivery ==
  \A i \in Correct :
    WF_vars(\E m \in {x \in msgs : x.src \in Correct} :
              RecvVal(i, m) \/ RecvEcho(i, m) \/ RecvReady(i, m))

FairSpec == Spec /\ Delivery

-----------------------------------------------------------------------------

\* The nodes whose call has ended.
Returned == {i \in Correct : output[i] # None}

\* The state has the types of the code: every message that is sent is well
\* formed, and what is stored came out of one.
TypeOK ==
  /\ msgs \subseteq Message
  /\ input        \in Codeword \cup {None}
  /\ fromLeader   \in [Correct -> Root \cup {None}]
  /\ stripes      \in [Correct -> [Root -> [Node -> Node \cup {None}]]]
  /\ echoSenders  \in [Correct -> SUBSET Node]
  /\ echoCounter  \in [Correct -> [Root -> Nat]]
  /\ ready        \in [Correct -> [Root -> SUBSET Node]]
  /\ readySenders \in [Correct -> SUBSET Node]
  /\ readySent    \in [Correct -> BOOLEAN]
  /\ output       \in [Correct -> Result \cup {None}]

\* No two correct nodes return differently: not two values, and not a value
\* at one node and the failed assertion of line 229 at the other, whatever
\* the leader and the other faulty nodes send.
Agreement == \A i, j \in Returned : output[i] = output[j]

\* With a correct leader, what a node returns is the value the leader was
\* given: no node returns another value, and none fails to decode it.
Validity ==
  leader \in Correct =>
    \A i \in Returned : output[i] = [root |-> input, ok |-> TRUE]

\* The nodes amplify and count READYs of a single root: two correct nodes
\* never vouch for different roots, although each decides on its own echoes.
ReadyForOneRoot ==
  \A m1, m2 \in {m \in msgs : m.tag = "READY" /\ m.src \in Correct} :
    m1.root = m2.root

\* A node returns only what the other nodes can return too: N-2f correct
\* nodes have echoed the root, so that nobody is left short of stripes, and
\* f+1 of them have vouched for it, enough to make every node do so.
ReturnIsRecoverable ==
  \A i \in Returned : LET r == output[i].root IN
    /\ Cardinality({j \in Correct : fromLeader[j] = r}) >= K
    /\ Cardinality({j \in Correct :
         [tag |-> "READY", src |-> j, root |-> r] \in msgs}) >= ReadyThreshold

\* Totality: when one correct node has returned, all of them eventually do,
\* although those that have returned no longer take part.
Totality == (Returned # {}) ~> (Returned = Correct)

\* The value of a correct leader is eventually returned by every correct node.
Termination == (input # None) ~> (Returned = Correct)

\* What the callers are promised: the first READY of a correct node fixes the
\* root that Broadcast chooses.
Vouched == {r \in Root : \E j \in Correct :
              [tag |-> "READY", src |-> j, root |-> r] \in msgs}
chosen  == IF Vouched = {} THEN None ELSE CHOOSE r \in Vouched : TRUE

B == INSTANCE Broadcast WITH chosen <- chosen

\* Every step of the message protocol is a step of Broadcast or none of its
\* business: the value is fixed once and before anyone returns, and is the
\* leader's when the leader is correct.
ImplementsBroadcast == B!Spec

\* The same with the promise of delivery.
ImplementsFairBroadcast == B!FairSpec
=============================================================================
