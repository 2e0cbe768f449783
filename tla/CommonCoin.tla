----------------------------- MODULE CommonCoin -----------------------------
(***************************************************************************)
(* honeybadgerbft/core/commoncoin.py on top of Transport. Every round of a *)
(* node has one coin instance here, and the node asks it for the coins of  *)
(* its epochs one after the other, as binaryagreement.py does.             *)
(*                                                                         *)
(* A share is good or bad. f+1 good shares of different nodes combine to   *)
(* the one signature of the coin, from which its bit is taken; anything    *)
(* else combines to something that is not its signature.                   *)
(***************************************************************************)
EXTENDS Transport, FiniteSets, TLC

CONSTANTS
  f,           \* the fault tolerance; the keys are for f+1 shares
  MaxRound,    \* bound: rounds are numbered from 0 to MaxRound
  MaxEpoch,    \* bound: epochs from 0 to MaxEpoch
  FaultySends, \* what faulty nodes may send: pairs of a destination and a message
  MaxInjected  \* bound: how many messages the faulty nodes send

ASSUME CoinAssumption  == f \in Nat /\ Cardinality(Faulty) <= f /\ f + 1 <= N - f
ASSUME BoundAssumption == MaxRound \in Nat /\ MaxEpoch \in Nat /\ MaxInjected \in Nat

Coin  == (0 .. MaxRound) \X (0 .. MaxEpoch)
\* The sender is what the message says: any number.
Share == [src : Nat, round : 0 .. MaxRound, epoch : 0 .. MaxEpoch, good : BOOLEAN]

\* The faulty nodes that are not down name themselves, or no node.
ASSUME FaultyAssumption ==
  /\ Malformed \cap Share = {}
  /\ \A p \in FaultySends : p[1] \in Correct /\ p[2] \in Malformed \cup Share
  /\ \A p \in FaultySends : p[2] \in Share => p[2].src \notin Correct \cup Down

VARIABLES
  round,        \* per node: self.round
  asked,        \* per node: the coins getCoin has been called for
  ended,        \* per node: the rounds whose coin receives nothing any more
  received,     \* per node and coin: the shares that count
  outputQueue,  \* per node and coin: what has been put into its queue
  got,          \* per node: the coins getCoin has returned
  injected      \* how many messages faulty nodes have sent

coinVars == <<round, asked, ended, received, outputQueue, got, injected>>
vars     == <<transportVars, coinVars>>

Init ==
  /\ TransportInit
  /\ round       = [i \in Correct |-> 0]
  /\ asked       = [i \in Correct |-> {}]
  /\ ended       = [i \in Correct |-> {}]
  /\ received    = [i \in Correct |-> [c \in Coin |-> {}]]
  /\ outputQueue = [i \in Correct |-> [c \in Coin |-> <<>>]]
  /\ got         = [i \in Correct |-> {}]
  /\ injected    = 0

-----------------------------------------------------------------------------

\* getCoin up to where it blocks. An agreement asks for one epoch after the other,
\* also when the node has begun a later round.
GetCoin(i, c) ==
  /\ c[1] <= round[i]
  /\ c \notin asked[i]
  /\ c[2] > 0 => <<c[1], c[2] - 1>> \in got[i]
  /\ asked' = [asked EXCEPT ![i] = @ \cup {c}]
  /\ Broadcast(i, [src |-> i, round |-> c[1], epoch |-> c[2], good |-> TRUE])
  /\ UNCHANGED <<sender, receiver_queue, receiver, per_round,
                 round, ended, received, outputQueue, got, injected>>

\* getCoin returns: it takes the coin out of the queue, where it stays in this
\* module.
ReturnCoin(i, c) ==
  /\ c \in asked[i] \ got[i]
  /\ outputQueue[i][c] # <<>>
  /\ got' = [got EXCEPT ![i] = @ \cup {c}]
  /\ UNCHANGED <<transportVars, round, asked, ended, received, outputQueue, injected>>

\* The test of verify_share, and one that trusts the sender.
Trusting(share) == TRUE
verify_share(share) == share.good

\* The signature of coin c, or not: combine_shares and verify_signature.
Combined(shares) == IF \A s \in shares : s.good THEN "coin" ELSE "no coin"

\* Mutants of Threshold: a share too few, and every share; and one of Reached.
Tolerated == f
Everyone  == N
Above(shares) == Cardinality(shares) >= f + 1

\* Line 71: the coin is put when the number of shares reaches f+1, not later.
Threshold == f + 1
Reached(shares) == Cardinality(shares) = Threshold

\* A share of node share.src is verified and counted. Each node counts with one good
\* share.
Count(i, c, share) ==
  LET counts == verify_share(share) /\ \A s \in received[i][c] : s.src # share.src
      shares == received[i][c] \cup {share}
  IN /\ received' = IF counts THEN [received EXCEPT ![i][c] = shares] ELSE received
     /\ outputQueue' =
          IF counts /\ Reached(shares)
          THEN [outputQueue EXCEPT ![i][c] = Append(@, Combined(shares))]
          ELSE outputQueue

\* _recv of shared_coin for the head of the queue that broadcast_receiver_loop
\* passes on. The assertion of line 47 ends this greenlet when the sender is no node.
\* (An unknown tag or instance ends that loop; here this is the same.)
Receive(i, r) ==
  /\ r <= round[i]
  /\ r \in DOMAIN per_round[i]
  /\ r \notin ended[i]
  /\ per_round[i][r] # <<>>
  /\ per_round' = [per_round EXCEPT ![i][r] = Tail(@)]
  /\ LET share == Head(per_round[i][r])
     IN \/ /\ share.src \in Node
           /\ Count(i, <<r, share.epoch>>, share)
           /\ UNCHANGED ended
        \/ /\ share.src \notin Node
           /\ ended' = [ended EXCEPT ![i] = @ \cup {r}]
           /\ UNCHANGED <<received, outputQueue>>
  /\ UNCHANGED <<sender_queue, sender, receiver_queue, receiver, round, asked, got, injected>>

\* A node that closes the rounds it has left, as lines 216-218 have it.
CloseRound(i) ==
  per_round' = [per_round EXCEPT ![i] =
    [r \in (DOMAIN @ \cup {round[i] + 1}) \ {round[i]} |-> IF r \in DOMAIN @ THEN @[r] ELSE <<>>]]

\* What becomes of the queues when the next round begins: those of old rounds stay.
OpenRound(i) == per_round' = [per_round EXCEPT ![i] = WithQueue(@, round[i] + 1)]

\* self.round is incremented and the next round begins. All agreements have ended
\* by then, with a first coin at least; some of their greenlets may still go on.
NextRound(i) ==
  /\ round[i] < MaxRound
  /\ <<round[i], 0>> \in got[i]
  /\ round' = [round EXCEPT ![i] = @ + 1]
  /\ OpenRound(i)
  /\ UNCHANGED <<sender_queue, sender, receiver_queue, receiver,
                 asked, ended, received, outputQueue, got, injected>>

\* A faulty node that can send sends shares of coins, good or bad, twice or never, and
\* what is no share at all.
FaultyShare(j, msg) ==
  /\ injected < MaxInjected
  /\ injected' = injected + 1
  /\ Inject(j, msg)
  /\ UNCHANGED <<round, asked, ended, received, outputQueue, got>>

Sending(i)   == SendNext(i) /\ UNCHANGED coinVars
Receiving(i) == Recv(i) /\ UNCHANGED coinVars

Next ==
  \/ \E i \in Correct : Sending(i) \/ Receiving(i) \/ NextRound(i)
  \/ \E i \in Correct, c \in Coin : GetCoin(i, c) \/ ReturnCoin(i, c)
  \/ \E i \in Correct, r \in 0 .. MaxRound : Receive(i, r)
  \/ \E p \in FaultySends : FaultyShare(p[1], p[2])

Spec == Init /\ [][Next]_vars

\* The thread and the greenlets of a correct node take turns and go on, those that no
\* error has ended.
NodeStep(i) ==
  \/ Receiving(i) \/ NextRound(i)
  \/ \E c \in Coin : GetCoin(i, c) \/ ReturnCoin(i, c)
  \/ \E r \in 0 .. MaxRound : Receive(i, r)

FairSpec == Spec /\ \A i \in Correct : WF_vars(Sending(i)) /\ WF_vars(NodeStep(i))

-----------------------------------------------------------------------------
(* Properties.                                                             *)

\* The state has the types of the code; shares that count are good and from
\* different nodes.
TypeOK ==
  /\ \A i \in Correct : \A k \in DOMAIN sender_queue[i] :
       sender_queue[i][k] \in Node \X Share
  /\ sender \in [Correct -> {"running", "raised"}]
  /\ receiver \in [Correct -> {"running", "raised"}]
  /\ \A i \in Correct : ToSet(receiver_queue[i]) \subseteq Share \cup Malformed
  /\ \A i \in Correct, r \in 0 .. MaxRound :
       r \in DOMAIN per_round[i] => ToSet(per_round[i][r]) \subseteq Share
  /\ round \in [Correct -> 0 .. MaxRound]
  /\ ended \in [Correct -> SUBSET (0 .. MaxRound)]
  /\ got \in [Correct -> SUBSET Coin] /\ \A i \in Correct : got[i] \subseteq asked[i]
  /\ \A i \in Correct, c \in Coin : \A s, t \in received[i][c] :
       s \in Share /\ s.src \in Node /\ s.good /\ (s.src = t.src => s = t)

\* The assertion of honeybadger.py, line 208: a message that opens a queue is not
\* of a round this node has left. Nodes that are ahead or behind still meet.
NeverTooLate ==
  \A j \in Correct : receiver_queue[j] # <<>> /\ Head(receiver_queue[j]) \notin Malformed =>
    LET r == Head(receiver_queue[j]).round IN r \in DOMAIN per_round[j] \/ r >= round[j]

\* Assertion of line 76 and the room for one bit in outputQueue: what is put is the
\* coin of f+1 good shares, the same at every node, and it is put once.
CoinIsCommon ==
  \A i \in Correct, c \in Coin : outputQueue[i][c] \in {<<>>, <<"coin">>}

\* Nobody, the faulty nodes included, knows a coin that no correct node has asked
\* for: the shares of the faulty nodes are too few.
CoinIsHidden ==
  \A i \in Correct, c \in Coin :
    outputQueue[i][c] # <<>> => \E j \in Correct : c \in asked[j]

\* How many of the messages are among the ones of S.
Copies(messages, S) == Cardinality({k \in DOMAIN messages : messages[k] \in S})

\* The share of node i for coin c, good or bad.
ShareOf(i, c) == [src : {i}, round : {c[1]}, epoch : {c[2]}, good : BOOLEAN]

\* What waits at node j in the queue for the round of coin c.
Waiting(j, c) == IF c[1] \in DOMAIN per_round[j] THEN per_round[j][c[1]] ELSE <<>>

\* Nothing a correct node broadcasts is lost or doubled on the way, whatever rounds
\* sender and receiver are in: each share is in one of the queues, or it counts.
\* binaryagreement.py relies on it, where a repeated message ends a greenlet.
OnceEach ==
  \A i, j \in Correct, c \in Coin :
    Copies(sender_queue[i], {j} \X ShareOf(i, c))
      + Copies(receiver_queue[j], ShareOf(i, c))
      + Copies(Waiting(j, c), ShareOf(i, c))
      + Cardinality({s \in received[j][c] : s.src = i})
    = IF c \in asked[i] THEN 1 ELSE 0

Shared == INSTANCE SharedCoin WITH Value <- [c \in Coin |-> "coin"], output <- outputQueue

\* The shares and their queues implement SharedCoin: no one has a coin before f+1
\* nodes have asked for it, and everyone who gets it gets the same, once.
ImplementsSharedCoin == Shared!Spec

\* An error that nothing catches has ended a greenlet of node j without which coins
\* of rounds up to r may not come.
Deaf(j, r) == receiver[j] = "raised" \/ \E q \in 0 .. r : q \in ended[j]

\* Every coin a correct node asks for comes, whatever shares the faulty nodes send in
\* their own names, in whatever order: unless a faulty node has sent a message that
\* is malformed or names no node as its sender. One such message to one correct node
\* is enough, although README line 33 has f as the number of failure nodes tolerated.
CoinComes ==
  \A i \in Correct, c \in Coin :
    c \in asked[i] ~> (c \in got[i] \/ \E j \in Correct : Deaf(j, c[1]))
=============================================================================
