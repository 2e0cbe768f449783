-------------------------- MODULE CommonCoinProofs --------------------------
(***************************************************************************)
(* Proofs about CommonCoin for any number of nodes, any f and any shares   *)
(* that at most f faulty nodes send: the coin is the same at every node,   *)
(* nobody knows it before a correct node has asked for it, no share is     *)
(* lost or doubled, and callers see no more of it than SharedCoin.         *)
(***************************************************************************)
EXTENDS CommonCoin, FiniteSetTheorems, SequenceTheorems, TLAPS

-----------------------------------------------------------------------------
(* The inductive invariant.                                                *)

\* A share in the name of a correct node is good and stands for its getCoin.
Backed == {s \in Share :
  s.src \in Correct => s.good /\ <<s.round, s.epoch>> \in asked[s.src]}

\* What arrives is such a share, in the name of a faulty node or of none, or malformed.
Incoming == Backed \cup Malformed

InRound(r) == {s \in Backed : s.round = r}
Counting(c) == {s \in Backed : s.src \in Node /\ s.good /\ s.round = c[1] /\ s.epoch = c[2]}

\* The queues per round of a node: there is one for every round it has begun.
Queues(q) ==
  /\ q = [r \in DOMAIN q |-> q[r]]
  /\ DOMAIN q \subseteq 0 .. MaxRound
  /\ \A r \in DOMAIN q : q[r] \in Seq(InRound(r))

Begun ==
  /\ round \in [Correct -> 0 .. MaxRound]
  /\ per_round = [j \in Correct |-> per_round[j]]
  /\ \A j \in Correct : 0 .. round[j] \subseteq DOMAIN per_round[j]

OnTheWay ==
  /\ sender_queue \in [Correct -> Seq(Node \X Backed)]
  /\ sender \in [Correct -> {"running", "raised"}]
  /\ receiver_queue \in [Correct -> Seq(Incoming)]
  /\ \A j \in Correct : Queues(per_round[j])

Coins ==
  /\ asked \in [Correct -> SUBSET Coin]
  /\ got \in [Correct -> SUBSET Coin]
  /\ \A i \in Correct : got[i] \subseteq asked[i]

\* What has been put for a coin, given the shares that count.
Put(shares) == IF Cardinality(shares) <= f THEN <<>> ELSE <<"coin">>

Counted ==
  /\ received    = [i \in Correct |-> [c \in Coin |-> received[i][c]]]
  /\ outputQueue = [i \in Correct |-> [c \in Coin |-> outputQueue[i][c]]]
  /\ \A i \in Correct, c \in Coin :
       /\ received[i][c] \subseteq Counting(c)
       /\ IsFiniteSet(received[i][c])
       /\ \A s, t \in received[i][c] : s.src = t.src => s = t
       /\ outputQueue[i][c] = Put(received[i][c])

IndInv == Begun /\ OnTheWay /\ Coins /\ Counted

\* The greenlets that errors have ended, at a node and in its rounds.
Ends ==
  /\ receiver \in [Correct -> {"running", "raised"}]
  /\ ended \in [Correct -> SUBSET (0 .. MaxRound)]

-----------------------------------------------------------------------------
(* Facts about sequences and sets.                                         *)

\* A sequence of some values is one of more values.
LEMMA SeqOfMore ==
  ASSUME NEW A, NEW B, A \subseteq B
  PROVE  Seq(A) \subseteq Seq(B)
OBVIOUS

\* A function on 1 .. n is a sequence.
LEMMA TableIsSeq ==
  ASSUME NEW A, NEW n \in Nat, NEW g \in [1 .. n -> A]
  PROVE  g \in Seq(A)
OBVIOUS

\* What is in a sequence of some values is one of them.
LEMMA Members ==
  ASSUME NEW A, NEW q \in Seq(A), NEW k \in DOMAIN q
  PROVE  q[k] \in A
OBVIOUS

\* The head and the rest of a queue.
LEMMA TakeOne ==
  ASSUME NEW A, NEW q \in Seq(A), q # <<>>
  PROVE  Head(q) \in A /\ Tail(q) \in Seq(A)
OBVIOUS

\* The faulty nodes are finitely many.
LEMMA FaultyFinite == IsFiniteSet(Faulty)
<1>1. IsFiniteSet(0 .. N - 1)
  BY NodeAssumption, FS_Interval
<1> QED
  BY <1>1, NodeAssumption, FS_Subset DEF Node

\* More than f shares of different nodes include one of a correct node.
LEMMA CorrectAmong ==
  ASSUME NEW S, \A s \in S : s.src \in Node, IsFiniteSet(S), Cardinality(S) > f,
         \A s, t \in S : s.src = t.src => s = t
  PROVE  \E s \in S : s.src \in Correct
<1> SUFFICES ASSUME \A s \in S : s.src \in Faulty PROVE FALSE
  BY DEF Correct
<1> DEFINE g == [s \in S |-> s.src]
<1>1. g \in Injection(S, Faulty)
  BY DEF Injection, IsInjective
<1>2. Cardinality(S) <= Cardinality(Faulty)
  BY <1>1, FaultyFinite, FS_Injection
<1>3. Cardinality(S) \in Nat /\ Cardinality(Faulty) \in Nat
  BY FaultyFinite, FS_CardinalityType
<1> QED
  BY <1>2, <1>3, CoinAssumption

-----------------------------------------------------------------------------
(* Steps that leave the coins asked for as they are.                       *)

\* The sets of shares that may be on the way depend on nothing but asked.
LEMMA SameShares ==
  ASSUME UNCHANGED asked
  PROVE  /\ Backed' = Backed /\ Incoming' = Incoming
         /\ \A r : InRound(r)' = InRound(r)
         /\ \A c : Counting(c)' = Counting(c)
         /\ \A q : Queues(q)' = Queues(q)
<1>1. Backed' = Backed
  BY DEF Backed
<1>2. \A r : InRound(r)' = InRound(r)
  BY <1>1 DEF InRound
<1>3. \A c : Counting(c)' = Counting(c)
  BY <1>1 DEF Counting
<1> QED
  BY <1>1, <1>2, <1>3 DEF Queues, Incoming

\* Parts of the invariant that a step does not touch.
LEMMA BegunStays ==
  ASSUME Begun, UNCHANGED <<round, per_round>>
  PROVE  Begun'
BY DEF Begun

\* A step that neither asks for coins nor returns one keeps them.
LEMMA CoinsStay ==
  ASSUME Coins, UNCHANGED <<asked, got>>
  PROVE  Coins'
BY DEF Coins

\* One that counts no share keeps the shares that count.
LEMMA CountedStays ==
  ASSUME Counted, UNCHANGED <<asked, received, outputQueue>>
  PROVE  Counted'
BY SameShares DEF Counted, Put

\* The queues that a step leaves alone while the same coins are asked for.
LEMMA QueuesStay ==
  ASSUME OnTheWay, UNCHANGED <<asked, per_round>>
  PROVE  (\A j \in Correct : Queues(per_round[j]))'
BY SameShares DEF OnTheWay, Queues

\* A message arrives at a server.
LEMMA Arrives ==
  ASSUME OnTheWay, NEW j, NEW msg \in Incoming, Arrive(j, msg), UNCHANGED asked
  PROVE  (receiver_queue \in [Correct -> Seq(Incoming)])'
<1>1. Incoming' = Incoming
  BY SameShares
<1>2. CASE j \in Correct
  <2>1. receiver_queue[j] \in Seq(Incoming)
    BY <1>2 DEF OnTheWay
  <2>2. Append(receiver_queue[j], msg) \in Seq(Incoming)
    BY <2>1, AppendProperties
  <2>3. receiver_queue' = [receiver_queue EXCEPT ![j] = Append(@, msg)]
    BY <1>2 DEF Arrive
  <2> QED
    BY <1>1, <2>2, <2>3 DEF OnTheWay
<1>3. CASE j \notin Correct
  BY <1>1, <1>3 DEF Arrive, OnTheWay
<1> QED
  BY <1>2, <1>3

\* The sender thread moves one message, or ends.
LEMMA SendingStep ==
  ASSUME IndInv, NEW i \in Correct, Sending(i)
  PROVE  IndInv'
<1> USE DEF Sending, SendNext, coinVars
<1>1. Begun' /\ Coins' /\ Counted'
  BY BegunStays, CoinsStay, CountedStays DEF IndInv
<1>2. Backed' = Backed /\ Incoming' = Incoming
  BY SameShares
<1> DEFINE p == Head(sender_queue[i])
<1>3. /\ sender_queue[i] \in Seq(Node \X Backed)
      /\ sender_queue' = [sender_queue EXCEPT ![i] = Tail(@)]
  BY DEF IndInv, OnTheWay
<1>4. p \in Node \X Backed /\ Tail(sender_queue[i]) \in Seq(Node \X Backed)
  BY <1>3, TakeOne
<1>5. (sender_queue \in [Correct -> Seq(Node \X Backed)])'
  BY <1>2, <1>3, <1>4 DEF IndInv, OnTheWay
<1>6. (sender \in [Correct -> {"running", "raised"}])'
  BY DEF IndInv, OnTheWay
<1>7. (receiver_queue \in [Correct -> Seq(Incoming)])'
  <2>1. CASE p[1] \in Down
    BY <1>2, <2>1 DEF IndInv, OnTheWay
  <2>2. CASE p[1] \notin Down
    <3>1. p[2] \in Incoming
      BY <1>4 DEF Incoming
    <3>2. Arrive(p[1], p[2])
      BY <2>2
    <3> QED
      BY <3>1, <3>2, Arrives DEF IndInv
  <2> QED
    BY <2>1, <2>2
<1>8. (\A j \in Correct : Queues(per_round[j]))'
  BY QueuesStay DEF IndInv
<1> QED
  BY <1>1, <1>5, <1>6, <1>7, <1>8 DEF IndInv, OnTheWay

\* What a faulty node sends is not in the name of a correct one.
LEMMA FaultyShareStep ==
  ASSUME IndInv, NEW p \in FaultySends, FaultyShare(p[1], p[2])
  PROVE  IndInv'
<1> USE DEF FaultyShare, Inject
<1>1. Begun' /\ Coins' /\ Counted'
  BY BegunStays, CoinsStay, CountedStays DEF IndInv
<1>2. p[2] \in Incoming
  BY FaultyAssumption DEF Incoming, Backed
<1>3. (receiver_queue \in [Correct -> Seq(Incoming)])'
  BY <1>2, Arrives DEF IndInv
<1>4. (\A j \in Correct : Queues(per_round[j]))'
  BY QueuesStay DEF IndInv
<1>5. Backed' = Backed
  BY SameShares
<1>6. UNCHANGED <<sender_queue, sender>>
  OBVIOUS
<1>7. (sender_queue \in [Correct -> Seq(Node \X Backed)])'
  BY <1>5, <1>6 DEF IndInv, OnTheWay
<1>8. (sender \in [Correct -> {"running", "raised"}])'
  BY <1>6 DEF IndInv, OnTheWay
<1> QED
  BY <1>1, <1>3, <1>4, <1>7, <1>8 DEF IndInv, OnTheWay

\* A coin is returned after it has been asked for.
LEMMA ReturnCoinStep ==
  ASSUME IndInv, NEW i \in Correct, NEW c \in Coin, ReturnCoin(i, c)
  PROVE  IndInv'
<1> USE DEF ReturnCoin, transportVars
<1>1. Begun' /\ Counted'
  BY BegunStays, CountedStays DEF IndInv
<1>2. Coins'
  BY DEF IndInv, Coins
<1>3. (\A j \in Correct : Queues(per_round[j]))'
  BY QueuesStay DEF IndInv
<1>4. /\ Backed' = Backed /\ Incoming' = Incoming
      /\ UNCHANGED <<sender_queue, sender, receiver_queue>>
  BY SameShares
<1>5. OnTheWay'
  BY <1>3, <1>4 DEF IndInv, OnTheWay
<1> QED
  BY <1>1, <1>2, <1>5 DEF IndInv

\* An empty queue for a round, if there is none.
LEMMA WithQueueKeeps ==
  ASSUME NEW q, Queues(q), NEW r \in 0 .. MaxRound
  PROVE  /\ Queues(WithQueue(q, r))
         /\ DOMAIN WithQueue(q, r) = DOMAIN q \cup {r}
<1>1. <<>> \in Seq(InRound(r))
  OBVIOUS
<1> QED
  BY <1>1 DEF WithQueue, Queues

\* A new round has a queue, and the queues of old ones stay.
LEMMA NextRoundStep ==
  ASSUME IndInv, NEW i \in Correct, NextRound(i)
  PROVE  IndInv'
<1> USE DEF NextRound, OpenRound
<1>1. Coins' /\ Counted'
  BY CoinsStay, CountedStays DEF IndInv
<1>2. /\ round[i] \in 0 .. MaxRound /\ MaxRound \in Nat
      /\ round[i] + 1 \in 0 .. MaxRound
  BY BoundAssumption DEF IndInv, Begun
<1> DEFINE q == WithQueue(per_round[i], round[i] + 1)
<1>3. Queues(q) /\ DOMAIN q = DOMAIN per_round[i] \cup {round[i] + 1}
  BY <1>2, WithQueueKeeps DEF IndInv, OnTheWay
<1>4. per_round' = [per_round EXCEPT ![i] = q]
  OBVIOUS
<1> HIDE DEF q
<1>5. Begun'
  BY <1>2, <1>3, <1>4 DEF IndInv, Begun
<1>6. (\A j \in Correct : Queues(per_round[j]))'
  <2>1. \A j \in Correct : Queues(per_round'[j])
    BY <1>3, <1>4 DEF IndInv, Begun, OnTheWay
  <2>2. \A r : InRound(r)' = InRound(r)
    BY SameShares
  <2> QED
    BY <2>1, <2>2 DEF Queues
<1>7. /\ Backed' = Backed /\ Incoming' = Incoming
      /\ UNCHANGED <<sender_queue, sender, receiver_queue>>
  BY SameShares
<1>8. OnTheWay'
  BY <1>6, <1>7 DEF IndInv, OnTheWay
<1> QED
  BY <1>1, <1>5, <1>8 DEF IndInv

\* A message waits in the queue of its round.
LEMMA BufferedKeeps ==
  ASSUME NEW q, Queues(q), NEW msg \in Backed
  PROVE  Queues(Buffered(q, msg)) /\ DOMAIN q \subseteq DOMAIN Buffered(q, msg)
<1> DEFINE r == msg.round
           w == WithQueue(q, r)
<1>1. r \in 0 .. MaxRound /\ msg \in InRound(r)
  BY DEF Backed, Share, InRound
<1>2. Queues(w) /\ DOMAIN w = DOMAIN q \cup {r}
  BY <1>1, WithQueueKeeps
<1>3. Buffered(q, msg) = [w EXCEPT ![r] = Append(@, msg)]
  BY DEF Buffered
<1> HIDE DEF r, w
<1>4. Append(w[r], msg) \in Seq(InRound(r))
  <2>1. w[r] \in Seq(InRound(r))
    BY <1>2 DEF Queues
  <2> QED
    BY <1>1, <2>1, AppendProperties
<1> QED
  BY <1>2, <1>3, <1>4 DEF Queues

\* A message gets into the queue of its round.
LEMMA ReceivingStep ==
  ASSUME IndInv, NEW i \in Correct, Receiving(i)
  PROVE  IndInv'
<1> USE DEF Receiving, Recv, coinVars
<1>1. Coins' /\ Counted'
  BY CoinsStay, CountedStays DEF IndInv
<1>2. Backed' = Backed /\ Incoming' = Incoming /\ \A r : InRound(r)' = InRound(r)
  BY SameShares
<1> DEFINE msg == Head(receiver_queue[i])
           q   == Buffered(per_round[i], msg)
<1>3. receiver_queue[i] \in Seq(Incoming)
  BY DEF IndInv, OnTheWay
<1>4. msg \in Incoming /\ Tail(receiver_queue[i]) \in Seq(Incoming)
  BY <1>3, TakeOne
<1>5. (receiver_queue \in [Correct -> Seq(Incoming)])'
  BY <1>2, <1>4 DEF IndInv, OnTheWay
<1>6. UNCHANGED <<sender_queue, sender>>
  OBVIOUS
<1>7. (sender_queue \in [Correct -> Seq(Node \X Backed)] /\ sender \in [Correct -> {"running", "raised"}])'
  BY <1>2, <1>6 DEF IndInv, OnTheWay
<1>8. Begun' /\ (\A j \in Correct : Queues(per_round[j]))'
  <2>1. CASE UNCHANGED per_round
    BY <2>1, BegunStays, QueuesStay DEF IndInv
  <2>2. CASE msg \notin Malformed /\ per_round' = [per_round EXCEPT ![i] = q]
    <3>1. Queues(q) /\ DOMAIN per_round[i] \subseteq DOMAIN q
      BY <1>4, <2>2, BufferedKeeps DEF IndInv, OnTheWay, Incoming
    <3> HIDE DEF q
    <3>2. Begun'
      BY <2>2, <3>1 DEF IndInv, Begun
    <3>3. \A j \in Correct : Queues(per_round'[j])
      BY <2>2, <3>1 DEF IndInv, Begun, OnTheWay
    <3> QED
      BY <1>2, <3>2, <3>3 DEF Queues
  <2> QED
    BY <2>1, <2>2
<1> QED
  BY <1>1, <1>5, <1>7, <1>8 DEF IndInv, OnTheWay

\* A node that asks for one more coin makes more shares possible.
LEMMA GetCoinStep ==
  ASSUME IndInv, NEW i \in Correct, NEW c \in Coin, GetCoin(i, c)
  PROVE  IndInv'
<1> USE DEF GetCoin, Broadcast
<1> DEFINE msg   == [src |-> i, round |-> c[1], epoch |-> c[2], good |-> TRUE]
           batch == [k \in 1 .. N |-> <<k - 1, msg>>]
<1>1. asked' = [asked EXCEPT ![i] = @ \cup {c}]
  OBVIOUS
<1>2. asked \in [Correct -> SUBSET Coin] /\ \A j \in Correct : asked[j] \subseteq asked'[j]
  BY <1>1 DEF IndInv, Coins
<1>3. Backed \subseteq Backed'
  BY <1>2 DEF Backed
<1>4. msg \in Backed'
  <2>1. c \in asked'[i] /\ c = <<c[1], c[2]>> /\ c[1] \in 0 .. MaxRound /\ c[2] \in 0 .. MaxEpoch
    BY <1>1, <1>2 DEF Coin
  <2>2. msg \in Share
    BY <2>1, NodeAssumption DEF Share, Correct, Node
  <2> QED
    BY <2>1, <2>2 DEF Backed
<1>5. Begun'
  BY BegunStays DEF IndInv
<1>6. Coins'
  BY DEF IndInv, Coins
<1>7. Counted'
  <2>1. \A d \in Coin : Counting(d) \subseteq Counting(d)'
    BY <1>3 DEF Counting
  <2>2. UNCHANGED <<received, outputQueue>>
    OBVIOUS
  <2> QED
    BY <2>1, <2>2 DEF IndInv, Counted, Put
<1>8. (sender_queue \in [Correct -> Seq(Node \X Backed)])'
  <2> DEFINE A == Node \X Backed
             B == Node \X Backed'
  <2>1. A \subseteq B
    BY <1>3
  <2>2. sender_queue \in [Correct -> Seq(A)]
    BY DEF IndInv, OnTheWay
  <2>3. batch \in Seq(B)
    <3>1. \A k \in 1 .. N : <<k - 1, msg>> \in B
      <4>1. \A k \in 1 .. N : k - 1 \in Node
        BY NodeAssumption DEF Node
      <4> HIDE DEF msg
      <4> QED
        BY <1>4, <4>1
    <3>2. batch \in [1 .. N -> B]
      BY <3>1
    <3> QED
      BY <3>2, NodeAssumption, TableIsSeq
  <2>4. sender_queue' = [sender_queue EXCEPT ![i] = @ \o batch]
    OBVIOUS
  <2> HIDE DEF A, B, batch
  <2>5. sender_queue \in [Correct -> Seq(B)]
    BY <2>1, <2>2, SeqOfMore
  <2>6. sender_queue[i] \o batch \in Seq(B)
    BY <2>3, <2>5, ConcatProperties
  <2>7. sender_queue' \in [Correct -> Seq(B)]
    BY <2>4, <2>5, <2>6
  <2> QED
    BY <2>7 DEF B
<1>9. UNCHANGED <<sender, receiver_queue, per_round>>
  OBVIOUS
<1>10. (receiver_queue \in [Correct -> Seq(Incoming)])'
  <2>1. Incoming \subseteq Incoming'
    BY <1>3 DEF Incoming
  <2> QED
    BY <1>9, <2>1, SeqOfMore DEF IndInv, OnTheWay
<1>11. (\A j \in Correct : Queues(per_round[j]))'
  <2>1. \A r : Seq(InRound(r)) \subseteq Seq(InRound(r)')
    <3> SUFFICES ASSUME NEW r PROVE Seq(InRound(r)) \subseteq Seq(InRound(r)')
      OBVIOUS
    <3>1. InRound(r) \subseteq InRound(r)'
      BY <1>3 DEF InRound
    <3> QED
      BY <3>1, SeqOfMore
  <2> QED
    BY <1>9, <2>1 DEF IndInv, OnTheWay, Queues
<1>12. (sender \in [Correct -> {"running", "raised"}])'
  BY <1>9 DEF IndInv, OnTheWay
<1> QED
  BY <1>5, <1>6, <1>7, <1>8, <1>10, <1>11, <1>12 DEF IndInv, OnTheWay

\* One more share that counts, and the coin if it was the one that was missing.
LEMMA CountOne ==
  ASSUME Counted, NEW i \in Correct, NEW c \in Coin, NEW share \in Counting(c),
         \A s \in received[i][c] : s.src # share.src,
         NEW shares, shares = received[i][c] \cup {share},
         NEW put, put = IF Reached(shares) THEN Append(outputQueue[i][c], Combined(shares))
                        ELSE outputQueue[i][c]
  PROVE  /\ shares \subseteq Counting(c) /\ IsFiniteSet(shares)
         /\ \A s, t \in shares : s.src = t.src => s = t
         /\ put = Put(shares)
<1> DEFINE old == received[i][c]
<1>1. /\ old \subseteq Counting(c) /\ IsFiniteSet(old)
      /\ \A s, t \in old : s.src = t.src => s = t
      /\ outputQueue[i][c] = Put(old)
  BY DEF Counted
<1>2. share \notin old
  OBVIOUS
<1>3. IsFiniteSet(shares) /\ Cardinality(shares) = Cardinality(old) + 1
  BY <1>1, <1>2, FS_AddElement
<1>4. Cardinality(old) \in Nat /\ f \in Nat
  BY <1>1, FS_CardinalityType, CoinAssumption
<1>5. Combined(shares) = "coin"
  BY <1>1 DEF Combined, Counting
<1>6. shares \subseteq Counting(c) /\ \A s, t \in shares : s.src = t.src => s = t
  BY <1>1
<1> HIDE DEF old
<1>7. put = Put(shares)
  <2>1. CASE Cardinality(old) = f
    <3>1. Cardinality(shares) = f + 1 /\ Cardinality(old) <= f /\ ~ (Cardinality(shares) <= f)
      BY <1>3, <1>4, <2>1
    <3>2. Put(old) = <<>> /\ Put(shares) = <<"coin">>
      BY <3>1, Zenon DEF Put
    <3>3. Reached(shares)
      BY <3>1 DEF Reached, Threshold
    <3>4. put = Append(<<>>, "coin")
      BY <1>1, <1>5, <3>2, <3>3, Zenon
    <3>5. Append(<<>>, "coin") = <<"coin">>
      OBVIOUS
    <3> QED
      BY <3>2, <3>4, <3>5, Zenon
  <2>2. CASE Cardinality(old) # f
    BY <1>1, <1>3, <1>4, <2>2 DEF Reached, Threshold, Put
  <2> QED
    BY <2>1, <2>2
<1> QED
  BY <1>3, <1>6, <1>7

\* A share counts if it is good and the first one of its node.
LEMMA ReceiveStep ==
  ASSUME IndInv, NEW i \in Correct, NEW r \in 0 .. MaxRound, Receive(i, r)
  PROVE  IndInv'
<1> DEFINE share  == Head(per_round[i][r])
           c      == <<r, share.epoch>>
           counts == verify_share(share) /\ \A s \in received[i][c] : s.src # share.src
           shares == received[i][c] \cup {share}
<1>1. /\ r \in DOMAIN per_round[i] /\ per_round[i][r] # <<>>
      /\ per_round' = [per_round EXCEPT ![i][r] = Tail(@)]
      /\ UNCHANGED <<sender_queue, sender, receiver_queue, round, asked, got>>
  BY DEF Receive
<1>2. per_round[i][r] \in Seq(InRound(r))
  BY <1>1 DEF IndInv, OnTheWay, Queues
<1>3. share \in InRound(r) /\ Tail(per_round[i][r]) \in Seq(InRound(r))
  BY <1>1, <1>2, TakeOne
<1>4. c \in Coin
  BY <1>3 DEF InRound, Backed, Share, Coin
<1>5. Coins'
  BY <1>1, CoinsStay DEF IndInv
<1>6. /\ Backed' = Backed /\ Incoming' = Incoming
      /\ (\A x : InRound(x)' = InRound(x)) /\ (\A d : Counting(d)' = Counting(d))
  BY <1>1, SameShares
<1> DEFINE q == [per_round[i] EXCEPT ![r] = Tail(@)]
<1>7. per_round' = [per_round EXCEPT ![i] = q]
  BY <1>1
<1>8. Queues(q) /\ DOMAIN q = DOMAIN per_round[i]
  BY <1>1, <1>3 DEF IndInv, OnTheWay, Queues
<1> HIDE DEF q
<1>9. Begun'
  BY <1>1, <1>7, <1>8 DEF IndInv, Begun
<1>10. (\A j \in Correct : Queues(per_round[j]))'
  <2>1. \A j \in Correct : Queues(per_round'[j])
    BY <1>7, <1>8 DEF IndInv, Begun, OnTheWay
  <2> QED
    BY <1>6, <2>1 DEF Queues
<1>11. OnTheWay'
  BY <1>1, <1>6, <1>10 DEF IndInv, OnTheWay
<1>12. CASE share.src \in Node /\ counts
  <2>1. share \in Counting(c)
    BY <1>3, <1>12 DEF InRound, Counting, verify_share
  <2> DEFINE put == IF Reached(shares) THEN Append(outputQueue[i][c], Combined(shares))
                    ELSE outputQueue[i][c]
  <2>2. /\ shares \subseteq Counting(c) /\ IsFiniteSet(shares)
        /\ \A s, t \in shares : s.src = t.src => s = t
        /\ put = Put(shares)
    <3> HIDE DEF share, c
    <3>1. \A s \in received[i][c] : s.src # share.src
      BY <1>12
    <3> HIDE DEF shares, put
    <3>2. /\ shares = received[i][c] \cup {share}
          /\ put = IF Reached(shares) THEN Append(outputQueue[i][c], Combined(shares))
                   ELSE outputQueue[i][c]
      BY DEF shares, put
    <3> QED
      BY <1>4, <2>1, <3>1, <3>2, CountOne DEF IndInv
  <2>3. received' = [received EXCEPT ![i][c] = shares]
    BY <1>12 DEF Receive, Count
  <2>4. outputQueue' = [outputQueue EXCEPT ![i][c] = put]
    <3>1. CASE Reached(shares)
      BY <1>12, <3>1 DEF Receive, Count
    <3>2. CASE ~ Reached(shares)
      <4>1. outputQueue' = outputQueue
        BY <1>12, <3>2 DEF Receive, Count
      <4>2. outputQueue = [outputQueue EXCEPT ![i][c] = outputQueue[i][c]]
        BY <1>4 DEF IndInv, Counted
      <4> QED
        BY <3>2, <4>1, <4>2
    <3> QED
      BY <3>1, <3>2
  <2> HIDE DEF share, c, shares, put
  <2>5. /\ received' = [j \in Correct |-> [d \in Coin |-> received'[j][d]]]
        /\ outputQueue' = [j \in Correct |-> [d \in Coin |-> outputQueue'[j][d]]]
    BY <1>4, <2>3, <2>4 DEF IndInv, Counted
  <2>6. \A j \in Correct, d \in Coin :
          /\ received'[j][d] = IF j = i /\ d = c THEN shares ELSE received[j][d]
          /\ outputQueue'[j][d] = IF j = i /\ d = c THEN put ELSE outputQueue[j][d]
    BY <1>4, <2>3, <2>4 DEF IndInv, Counted
  <2>7. \A j \in Correct, d \in Coin :
          /\ received'[j][d] \subseteq Counting(d)
          /\ IsFiniteSet(received'[j][d])
          /\ \A s, t \in received'[j][d] : s.src = t.src => s = t
          /\ outputQueue'[j][d] = Put(received'[j][d])
    BY <2>2, <2>6 DEF IndInv, Counted
  <2>8. Counted'
    BY <1>6, <2>5, <2>7 DEF Counted, Put
  <2> QED
    BY <1>5, <1>9, <1>11, <2>8 DEF IndInv
<1>13. CASE ~ (share.src \in Node /\ counts)
  <2>1. UNCHANGED <<received, outputQueue>>
    BY <1>13 DEF Receive, Count
  <2>2. Counted'
    BY <1>1, <2>1, CountedStays DEF IndInv
  <2> QED
    BY <1>5, <1>9, <1>11, <2>2 DEF IndInv
<1> QED
  BY <1>12, <1>13

\* Every step keeps the invariant.
LEMMA Inductive == IndInv /\ [Next]_vars => IndInv'
<1> SUFFICES ASSUME IndInv, [Next]_vars PROVE IndInv'
  OBVIOUS
<1>1. ASSUME NEW i \in Correct, Sending(i) PROVE IndInv'
  BY <1>1, SendingStep
<1>2. ASSUME NEW i \in Correct, Receiving(i) PROVE IndInv'
  BY <1>2, ReceivingStep
<1>3. ASSUME NEW i \in Correct, NextRound(i) PROVE IndInv'
  BY <1>3, NextRoundStep
<1>4. ASSUME NEW i \in Correct, NEW c \in Coin, GetCoin(i, c) PROVE IndInv'
  BY <1>4, GetCoinStep
<1>5. ASSUME NEW i \in Correct, NEW c \in Coin, ReturnCoin(i, c) PROVE IndInv'
  BY <1>5, ReturnCoinStep
<1>6. ASSUME NEW i \in Correct, NEW r \in 0 .. MaxRound, Receive(i, r) PROVE IndInv'
  BY <1>6, ReceiveStep
<1>7. ASSUME NEW p \in FaultySends, FaultyShare(p[1], p[2]) PROVE IndInv'
  BY <1>7, FaultyShareStep
<1>8. CASE UNCHANGED vars
  <2>1. UNCHANGED <<sender_queue, sender, receiver_queue, per_round, round, asked, received,
                    outputQueue, got>>
    BY <1>8 DEF vars, transportVars, coinVars
  <2>2. Begun' /\ Coins' /\ Counted'
    BY <2>1, BegunStays, CoinsStay, CountedStays DEF IndInv
  <2>3. Backed' = Backed /\ Incoming' = Incoming
    BY <2>1, SameShares
  <2>4. (\A j \in Correct : Queues(per_round[j]))'
    BY <2>1, QueuesStay DEF IndInv
  <2> QED
    BY <2>1, <2>2, <2>3, <2>4 DEF IndInv, OnTheWay
<1> QED
  BY <1>1, <1>2, <1>3, <1>4, <1>5, <1>6, <1>7, <1>8 DEF Next

\* The invariant holds when the nodes start.
LEMMA Initial == Init => IndInv
<1> SUFFICES ASSUME Init PROVE IndInv
  OBVIOUS
<1> USE DEF Init, TransportInit
<1>1. Begun /\ Coins
  BY BoundAssumption DEF Begun, Coins
<1>2. OnTheWay
  <2>1. <<>> \in Seq(Node \X Backed) /\ <<>> \in Seq(Incoming) /\ <<>> \in Seq(InRound(0))
    OBVIOUS
  <2> QED
    BY <2>1, BoundAssumption DEF OnTheWay, Queues
<1>3. Counted
  <2>1. IsFiniteSet({}) /\ Cardinality({}) = 0
    BY FS_EmptySet
  <2>2. Put({}) = <<>>
    BY <2>1, CoinAssumption DEF Put
  <2> QED
    BY <2>1, <2>2 DEF Counted
<1> QED
  BY <1>1, <1>2, <1>3 DEF IndInv

\* The inductive invariant holds in every reachable state.
LEMMA Invariance == Spec => []IndInv
BY Initial, Inductive, PTL DEF Spec

\* What has ended stays of its type.
LEMMA EndsAlways == Spec => []Ends
<1>1. Init => Ends
  BY DEF Init, TransportInit, Ends
<1>2. Ends /\ [Next]_vars => Ends'
  <2> SUFFICES ASSUME Ends, [Next]_vars PROVE Ends'
    OBVIOUS
  <2> USE DEF Ends
  <2>1. ASSUME NEW i \in Correct, Receiving(i) PROVE Ends'
    BY <2>1 DEF Receiving, Recv, coinVars
  <2>2. ASSUME NEW i \in Correct, NEW r \in 0 .. MaxRound, Receive(i, r) PROVE Ends'
    BY <2>2 DEF Receive
  <2>3. CASE UNCHANGED <<receiver, ended>>
    BY <2>3
  <2>4. \/ UNCHANGED <<receiver, ended>>
        \/ \E i \in Correct : Receiving(i) \/ \E r \in 0 .. MaxRound : Receive(i, r)
    BY DEF Next, Sending, SendNext, NextRound, GetCoin, ReturnCoin, FaultyShare, Inject,
           coinVars, transportVars, vars
  <2> QED
    BY <2>1, <2>2, <2>3, <2>4
<1> QED
  BY <1>1, <1>2, PTL DEF Spec

-----------------------------------------------------------------------------
(* The theorems.                                                           *)

\* Every variable keeps its type, whatever faulty nodes send.
THEOREM TypeCorrect == Spec => []TypeOK
<1>1. IndInv /\ Ends => TypeOK
  <2> SUFFICES ASSUME IndInv, Ends PROVE TypeOK
    OBVIOUS
  <2>1. Backed \subseteq Share /\ Node \X Backed \subseteq Node \X Share
    BY DEF Backed
  <2>2. \A i \in Correct : \A k \in DOMAIN sender_queue[i] : sender_queue[i][k] \in Node \X Share
    BY <2>1, Members DEF IndInv, OnTheWay
  <2>3. \A i \in Correct : ToSet(receiver_queue[i]) \subseteq Share \cup Malformed
    BY <2>1, Members DEF IndInv, OnTheWay, ToSet, Incoming
  <2>4. \A i \in Correct, r \in 0 .. MaxRound :
          r \in DOMAIN per_round[i] => ToSet(per_round[i][r]) \subseteq Share
    <3>1. \A r : InRound(r) \subseteq Share
      BY <2>1 DEF InRound
    <3> QED
      BY <3>1, Members DEF IndInv, OnTheWay, Queues, ToSet
  <2>5. \A i \in Correct, c \in Coin : \A s, t \in received[i][c] :
          s \in Share /\ s.src \in Node /\ s.good /\ (s.src = t.src => s = t)
    <3>1. \A c : Counting(c) \subseteq {s \in Share : s.src \in Node /\ s.good}
      BY <2>1 DEF Counting
    <3> QED
      BY <3>1 DEF IndInv, Counted
  <2> QED
    BY <2>2, <2>3, <2>4, <2>5 DEF TypeOK, IndInv, Begun, OnTheWay, Coins, Ends
<1> QED
  BY <1>1, Invariance, EndsAlways, PTL

\* The assertion of honeybadger.py, line 208, holds at every node.
THEOREM NeverTooLateTheorem == Spec => []NeverTooLate
<1>1. IndInv => NeverTooLate
  <2> SUFFICES ASSUME IndInv, NEW j \in Correct, receiver_queue[j] # <<>>,
                      Head(receiver_queue[j]) \notin Malformed,
                      Head(receiver_queue[j]).round \notin DOMAIN per_round[j]
               PROVE  Head(receiver_queue[j]).round >= round[j]
    BY DEF NeverTooLate
  <2>1. receiver_queue[j] \in Seq(Incoming)
    BY DEF IndInv, OnTheWay
  <2>2. Head(receiver_queue[j]) \in Share
    <3>1. Head(receiver_queue[j]) \in Incoming
      BY <2>1, TakeOne
    <3> QED
      BY <3>1 DEF Incoming, Backed
  <2> QED
    BY <2>2, BoundAssumption DEF Share, IndInv, Begun
<1> QED
  BY <1>1, Invariance, PTL

\* What a correct node takes for a coin is the coin, and it is put once.
THEOREM CoinIsCommonTheorem == Spec => []CoinIsCommon
<1>1. IndInv => CoinIsCommon
  BY DEF IndInv, Counted, Put, CoinIsCommon
<1> QED
  BY <1>1, Invariance, PTL

\* No coin is known before a correct node has asked for it.
THEOREM CoinIsHiddenTheorem == Spec => []CoinIsHidden
<1>1. IndInv => CoinIsHidden
  <2> SUFFICES ASSUME IndInv, NEW i \in Correct, NEW c \in Coin, outputQueue[i][c] # <<>>
               PROVE  \E j \in Correct : c \in asked[j]
    BY DEF CoinIsHidden
  <2> DEFINE S == received[i][c]
  <2>1. /\ S \subseteq Counting(c) /\ IsFiniteSet(S)
        /\ \A s, t \in S : s.src = t.src => s = t
        /\ outputQueue[i][c] = Put(S)
    BY DEF IndInv, Counted
  <2>2. Cardinality(S) > f
    <3>1. Cardinality(S) \in Nat /\ f \in Nat
      BY <2>1, FS_CardinalityType, CoinAssumption
    <3> QED
      BY <2>1, <3>1 DEF Put
  <2>3. \A s \in S : s.src \in Node
    BY <2>1 DEF Counting
  <2> HIDE DEF S
  <2>4. PICK s \in S : s.src \in Correct
    BY <2>1, <2>2, <2>3, CorrectAmong
  <2>5. s \in Counting(c) /\ c = <<c[1], c[2]>>
    BY <2>1, <2>4 DEF Coin
  <2> QED
    BY <2>4, <2>5 DEF Counting, Backed
<1> QED
  BY <1>1, Invariance, PTL

-----------------------------------------------------------------------------
(* CommonCoin implements SharedCoin.                                       *)

\* The instance of SharedCoin counts in the same way.
LEMMA SameCardinality == \A S : Shared!Cardinality(S) = Cardinality(S)
BY DEF Cardinality, Shared!Cardinality, IsFiniteSet, Shared!IsFiniteSet

\* Where a coin has come out, f+1 nodes have asked for it or are faulty: the shares
\* that count are of so many nodes, and a correct one's stands for its getCoin.
EnoughAskers ==
  \A i \in Correct, c \in Coin : outputQueue[i][c] # <<>> => Cardinality(Shared!Askers(c)) >= f + 1

\* So it is in every state of the invariant.
LEMMA AskersCounted == IndInv => EnoughAskers
<1> SUFFICES ASSUME IndInv, NEW i \in Correct, NEW c \in Coin, outputQueue[i][c] # <<>>
             PROVE  Cardinality(Shared!Askers(c)) >= f + 1
  BY DEF EnoughAskers
<1> DEFINE S == received[i][c]
           g == [s \in S |-> s.src]
<1>1. /\ S \subseteq Counting(c) /\ IsFiniteSet(S)
      /\ \A s, t \in S : s.src = t.src => s = t
      /\ outputQueue[i][c] = Put(S)
  BY DEF IndInv, Counted
<1>2. Cardinality(S) \in Nat /\ f \in Nat
  BY <1>1, FS_CardinalityType, CoinAssumption
<1>3. Cardinality(S) >= f + 1
  BY <1>1, <1>2 DEF Put
<1>4. ASSUME NEW s \in S PROVE s.src \in Shared!Askers(c)
  <2>1. s \in Counting(c) /\ c = <<c[1], c[2]>>
    BY <1>1 DEF Coin
  <2>2. s.src \in Node
    BY <2>1 DEF Counting
  <2>3. s.src \in Correct => c \in asked[s.src]
    BY <2>1 DEF Counting, Backed
  <2> QED
    BY <2>2, <2>3 DEF Shared!Askers, Shared!Correct, Correct
<1> HIDE DEF S
<1>5. g \in Injection(S, Shared!Askers(c))
  BY <1>1, <1>4 DEF Injection, IsInjective
<1>6. IsFiniteSet(Shared!Askers(c))
  <2>1. Shared!Askers(c) \subseteq Node
    BY NodeAssumption DEF Shared!Askers, Shared!Correct
  <2>2. IsFiniteSet(Node)
    BY NodeAssumption, FS_Interval DEF Node
  <2> QED
    BY <2>1, <2>2, FS_Subset
<1>7. Cardinality(S) <= Cardinality(Shared!Askers(c)) /\ Cardinality(Shared!Askers(c)) \in Nat
  BY <1>5, <1>6, FS_Injection, FS_CardinalityType
<1> QED
  BY <1>2, <1>3, <1>7

\* Every step is one of SharedCoin or leaves its variables alone.
LEMMA RefinementStep == IndInv /\ IndInv' /\ EnoughAskers' /\ [Next]_vars => [Shared!Next]_(Shared!vars)
<1> SUFFICES ASSUME IndInv, IndInv', EnoughAskers', [Next]_vars PROVE [Shared!Next]_(Shared!vars)
  OBVIOUS
<1>1. ASSUME NEW i \in Correct, NEW c \in Coin, GetCoin(i, c) PROVE Shared!Next
  BY <1>1 DEF GetCoin, Shared!Next, Shared!Ask, Shared!Correct, Correct
<1>2. ASSUME NEW i \in Correct, NEW c \in Coin, ReturnCoin(i, c) PROVE Shared!Next
  BY <1>2 DEF ReturnCoin, Shared!Next, Shared!Return, Shared!Correct, Correct
<1>3. ASSUME NEW i \in Correct, NEW r \in 0 .. MaxRound, Receive(i, r)
      PROVE  [Shared!Next]_(Shared!vars)
  <2>1. UNCHANGED <<asked, got>>
    BY <1>3 DEF Receive
  <2>2. <<r, Head(per_round[i][r]).epoch>> \in Coin
    <3>1. /\ r \in DOMAIN per_round[i] /\ per_round[i][r] # <<>>
          /\ per_round[i][r] \in Seq(InRound(r))
      BY <1>3 DEF Receive, IndInv, OnTheWay, Queues
    <3>2. Head(per_round[i][r]) \in InRound(r)
      BY <3>1
    <3> QED
      BY <3>2 DEF InRound, Backed, Share, Coin
  <2>3. PICK c \in Coin :
          \/ outputQueue' = outputQueue
          \/ \E y : outputQueue' = [outputQueue EXCEPT ![i][c] = Append(@, y)]
    BY <1>3, <2>2 DEF Receive, Count
  <2>4. outputQueue[i][c] \in {<<>>, <<"coin">>} /\ outputQueue'[i][c] \in {<<>>, <<"coin">>}
    BY <2>3 DEF IndInv, Counted, Put
  <2>5. CASE outputQueue' = outputQueue
    BY <2>1, <2>5 DEF Shared!vars
  <2>6. CASE outputQueue' # outputQueue
    <3>1. PICK y : outputQueue' = [outputQueue EXCEPT ![i][c] = Append(@, y)]
      BY <2>3, <2>6
    <3>2. outputQueue'[i][c] = Append(outputQueue[i][c], y)
      BY <2>3, <3>1 DEF IndInv, Counted
    <3>3. outputQueue[i][c] = <<>> /\ Append(outputQueue[i][c], y) = <<"coin">>
      BY <2>4, <3>2
    <3>4. Cardinality(Shared!Askers(c)) >= f + 1
      <4>1. (Cardinality(Shared!Askers(c)) >= f + 1)'
        BY <2>3, <3>2, <3>3 DEF EnoughAskers
      <4> QED
        BY <2>1, <4>1 DEF Shared!Askers
    <3>5. outputQueue' = [outputQueue EXCEPT ![i][c] = <<"coin">>]
      BY <3>1, <3>3
    <3>6. Shared!Come(i, c)
      BY <2>1, <2>3, <3>3, <3>4, <3>5, SameCardinality DEF Shared!Come
    <3> QED
      BY <2>3, <3>6 DEF Shared!Next, Shared!Correct, Correct
  <2> QED
    BY <2>5, <2>6
<1>4. CASE UNCHANGED <<asked, outputQueue, got>>
  BY <1>4 DEF Shared!vars
<1>5. ASSUME NEW i \in Correct, Sending(i) \/ Receiving(i) \/ NextRound(i)
      PROVE  UNCHANGED <<asked, outputQueue, got>>
  BY <1>5 DEF Sending, Receiving, NextRound, coinVars
<1>6. ASSUME NEW p \in FaultySends, FaultyShare(p[1], p[2])
      PROVE  UNCHANGED <<asked, outputQueue, got>>
  BY <1>6 DEF FaultyShare
<1>7. CASE UNCHANGED vars
  BY <1>4, <1>7 DEF vars, coinVars
<1> QED
  BY <1>1, <1>2, <1>3, <1>4, <1>5, <1>6, <1>7 DEF Next

\* commoncoin.py, on top of the queues between the nodes, implements SharedCoin.
THEOREM Refinement == Spec => ImplementsSharedCoin
<1>1. Init => Shared!Init
  BY DEF Init, Shared!Init, Shared!Correct, Correct
<1> QED
  BY <1>1, RefinementStep, AskersCounted, Invariance, PTL DEF Spec, ImplementsSharedCoin, Shared!Spec

-----------------------------------------------------------------------------
(* Counting messages in queues.                                            *)

\* What is counted is finite.
LEMMA CopiesInNat ==
  ASSUME NEW A, NEW q \in Seq(A), NEW S
  PROVE  /\ IsFiniteSet({k \in DOMAIN q : q[k] \in S})
         /\ Copies(q, S) \in Nat
<1>1. DOMAIN q = 1 .. Len(q) /\ Len(q) \in Nat
  OBVIOUS
<1>2. IsFiniteSet(DOMAIN q)
  BY <1>1, FS_Interval
<1>3. IsFiniteSet({k \in DOMAIN q : q[k] \in S})
  BY <1>2, FS_Subset
<1> QED
  BY <1>3, FS_CardinalityType DEF Copies

\* There is nothing in an empty queue.
LEMMA CopiesEmpty ==
  ASSUME NEW S
  PROVE  Copies(<<>>, S) = 0
<1>1. {k \in DOMAIN <<>> : <<>>[k] \in S} = {}
  OBVIOUS
<1> QED
  BY <1>1, FS_EmptySet DEF Copies

\* A message at the end of a queue.
LEMMA CopiesAppend ==
  ASSUME NEW A, NEW q \in Seq(A), NEW x \in A, NEW S
  PROVE  Copies(Append(q, x), S) = Copies(q, S) + (IF x \in S THEN 1 ELSE 0)
<1> DEFINE K == {k \in DOMAIN q : q[k] \in S}
           L == {k \in DOMAIN Append(q, x) : Append(q, x)[k] \in S}
           n == Len(q) + 1
<1>1. IsFiniteSet(K) /\ Cardinality(K) \in Nat
  BY CopiesInNat DEF Copies
<1>2. n \notin K
  OBVIOUS
<1>3. /\ DOMAIN q = 1 .. Len(q) /\ DOMAIN Append(q, x) = 1 .. n /\ Len(q) \in Nat
      /\ Append(q, x)[n] = x /\ \A k \in 1 .. Len(q) : Append(q, x)[k] = q[k]
  OBVIOUS
<1>4. CASE x \in S
  <2>1. L = K \cup {n}
    BY <1>3, <1>4
  <2> HIDE DEF K, L, n
  <2>2. Cardinality(L) = Cardinality(K) + 1
    BY <1>1, <1>2, <2>1, FS_AddElement
  <2> QED
    BY <1>4, <2>2 DEF Copies, K, L
<1>5. CASE x \notin S
  <2>1. L = K
    BY <1>3, <1>5
  <2> HIDE DEF K, L
  <2>2. Cardinality(L) = Cardinality(K) + 0
    BY <1>1, <2>1
  <2> QED
    BY <1>5, <2>2 DEF Copies, K, L
<1> QED
  BY <1>4, <1>5

\* A message is taken from a queue.
LEMMA CopiesTail ==
  ASSUME NEW A, NEW q \in Seq(A), q # <<>>, NEW S
  PROVE  Copies(q, S) = Copies(Tail(q), S) + (IF Head(q) \in S THEN 1 ELSE 0)
<1> DEFINE K == {k \in DOMAIN q : q[k] \in S}
           L == {k \in DOMAIN Tail(q) : Tail(q)[k] \in S}
           M == K \ {1}
           g == [k \in L |-> k + 1]
<1>1. Tail(q) \in Seq(A)
  BY TakeOne
<1>2. IsFiniteSet(K) /\ Cardinality(K) \in Nat /\ IsFiniteSet(L) /\ Cardinality(L) \in Nat
  BY <1>1, CopiesInNat DEF Copies
<1>3. /\ DOMAIN q = 1 .. Len(q) /\ Len(q) \in Nat /\ Len(q) >= 1 /\ Head(q) = q[1]
      /\ DOMAIN Tail(q) = 1 .. Len(q) - 1
      /\ \A k \in 1 .. Len(q) - 1 : Tail(q)[k] = q[k + 1]
  BY <1>1
<1>4. g \in Bijection(L, M)
  <2>1. \A k \in L : k + 1 \in M
    BY <1>3
  <2>2. g \in [L -> M]
    BY <2>1
  <2>3. \A k, l \in L : g[k] = g[l] => k = l
    BY <1>3
  <2>4. \A m \in M : \E k \in L : g[k] = m
    <3> SUFFICES ASSUME NEW m \in M PROVE \E k \in L : g[k] = m
      OBVIOUS
    <3>1. m - 1 \in L /\ (m - 1) + 1 = m
      BY <1>3
    <3> QED
      BY <3>1
  <2> QED
    BY <2>2, <2>3, <2>4 DEF Bijection, Injection, Surjection, IsInjective
<1>5. Cardinality(L) = Cardinality(M)
  <2> HIDE DEF L, M, g
  <2> QED
    BY <1>2, <1>4, FS_Bijection DEF ExistsBijection
<1>6. CASE Head(q) \in S
  <2>1. 1 \in K
    BY <1>3, <1>6
  <2> HIDE DEF K, L
  <2>2. Cardinality(M) = Cardinality(K) - 1
    BY <1>2, <2>1, FS_RemoveElement
  <2>3. Cardinality(K) = Cardinality(L) + 1
    BY <1>2, <1>5, <2>2
  <2> QED
    BY <1>6, <2>3 DEF Copies, K, L
<1>7. CASE Head(q) \notin S
  <2>1. M = K
    BY <1>3, <1>7
  <2>2. Cardinality(K) = Cardinality(L) + 0
    <3> HIDE DEF K, L, M
    <3> QED
      BY <1>2, <1>5, <2>1
  <2> HIDE DEF K, L
  <2> QED
    BY <1>7, <2>2 DEF Copies, K, L
<1> QED
  BY <1>6, <1>7

\* A message addressed to one node.
LEMMA PairIn ==
  ASSUME NEW a, NEW b, NEW j, NEW S
  PROVE  <<a, b>> \in {j} \X S <=> a = j /\ b \in S
OBVIOUS

\* A broadcast is one message for each node.
LEMMA CopiesBroadcast ==
  ASSUME NEW A, NEW q \in Seq(A), NEW msg, NEW j \in Node, NEW S,
         \A k \in 1 .. N : <<k - 1, msg>> \in A
  PROVE  Copies(q \o [k \in 1 .. N |-> <<k - 1, msg>>], {j} \X S)
           = Copies(q, {j} \X S) + (IF msg \in S THEN 1 ELSE 0)
<1> DEFINE b == [k \in 1 .. N |-> <<k - 1, msg>>]
           w == q \o b
           P == {j} \X S
           K == {k \in DOMAIN q : q[k] \in P}
           L == {k \in DOMAIN w : w[k] \in P}
           n == Len(q) + (j + 1)
<1>1. IsFiniteSet(K) /\ Cardinality(K) \in Nat
  BY CopiesInNat DEF Copies
<1>2. b \in Seq(A) /\ Len(b) = N /\ N \in Nat
  <2>1. b \in [1 .. N -> A]
    OBVIOUS
  <2> QED
    BY <2>1, NodeAssumption, TableIsSeq
<1>3. /\ DOMAIN q = 1 .. Len(q) /\ Len(q) \in Nat
      /\ DOMAIN w = 1 .. Len(q) + N
      /\ \A k \in 1 .. Len(q) : w[k] = q[k]
      /\ \A k \in 1 .. Len(q) + N : k > Len(q) => w[k] = b[k - Len(q)]
  <2> HIDE DEF b
  <2> QED
    BY <1>2
<1>4. \A k \in 1 .. Len(q) + N : k > Len(q) => w[k] = <<(k - Len(q)) - 1, msg>>
  <2> SUFFICES ASSUME NEW k \in 1 .. Len(q) + N, k > Len(q)
               PROVE  w[k] = <<(k - Len(q)) - 1, msg>>
    OBVIOUS
  <2>1. k - Len(q) \in 1 .. N
    BY <1>2, <1>3
  <2>2. w[k] = b[k - Len(q)]
    BY <1>3
  <2> HIDE DEF w
  <2> QED
    BY <2>1, <2>2
<1> HIDE DEF w, b
<1>5. n \in 1 .. Len(q) + N /\ n > Len(q) /\ (n - Len(q)) - 1 = j
  BY <1>2, <1>3 DEF Node
<1>6. \A k \in 1 .. Len(q) + N : k > Len(q) /\ (k - Len(q)) - 1 = j => k = n
  BY <1>2, <1>3 DEF Node
<1>7. \A k \in 1 .. Len(q) + N : k > Len(q) => (w[k] \in P <=> k = n /\ msg \in S)
  <2> SUFFICES ASSUME NEW k \in 1 .. Len(q) + N, k > Len(q)
               PROVE  w[k] \in P <=> k = n /\ msg \in S
    OBVIOUS
  <2>1. w[k] \in P <=> (k - Len(q)) - 1 = j /\ msg \in S
    <3>1. PICK a : a = (k - Len(q)) - 1
      OBVIOUS
    <3>2. w[k] = <<a, msg>>
      BY <1>4, <3>1
    <3>3. w[k] \in P <=> a = j /\ msg \in S
      <4>1. w[k] \in P <=> <<a, msg>> \in {j} \X S
        BY <3>2
      <4>2. <<a, msg>> \in {j} \X S <=> a = j /\ msg \in S
        BY PairIn
      <4> HIDE DEF w, P
      <4> QED
        BY <4>1, <4>2
    <3> HIDE DEF w, P
    <3> QED
      BY <3>1, <3>3
  <2>2. (k - Len(q)) - 1 = j <=> k = n
    BY <1>5, <1>6
  <2> HIDE DEF P, n
  <2> QED
    BY <2>1, <2>2
<1>8. \A k \in 1 .. Len(q) + N : k \in 1 .. Len(q) \/ k > Len(q)
  BY <1>2, <1>3
<1>9. \A k \in 1 .. Len(q) : k \in 1 .. Len(q) + N
  BY <1>2, <1>3
<1>10. n \notin K
  BY <1>3, <1>5
<1>11. CASE msg \in S
  <2>1. L = K \cup {n}
    <3>1. n \in L
      BY <1>3, <1>5, <1>7, <1>11
    <3>2. K \subseteq L
      BY <1>3, <1>9
    <3>3. \A k \in L : k \in K \/ k = n
      BY <1>3, <1>7, <1>8
    <3> HIDE DEF K, L, n
    <3> QED
      BY <3>1, <3>2, <3>3
  <2> HIDE DEF K, L, n
  <2>2. Cardinality(L) = Cardinality(K) + 1
    BY <1>1, <1>10, <2>1, FS_AddElement
  <2> QED
    BY <1>11, <2>2 DEF Copies, K, L, w, b
<1>12. CASE msg \notin S
  <2>1. L = K
    <3>1. K \subseteq L
      BY <1>3, <1>9
    <3>2. \A k \in L : k \in K
      BY <1>3, <1>7, <1>8, <1>12
    <3> QED
      BY <3>1, <3>2
  <2> HIDE DEF K, L
  <2>2. Cardinality(L) = Cardinality(K) + 0
    BY <1>1, <2>1
  <2> QED
    BY <1>12, <2>2 DEF Copies, K, L, w, b
<1> QED
  BY <1>11, <1>12

-----------------------------------------------------------------------------
(* Each share is on its way or counts, once.                               *)

\* Where the share of node i for coin c can be that is meant for node j.
Queued(i, j, c)  == Copies(sender_queue[i], {j} \X ShareOf(i, c))
Arrived(i, j, c) == Copies(receiver_queue[j], ShareOf(i, c))
Kept(i, j, c)    == Copies(Waiting(j, c), ShareOf(i, c))
Taken(i, j, c)   == Cardinality({s \in received[j][c] : s.src = i})

\* A correct node sends in its own name.
Own == \A i \in Correct : sender_queue[i] \in Seq({p \in Node \X Share : p[2].src = i})

\* The queues and the sets that are counted are what counting is defined for.
LEMMA Places ==
  ASSUME IndInv, NEW i \in Correct, NEW j \in Correct, NEW c \in Coin
  PROVE  /\ sender_queue[i] \in Seq(Node \X Share) /\ receiver_queue[j] \in Seq(Share \cup Malformed)
         /\ Waiting(j, c) \in Seq(Share) /\ IsFiniteSet(received[j][c])
         /\ Queued(i, j, c) \in Nat /\ Arrived(i, j, c) \in Nat
         /\ Kept(i, j, c) \in Nat /\ Taken(i, j, c) \in Nat
<1>1. Backed \subseteq Share /\ \A r : InRound(r) \subseteq Share
  BY DEF Backed, InRound
<1>2. sender_queue[i] \in Seq(Node \X Share)
  <2>1. sender_queue[i] \in Seq(Node \X Backed) /\ Node \X Backed \subseteq Node \X Share
    BY <1>1 DEF IndInv, OnTheWay
  <2> QED
    BY <2>1, SeqOfMore
<1>3. receiver_queue[j] \in Seq(Share \cup Malformed)
  BY <1>1, SeqOfMore DEF IndInv, OnTheWay, Incoming
<1>4. Waiting(j, c) \in Seq(Share)
  <2>1. CASE c[1] \in DOMAIN per_round[j]
    <3>1. per_round[j][c[1]] \in Seq(InRound(c[1]))
      BY <2>1 DEF IndInv, OnTheWay, Queues
    <3> QED
      BY <1>1, <2>1, <3>1, SeqOfMore DEF Waiting
  <2>2. CASE c[1] \notin DOMAIN per_round[j]
    BY <2>2 DEF Waiting
  <2> QED
    BY <2>1, <2>2
<1>5. IsFiniteSet(received[j][c])
  BY DEF IndInv, Counted
<1>6. IsFiniteSet({s \in received[j][c] : s.src = i})
  BY <1>5, FS_Subset
<1> QED
  BY <1>2, <1>3, <1>4, <1>5, <1>6, CopiesInNat, FS_CardinalityType
     DEF Queued, Arrived, Kept, Taken

\* The sender thread takes messages away, getCoin adds the node's own.
LEMMA OwnStays == IndInv /\ Own /\ [Next]_vars => Own'
<1> SUFFICES ASSUME IndInv, Own, [Next]_vars, NEW i \in Correct
             PROVE  sender_queue'[i] \in Seq({p \in Node \X Share : p[2].src = i})
  BY DEF Own
<1> DEFINE S == {p \in Node \X Share : p[2].src = i}
<1>1. sender_queue[i] \in Seq(S) /\ sender_queue = [k \in Correct |-> sender_queue[k]]
  BY DEF Own, IndInv, OnTheWay
<1>2. ASSUME NEW k \in Correct, Sending(k) PROVE sender_queue'[i] \in Seq(S)
  <2>1. sender_queue' = [sender_queue EXCEPT ![k] = Tail(@)] /\ sender_queue[k] # <<>>
    BY <1>2 DEF Sending, SendNext
  <2> HIDE DEF S
  <2>2. i = k => Tail(sender_queue[i]) \in Seq(S)
    BY <1>1, <2>1, TakeOne
  <2>3. sender_queue'[i] = IF i = k THEN Tail(sender_queue[i]) ELSE sender_queue[i]
    BY <1>1, <2>1
  <2> QED
    BY <1>1, <2>2, <2>3
<1>3. ASSUME NEW k \in Correct, NEW c \in Coin, GetCoin(k, c) PROVE sender_queue'[i] \in Seq(S)
  <2> DEFINE msg   == [src |-> k, round |-> c[1], epoch |-> c[2], good |-> TRUE]
             batch == [n \in 1 .. N |-> <<n - 1, msg>>]
  <2>1. sender_queue' = [sender_queue EXCEPT ![k] = @ \o batch]
    BY <1>3 DEF GetCoin, Broadcast
  <2>2. msg \in Share /\ msg.src = k
    BY NodeAssumption DEF Coin, Share, Correct, Node
  <2>3. k = i => batch \in Seq(S)
    <3>1. \A n \in 1 .. N : n - 1 \in Node
      BY NodeAssumption DEF Node
    <3> HIDE DEF msg
    <3>2. k = i => batch \in [1 .. N -> S]
      BY <2>2, <3>1
    <3> HIDE DEF S, batch
    <3> QED
      BY <3>2, NodeAssumption, TableIsSeq
  <2> HIDE DEF S, batch
  <2>4. k = i => sender_queue[i] \o batch \in Seq(S)
    BY <1>1, <2>3, ConcatProperties
  <2>5. sender_queue'[i] = IF i = k THEN sender_queue[i] \o batch ELSE sender_queue[i]
    BY <1>1, <2>1
  <2> QED
    BY <1>1, <2>4, <2>5
<1>4. CASE UNCHANGED sender_queue
  BY <1>1, <1>4
<1>5. \/ UNCHANGED sender_queue
      \/ \E k \in Correct : Sending(k) \/ \E c \in Coin : GetCoin(k, c)
  BY DEF Next, Receiving, Recv, NextRound, ReturnCoin, Receive, FaultyShare, Inject,
         transportVars, vars
<1> QED
  BY <1>2, <1>3, <1>4, <1>5

\* The share of a correct node is a share in its name.
LEMMA ShareOfCorrect ==
  ASSUME NEW i \in Correct, NEW c \in Coin, NEW s \in ShareOf(i, c)
  PROVE  s \in Share /\ s.src = i
BY NodeAssumption DEF ShareOf, Share, Coin, Correct, Node

\* The places that a step leaves alone.
LEMMA SamePlaces ==
  ASSUME NEW i, NEW j, NEW c
  PROVE  /\ UNCHANGED sender_queue   => Queued(i, j, c)' = Queued(i, j, c)
         /\ UNCHANGED receiver_queue => Arrived(i, j, c)' = Arrived(i, j, c)
         /\ UNCHANGED per_round      => Kept(i, j, c)' = Kept(i, j, c)
         /\ UNCHANGED received       => Taken(i, j, c)' = Taken(i, j, c)
BY DEF Queued, Arrived, Kept, Taken, Waiting

\* The sender thread moves a message from one queue to the other.
LEMMA SendingKeeps ==
  ASSUME IndInv, Own, NEW k \in Correct, Sending(k),
         NEW i \in Correct, NEW j \in Correct, NEW c \in Coin
  PROVE  /\ Queued(i, j, c)' + Arrived(i, j, c)' = Queued(i, j, c) + Arrived(i, j, c)
         /\ Queued(i, j, c)' \in Nat /\ Arrived(i, j, c)' \in Nat
         /\ Kept(i, j, c)' = Kept(i, j, c) /\ Taken(i, j, c)' = Taken(i, j, c)
<1> DEFINE p == Head(sender_queue[k])
           S == ShareOf(i, c)
<1>1. /\ sender_queue[k] # <<>> /\ UNCHANGED <<per_round, received>>
      /\ sender_queue' = [sender_queue EXCEPT ![k] = Tail(@)]
      /\ IF p[1] \in Down THEN UNCHANGED receiver_queue ELSE Arrive(p[1], p[2])
  BY DEF Sending, SendNext, coinVars
<1>2. /\ sender_queue = [l \in Correct |-> sender_queue[l]]
      /\ receiver_queue = [l \in Correct |-> receiver_queue[l]]
  BY DEF IndInv, OnTheWay
<1>3. /\ sender_queue[i] \in Seq(Node \X Share) /\ receiver_queue[j] \in Seq(Share \cup Malformed)
      /\ Queued(i, j, c) \in Nat /\ Arrived(i, j, c) \in Nat
  BY Places
<1>4. p \in Node \X Share /\ p[2].src = k
  <2>1. sender_queue[k] \in Seq({x \in Node \X Share : x[2].src = k})
    BY DEF Own
  <2> QED
    BY <1>1, <2>1, TakeOne
<1>5. p[2] \in S => k = i
  BY <1>4 DEF ShareOf
<1>6. p \in {j} \X S <=> p[1] = j /\ p[2] \in S
  <2>1. p = <<p[1], p[2]>>
    BY <1>4
  <2> HIDE DEF p, S
  <2> QED
    BY <2>1, PairIn
<1> DEFINE moved == IF p[1] = j /\ p[2] \in S THEN 1 ELSE 0
<1>7. Queued(i, j, c) = Queued(i, j, c)' + moved
  <2>1. CASE k = i
    <3>1. sender_queue'[i] = Tail(sender_queue[i])
      BY <1>1, <1>2, <2>1
    <3> DEFINE q == sender_queue[i]
    <3>2. Copies(q, {j} \X S) = Copies(Tail(q), {j} \X S) + (IF Head(q) \in {j} \X S THEN 1 ELSE 0)
      <4>1. q \in Seq(Node \X Share) /\ q # <<>>
        BY <1>1, <1>3, <2>1
      <4> HIDE DEF q, S
      <4> QED
        BY <4>1, CopiesTail
    <3> QED
      BY <1>6, <2>1, <3>1, <3>2 DEF Queued
  <2>2. CASE k # i
    <3>1. sender_queue'[i] = sender_queue[i] /\ moved = 0
      BY <1>1, <1>2, <1>5, <2>2
    <3> QED
      BY <1>3, <3>1 DEF Queued
  <2> QED
    BY <2>1, <2>2
<1>8. Arrived(i, j, c)' = Arrived(i, j, c) + moved
  <2>1. CASE p[1] = j
    <3>1. j \notin Down
      BY NodeAssumption DEF Correct
    <3>2. receiver_queue'[j] = Append(receiver_queue[j], p[2])
      BY <1>1, <1>2, <2>1, <3>1 DEF Arrive
    <3>3. p[2] \in Share
      BY <1>4
    <3> DEFINE m == p[2]
    <3>4. Copies(Append(receiver_queue[j], m), S) = Copies(receiver_queue[j], S) + (IF m \in S THEN 1 ELSE 0)
      <4> HIDE DEF m, S
      <4> QED
        BY <1>3, <3>3, CopiesAppend DEF m
    <3> QED
      BY <2>1, <3>2, <3>4 DEF Arrived
  <2>2. CASE p[1] # j
    <3>1. receiver_queue'[j] = receiver_queue[j]
      BY <1>1, <1>2, <2>2 DEF Arrive
    <3> QED
      BY <1>3, <2>2, <3>1 DEF Arrived
  <2> QED
    BY <2>1, <2>2
<1>9. Queued(i, j, c)' \in Nat
  <2>1. sender_queue'[i] \in Seq(Node \X Share)
    BY <1>1, <1>2, <1>3, TakeOne
  <2> QED
    BY <2>1, CopiesInNat DEF Queued
<1>10. Kept(i, j, c)' = Kept(i, j, c) /\ Taken(i, j, c)' = Taken(i, j, c)
  BY <1>1, SamePlaces
<1>11. moved \in Nat
  OBVIOUS
<1> HIDE DEF moved
<1> QED
  BY <1>3, <1>7, <1>8, <1>9, <1>10, <1>11

\* An empty queue for a round holds nothing.
LEMMA WithQueueAdds ==
  ASSUME NEW q, NEW r, NEW x
  PROVE  LET w == WithQueue(q, r)
         IN  (IF x \in DOMAIN w THEN w[x] ELSE <<>>) = (IF x \in DOMAIN q THEN q[x] ELSE <<>>)
BY DEF WithQueue

\* A new round takes no message with it.
LEMMA NextRoundKeeps ==
  ASSUME IndInv, NEW k \in Correct, NextRound(k), NEW i \in Correct, NEW j \in Correct, NEW c \in Coin
  PROVE  Kept(i, j, c)' = Kept(i, j, c)
<1>1. per_round' = [per_round EXCEPT ![k] = WithQueue(@, round[k] + 1)]
  BY DEF NextRound, OpenRound
<1>2. per_round = [l \in Correct |-> per_round[l]]
  BY DEF IndInv, Begun
<1>3. per_round'[j] = IF j = k THEN WithQueue(per_round[j], round[k] + 1) ELSE per_round[j]
  BY <1>1, <1>2
<1>4. Waiting(j, c)' = Waiting(j, c)
  BY <1>3, WithQueueAdds DEF Waiting
<1> QED
  BY <1>4 DEF Kept

\* A message goes from the receiver queue to the one of its round.
LEMMA ReceivingKeeps ==
  ASSUME IndInv, NEW k \in Correct, Receiving(k), NEW i \in Correct, NEW j \in Correct, NEW c \in Coin
  PROVE  /\ Queued(i, j, c)' = Queued(i, j, c) /\ Taken(i, j, c)' = Taken(i, j, c)
         /\ Arrived(i, j, c)' + Kept(i, j, c)' = Arrived(i, j, c) + Kept(i, j, c)
         /\ Arrived(i, j, c)' \in Nat /\ Kept(i, j, c)' \in Nat
<1> DEFINE msg == Head(receiver_queue[k])
           S   == ShareOf(i, c)
           w   == WithQueue(per_round[k], msg.round)
<1>1. /\ receiver_queue[k] # <<>> /\ UNCHANGED <<sender_queue, received>>
      /\ receiver_queue' = [receiver_queue EXCEPT ![k] = Tail(@)]
      /\ \/ msg \in Malformed /\ UNCHANGED per_round
         \/ /\ msg \notin Malformed
            /\ per_round' = [per_round EXCEPT ![k] = [w EXCEPT ![msg.round] = Append(@, msg)]]
  BY DEF Receiving, Recv, Buffered, coinVars
<1>2. /\ per_round = [l \in Correct |-> per_round[l]]
      /\ receiver_queue = [l \in Correct |-> receiver_queue[l]]
  BY DEF IndInv, OnTheWay, Begun
<1>3. /\ receiver_queue[j] \in Seq(Share \cup Malformed)
      /\ receiver_queue[k] \in Seq(Share \cup Malformed)
      /\ Waiting(j, c) \in Seq(Share)
      /\ Arrived(i, j, c) \in Nat /\ Kept(i, j, c) \in Nat
  BY Places
<1>4. /\ msg \in Share \cup Malformed
      /\ Tail(receiver_queue[k]) \in Seq(Share \cup Malformed)
  BY <1>1, <1>3, TakeOne
<1>5. Queued(i, j, c)' = Queued(i, j, c) /\ Taken(i, j, c)' = Taken(i, j, c)
  BY <1>1, SamePlaces
<1>6. CASE j # k
  <2>1. per_round'[j] = per_round[j] /\ receiver_queue'[j] = receiver_queue[j]
    BY <1>1, <1>2, <1>6
  <2>2. Arrived(i, j, c)' = Arrived(i, j, c) /\ Kept(i, j, c)' = Kept(i, j, c)
    BY <2>1 DEF Arrived, Kept, Waiting
  <2> QED
    BY <1>3, <1>5, <2>2
<1>7. CASE j = k
  <2> DEFINE moved == IF msg \in S THEN 1 ELSE 0
  <2>1. receiver_queue'[j] = Tail(receiver_queue[j])
    BY <1>1, <1>2, <1>7
  <2>2. Arrived(i, j, c) = Arrived(i, j, c)' + moved
    <3> DEFINE q == receiver_queue[j]
    <3>1. Copies(q, S) = Copies(Tail(q), S) + (IF Head(q) \in S THEN 1 ELSE 0)
      <4>1. q \in Seq(Share \cup Malformed) /\ q # <<>>
        BY <1>1, <1>3, <1>7
      <4> HIDE DEF q, S
      <4> QED
        BY <4>1, CopiesTail
    <3> QED
      BY <1>7, <2>1, <3>1 DEF Arrived
  <2>3. Arrived(i, j, c)' \in Nat
    BY <1>4, <1>7, <2>1, CopiesInNat DEF Arrived
  <2>4. msg.round \in DOMAIN w /\ w = [x \in DOMAIN w |-> w[x]]
    BY DEF WithQueue
  <2>5. Waiting(j, c) = IF c[1] \in DOMAIN w THEN w[c[1]] ELSE <<>>
    BY <1>7, WithQueueAdds DEF Waiting
  <2>6. Kept(i, j, c)' = Kept(i, j, c) + moved
    <3>0. CASE msg \in Malformed
      <4>1. Waiting(j, c)' = Waiting(j, c)
        BY <1>1, <3>0, FaultyAssumption DEF Waiting
      <4>2. msg \notin S
        <5> HIDE DEF msg
        <5> QED
          BY <3>0, ShareOfCorrect, FaultyAssumption
      <4> QED
        BY <1>3, <4>1, <4>2 DEF Kept
    <3> HIDE DEF w
    <3>1. CASE msg \notin Malformed /\ msg.round = c[1]
      <4>0. per_round'[j] = [w EXCEPT ![msg.round] = Append(@, msg)]
        BY <1>1, <1>2, <1>7, <3>1
      <4>1. Waiting(j, c)' = Append(Waiting(j, c), msg)
        BY <2>4, <2>5, <3>1, <4>0 DEF Waiting
      <4> HIDE DEF msg, S
      <4>2. Copies(Append(Waiting(j, c), msg), S) = Copies(Waiting(j, c), S) + (IF msg \in S THEN 1 ELSE 0)
        BY <1>3, <1>4, <3>1, CopiesAppend
      <4> QED
        BY <4>1, <4>2 DEF Kept, S
    <3>2. CASE msg \notin Malformed /\ msg.round # c[1]
      <4>0. per_round'[j] = [w EXCEPT ![msg.round] = Append(@, msg)]
        BY <1>1, <1>2, <1>7, <3>2
      <4>1. Waiting(j, c)' = Waiting(j, c)
        BY <2>4, <2>5, <3>2, <4>0 DEF Waiting
      <4>2. msg \notin S
        BY <3>2 DEF ShareOf
      <4> QED
        BY <1>3, <4>1, <4>2 DEF Kept
    <3> QED
      BY <3>0, <3>1, <3>2
  <2>7. moved \in Nat
    OBVIOUS
  <2> HIDE DEF moved
  <2> QED
    BY <1>3, <1>5, <2>2, <2>3, <2>6, <2>7
<1> QED
  BY <1>6, <1>7

\* A share of a faulty node is none of a correct one.
LEMMA FaultyShareKeeps ==
  ASSUME IndInv, NEW p \in FaultySends, FaultyShare(p[1], p[2]),
         NEW i \in Correct, NEW j \in Correct, NEW c \in Coin
  PROVE  Arrived(i, j, c)' = Arrived(i, j, c)
<1> DEFINE m == p[2]
           S == ShareOf(i, c)
<1>1. Arrive(p[1], m)
  BY DEF FaultyShare, Inject
<1>2. m \in Share \cup Malformed
  BY FaultyAssumption
<1>3. m \notin S
  <2>1. m \in Share => m.src \notin Correct
    BY FaultyAssumption
  <2>2. \A s \in S : s \in Share /\ s.src = i
    BY ShareOfCorrect
  <2> HIDE DEF m, S
  <2> QED
    BY <2>1, <2>2
<1>4. receiver_queue[j] \in Seq(Share \cup Malformed) /\ Arrived(i, j, c) \in Nat
  BY Places
<1>5. receiver_queue = [l \in Correct |-> receiver_queue[l]]
  BY DEF IndInv, OnTheWay
<1>6. receiver_queue'[j] \in {receiver_queue[j], Append(receiver_queue[j], m)}
  BY <1>1, <1>5 DEF Arrive
<1>7. Copies(Append(receiver_queue[j], m), S) = Copies(receiver_queue[j], S) + (IF m \in S THEN 1 ELSE 0)
  <2> HIDE DEF m, S
  <2> QED
    BY <1>2, <1>4, CopiesAppend
<1>8. Arrived(i, j, c) = Copies(receiver_queue[j], S)
  BY DEF Arrived
<1>9. Copies(Append(receiver_queue[j], m), S) = Copies(receiver_queue[j], S)
  <2> HIDE DEF m, S
  <2> QED
    BY <1>3, <1>4, <1>7, <1>8
<1> QED
  BY <1>6, <1>9 DEF Arrived

\* getCoin puts one share in the way of each node.
LEMMA GetCoinAdds ==
  ASSUME IndInv, NEW k \in Correct, NEW d \in Coin, GetCoin(k, d),
         NEW i \in Correct, NEW j \in Correct, NEW c \in Coin
  PROVE  /\ Queued(i, j, c)' = Queued(i, j, c) + (IF i = k /\ c = d THEN 1 ELSE 0)
         /\ c \in asked'[i] <=> (c \in asked[i] \/ (i = k /\ c = d))
         /\ i = k /\ c = d => c \notin asked[i]
<1> DEFINE msg   == [src |-> k, round |-> d[1], epoch |-> d[2], good |-> TRUE]
           batch == [n \in 1 .. N |-> <<n - 1, msg>>]
           S     == ShareOf(i, c)
<1>1. /\ sender_queue' = [sender_queue EXCEPT ![k] = @ \o batch]
      /\ asked' = [asked EXCEPT ![k] = @ \cup {d}] /\ d \notin asked[k]
  BY DEF GetCoin, Broadcast
<1>2. asked \in [Correct -> SUBSET Coin] /\ sender_queue = [l \in Correct |-> sender_queue[l]]
  BY DEF IndInv, Coins, OnTheWay
<1>3. sender_queue[i] \in Seq(Node \X Share) /\ Queued(i, j, c) \in Nat
  BY Places
<1>4. /\ d \in (0 .. MaxRound) \X (0 .. MaxEpoch)
      /\ c \in (0 .. MaxRound) \X (0 .. MaxEpoch)
  BY DEF Coin
<1>5. msg \in Share
  BY <1>4, NodeAssumption DEF Share, Correct, Node
<1>6. msg \in S <=> i = k /\ c = d
  BY <1>4 DEF ShareOf
<1>7. Queued(i, j, c)' = Queued(i, j, c) + (IF i = k /\ c = d THEN 1 ELSE 0)
  <2>1. CASE i = k
    <3>1. sender_queue'[i] = sender_queue[i] \o batch
      BY <1>1, <1>2, <2>1
    <3>2. \A n \in 1 .. N : <<n - 1, msg>> \in Node \X Share
      <4>1. \A n \in 1 .. N : n - 1 \in Node
        BY NodeAssumption DEF Node
      <4> HIDE DEF msg
      <4> QED
        BY <1>5, <4>1
    <3>3. j \in Node
      BY DEF Correct
    <3>4. Copies(sender_queue[i] \o batch, {j} \X S)
            = Copies(sender_queue[i], {j} \X S) + (IF msg \in S THEN 1 ELSE 0)
      <4> HIDE DEF msg, S
      <4> QED
        BY <1>3, <3>2, <3>3, CopiesBroadcast
    <3> HIDE DEF msg, batch, S
    <3> QED
      BY <1>6, <2>1, <3>1, <3>4 DEF Queued, S
  <2>2. CASE i # k
    <3>1. sender_queue'[i] = sender_queue[i]
      BY <1>1, <1>2, <2>2
    <3> QED
      BY <1>3, <2>2, <3>1 DEF Queued
  <2> QED
    BY <2>1, <2>2
<1>8. c \in asked'[i] <=> (c \in asked[i] \/ (i = k /\ c = d))
  BY <1>1, <1>2
<1> QED
  BY <1>1, <1>7, <1>8

\* The share taken from the queue of its round counts: none of its node does yet.
LEMMA ReceiveKeeps ==
  ASSUME IndInv, NEW k \in Correct, NEW r \in 0 .. MaxRound, Receive(k, r),
         NEW i \in Correct, NEW j \in Correct, NEW c \in Coin,
         Kept(i, j, c) > 0 => Taken(i, j, c) = 0
  PROVE  /\ Kept(i, j, c)' + Taken(i, j, c)' = Kept(i, j, c) + Taken(i, j, c)
         /\ Kept(i, j, c)' \in Nat /\ Taken(i, j, c)' \in Nat
<1> DEFINE share  == Head(per_round[k][r])
           d      == <<r, share.epoch>>
           counts == share.src \in Node /\ verify_share(share)
                       /\ \A s \in received[k][d] : s.src # share.src
           S      == ShareOf(i, c)
           q      == per_round[k][r]
<1>1. /\ r \in DOMAIN per_round[k] /\ q # <<>>
      /\ per_round' = [per_round EXCEPT ![k][r] = Tail(@)]
      /\ received' = IF counts THEN [received EXCEPT ![k][d] = received[k][d] \cup {share}]
                     ELSE received
  BY DEF Receive, Count
<1>2. /\ per_round = [l \in Correct |-> per_round[l]]
      /\ \A l \in Correct : per_round[l] = [x \in DOMAIN per_round[l] |-> per_round[l][x]]
      /\ received = [l \in Correct |-> [e \in Coin |-> received[l][e]]]
  BY DEF IndInv, Begun, OnTheWay, Queues, Counted
<1>3. q \in Seq(InRound(r))
  BY <1>1 DEF IndInv, OnTheWay, Queues
<1>4. share \in InRound(r)
  BY <1>1, <1>3, TakeOne
<1>5. /\ share \in Share /\ share.round = r /\ d \in Coin
      /\ share.src \in Correct => share.good
  BY <1>4 DEF InRound, Backed, Share, Coin
<1>6. /\ Kept(i, j, c) \in Nat /\ Taken(i, j, c) \in Nat
      /\ c \in (0 .. MaxRound) \X (0 .. MaxEpoch) /\ c = <<c[1], c[2]>>
  BY Places DEF Coin
<1>7. share \in S <=> share.src = i /\ d = c
  <2>1. share = [src |-> share.src, round |-> share.round, epoch |-> share.epoch, good |-> share.good]
    BY <1>5 DEF Share
  <2>2. share.good \in BOOLEAN
    BY <1>5 DEF Share
  <2>3. share \in S <=> share.src = i /\ share.round = c[1] /\ share.epoch = c[2]
    BY <2>1, <2>2 DEF ShareOf
  <2>4. d = c <=> share.round = c[1] /\ share.epoch = c[2]
    BY <1>5, <1>6
  <2> QED
    BY <2>3, <2>4
<1> DEFINE moved == IF j = k /\ share \in S THEN 1 ELSE 0
<1>8. Kept(i, j, c) = Kept(i, j, c)' + moved /\ Kept(i, j, c)' \in Nat
  <2>1. CASE j = k /\ r = c[1]
    <3>1. Waiting(j, c) = q /\ Waiting(j, c)' = Tail(q)
      BY <1>1, <1>2, <2>1 DEF Waiting
    <3>2. Copies(q, S) = Copies(Tail(q), S) + (IF Head(q) \in S THEN 1 ELSE 0)
      <4>1. q # <<>>
        BY <1>1
      <4> HIDE DEF q, S
      <4> QED
        BY <1>3, <4>1, CopiesTail
    <3>3. Copies(Tail(q), S) \in Nat
      <4>1. Tail(q) \in Seq(InRound(r))
        BY <1>1, <1>3, TakeOne
      <4> QED
        BY <4>1, CopiesInNat
    <3> QED
      BY <2>1, <3>1, <3>2, <3>3 DEF Kept
  <2>2. CASE ~ (j = k /\ r = c[1])
    <3>1. Waiting(j, c)' = Waiting(j, c)
      BY <1>1, <1>2, <2>2 DEF Waiting
    <3>2. moved = 0
      BY <1>6, <1>7, <2>2
    <3>3. Kept(i, j, c)' = Kept(i, j, c)
      BY <3>1 DEF Kept
    <3> HIDE DEF moved
    <3> QED
      BY <1>6, <3>2, <3>3
  <2> QED
    BY <2>1, <2>2
<1>9. Taken(i, j, c)' = Taken(i, j, c) + moved
  <2>1. CASE j = k /\ share \in S
    <3>1. share.src = i /\ d = c /\ moved = 1 /\ share.good
      BY <1>5, <1>7, <2>1
    <3>2. Kept(i, j, c) > 0
      <4> HIDE DEF moved
      <4> QED
        BY <1>8, <3>1
    <3>3. Taken(i, j, c) = 0
      BY <3>2
    <3>4. \A s \in received[j][c] : s.src # i
      <4> DEFINE T == {s \in received[j][c] : s.src = i}
      <4>1. IsFiniteSet(T) /\ Cardinality(T) = 0
        <5>1. IsFiniteSet(received[j][c])
          BY Places
        <5>2. IsFiniteSet(T)
          BY <5>1, FS_Subset
        <5> QED
          BY <3>3, <5>2 DEF Taken
      <4>2. T = {}
        <5> HIDE DEF T
        <5> QED
          BY <4>1, FS_EmptySet
      <4> QED
        BY <4>2
    <3>5. counts
      BY <2>1, <3>1, <3>4 DEF verify_share, Correct
    <3>6. received'[j][c] = received[j][c] \cup {share}
      <4>1. received' = [received EXCEPT ![k][d] = received[k][d] \cup {share}]
        BY <1>1, <3>5
      <4> HIDE DEF share, d, counts, q
      <4> QED
        BY <1>2, <2>1, <3>1, <4>1
    <3>7. {s \in received'[j][c] : s.src = i} = {share}
      <4> HIDE DEF share, d, counts, q
      <4> QED
        BY <3>1, <3>4, <3>6
    <3>8. Taken(i, j, c)' = 1
      <4> HIDE DEF share
      <4> QED
        BY <3>7, FS_Singleton DEF Taken
    <3> QED
      BY <3>1, <3>3, <3>8
  <2>2. CASE ~ (j = k /\ share \in S)
    <3>1. j = k /\ d = c => share.src # i
      BY <1>7, <2>2
    <3>2. received'[j][c] \in {received[j][c], received[j][c] \cup {share}}
          /\ (~ (j = k /\ d = c) => received'[j][c] = received[j][c])
      <4>1. CASE counts
        <5>1. received' = [received EXCEPT ![k][d] = received[k][d] \cup {share}]
          BY <1>1, <4>1
        <5> HIDE DEF share, d, counts, q
        <5>2. CASE j = k /\ d = c
          BY <1>2, <5>1, <5>2
        <5>3. CASE j # k
          BY <1>2, <5>1, <5>3
        <5>4. CASE j = k /\ d # c
          BY <1>2, <5>1, <5>4
        <5> QED
          BY <5>2, <5>3, <5>4
      <4>2. CASE ~ counts
        BY <1>1, <4>2
      <4> HIDE DEF share, d, counts, q
      <4> QED
        BY <4>1, <4>2
    <3>3. {s \in received'[j][c] : s.src = i} = {s \in received[j][c] : s.src = i}
      <4> HIDE DEF share, d, counts, q
      <4> QED
        BY <3>1, <3>2
    <3>4. Taken(i, j, c)' = Taken(i, j, c) /\ moved = 0
      BY <2>2, <3>3 DEF Taken
    <3> HIDE DEF moved
    <3> QED
      BY <1>6, <3>4
  <2> QED
    BY <2>1, <2>2
<1> HIDE DEF moved
<1>10. moved \in Nat
  BY DEF moved
<1> QED
  BY <1>6, <1>8, <1>9, <1>10

\* Each step keeps what is on its way or counts, and a getCoin adds to it.
LEMMA OnceStays == IndInv /\ Own /\ OnceEach /\ [Next]_vars => OnceEach'
<1> SUFFICES ASSUME IndInv, Own, OnceEach, [Next]_vars,
                    NEW i \in Correct, NEW j \in Correct, NEW c \in Coin
             PROVE  Queued(i, j, c)' + Arrived(i, j, c)' + Kept(i, j, c)' + Taken(i, j, c)'
                      = IF c \in asked'[i] THEN 1 ELSE 0
  BY DEF OnceEach, Queued, Arrived, Kept, Taken
<1> DEFINE a == Queued(i, j, c)
           b == Arrived(i, j, c)
           w == Kept(i, j, c)
           t == Taken(i, j, c)
           x == Queued(i, j, c)'
           y == Arrived(i, j, c)'
           z == Kept(i, j, c)'
           u == Taken(i, j, c)'
           due == IF c \in asked[i] THEN 1 ELSE 0
<1>1. a \in Nat /\ b \in Nat /\ w \in Nat /\ t \in Nat
  BY Places
<1>2. a + b + w + t = due
  BY DEF OnceEach, Queued, Arrived, Kept, Taken
<1>3. due \in {0, 1}
  OBVIOUS
<1>5. /\ UNCHANGED sender_queue => x = a
      /\ UNCHANGED receiver_queue => y = b
      /\ UNCHANGED per_round => z = w
      /\ UNCHANGED received => u = t
  BY SamePlaces
<1>6. ASSUME UNCHANGED asked, x + y + z + u = a + b + w + t
      PROVE  x + y + z + u = IF c \in asked'[i] THEN 1 ELSE 0
  BY <1>2, <1>6
<1> HIDE DEF a, b, w, t, x, y, z, u, due
<1>7. ASSUME NEW k \in Correct, Sending(k)
      PROVE  x + y + z + u = IF c \in asked'[i] THEN 1 ELSE 0
  <2>1. x + y = a + b /\ x \in Nat /\ y \in Nat /\ z = w /\ u = t
    BY <1>7, SendingKeeps DEF a, b, w, t, x, y, z, u
  <2>2. UNCHANGED asked
    BY <1>7 DEF Sending, coinVars
  <2> QED
    BY <1>1, <1>6, <2>1, <2>2
<1>8. ASSUME NEW k \in Correct, Receiving(k)
      PROVE  x + y + z + u = IF c \in asked'[i] THEN 1 ELSE 0
  <2>1. y + z = b + w /\ y \in Nat /\ z \in Nat /\ x = a /\ u = t
    BY <1>8, ReceivingKeeps DEF a, b, w, t, x, y, z, u
  <2>2. UNCHANGED asked
    BY <1>8 DEF Receiving, coinVars
  <2> QED
    BY <1>1, <1>6, <2>1, <2>2
<1>9. ASSUME NEW k \in Correct, NextRound(k)
      PROVE  x + y + z + u = IF c \in asked'[i] THEN 1 ELSE 0
  <2>1. z = w
    BY <1>9, NextRoundKeeps DEF w, z
  <2>2. x = a /\ y = b /\ u = t /\ UNCHANGED asked
    BY <1>5, <1>9 DEF NextRound
  <2> QED
    BY <1>1, <1>6, <2>1, <2>2
<1>10. ASSUME NEW k \in Correct, NEW d \in Coin, GetCoin(k, d)
       PROVE  x + y + z + u = IF c \in asked'[i] THEN 1 ELSE 0
  <2>1. y = b /\ z = w /\ u = t
    BY <1>5, <1>10 DEF GetCoin, Broadcast
  <2>2. /\ x = a + (IF i = k /\ c = d THEN 1 ELSE 0)
        /\ c \in asked'[i] <=> (c \in asked[i] \/ (i = k /\ c = d))
        /\ i = k /\ c = d => c \notin asked[i]
    BY <1>10, GetCoinAdds DEF a, x
  <2>3. CASE i = k /\ c = d
    <3>1. due = 0 /\ c \in asked'[i] /\ x = a + 1
      BY <2>2, <2>3 DEF due
    <3> QED
      BY <1>1, <1>2, <2>1, <3>1
  <2>4. CASE ~ (i = k /\ c = d)
    <3>1. (c \in asked'[i] <=> c \in asked[i]) /\ x = a + 0
      BY <2>2, <2>4
    <3> QED
      BY <1>1, <1>2, <2>1, <3>1 DEF due
  <2> QED
    BY <2>3, <2>4
<1>11. ASSUME NEW k \in Correct, NEW d \in Coin, ReturnCoin(k, d)
       PROVE  x + y + z + u = IF c \in asked'[i] THEN 1 ELSE 0
  <2>1. x = a /\ y = b /\ z = w /\ u = t /\ UNCHANGED asked
    BY <1>5, <1>11 DEF ReturnCoin, transportVars
  <2> QED
    BY <1>6, <2>1
<1>12. ASSUME NEW k \in Correct, NEW r \in 0 .. MaxRound, Receive(k, r)
       PROVE  x + y + z + u = IF c \in asked'[i] THEN 1 ELSE 0
  <2>1. x = a /\ y = b /\ UNCHANGED asked
    BY <1>5, <1>12 DEF Receive
  <2>2. w > 0 => t = 0
    BY <1>1, <1>2, <1>3
  <2>3. z + u = w + t /\ z \in Nat /\ u \in Nat
    BY <1>12, <2>2, ReceiveKeeps DEF w, t, z, u
  <2> QED
    BY <1>1, <1>6, <2>1, <2>3
<1>13. ASSUME NEW p \in FaultySends, FaultyShare(p[1], p[2])
       PROVE  x + y + z + u = IF c \in asked'[i] THEN 1 ELSE 0
  <2>1. y = b
    BY <1>13, FaultyShareKeeps DEF b, y
  <2>2. x = a /\ z = w /\ u = t /\ UNCHANGED asked
    BY <1>5, <1>13 DEF FaultyShare, Inject
  <2> QED
    BY <1>6, <2>1, <2>2
<1>14. ASSUME UNCHANGED vars
       PROVE  x + y + z + u = IF c \in asked'[i] THEN 1 ELSE 0
  <2>1. x = a /\ y = b /\ z = w /\ u = t /\ UNCHANGED asked
    BY <1>5, <1>14 DEF vars, transportVars, coinVars
  <2> QED
    BY <1>6, <2>1
<1>15. x + y + z + u = IF c \in asked'[i] THEN 1 ELSE 0
  BY <1>7, <1>8, <1>9, <1>10, <1>11, <1>12, <1>13, <1>14 DEF Next
<1> QED
  BY <1>15 DEF x, y, z, u

\* Nothing is on its way at first.
LEMMA OnceAtFirst == Init => Own /\ OnceEach
<1> SUFFICES ASSUME Init PROVE Own /\ OnceEach
  OBVIOUS
<1> USE DEF Init, TransportInit
<1>1. Own
  BY DEF Own
<1>2. OnceEach
  <2> SUFFICES ASSUME NEW i \in Correct, NEW j \in Correct, NEW c \in Coin
               PROVE  /\ Copies(sender_queue[i], {j} \X ShareOf(i, c)) = 0
                      /\ Copies(receiver_queue[j], ShareOf(i, c)) = 0
                      /\ Copies(Waiting(j, c), ShareOf(i, c)) = 0
                      /\ Cardinality({s \in received[j][c] : s.src = i}) = 0
                      /\ c \notin asked[i]
    <3>1. 0 + 0 + 0 + 0 = 0
      OBVIOUS
    <3> QED
      BY <3>1 DEF OnceEach
  <2>1. sender_queue[i] = <<>> /\ receiver_queue[j] = <<>> /\ Waiting(j, c) = <<>>
    BY DEF Waiting
  <2>2. {s \in received[j][c] : s.src = i} = {}
    OBVIOUS
  <2> QED
    BY <2>1, <2>2, CopiesEmpty, FS_EmptySet
<1> QED
  BY <1>1, <1>2

\* No share of a correct node is lost or doubled on its way to a correct node.
THEOREM OnceEachTheorem == Spec => []OnceEach
BY OnceAtFirst, OwnStays, OnceStays, Invariance, PTL DEF Spec
=============================================================================
