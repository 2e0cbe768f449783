---------------------------- MODULE MCCommonCoin ----------------------------
(***************************************************************************)
(* Three nodes with keys for two shares, the last one faulty: sending      *)
(* shares of its own and worse, or down.                                   *)
(***************************************************************************)
EXTENDS CommonCoin

CONSTANT malformed

ShareFrom(src, r, good) == [src |-> src, round |-> r, epoch |-> 0, good |-> good]

\* To node 0 a good share, for a round it may not be in yet, and a bad one; to node 1
\* what ends a receive greenlet: a malformed message, and a share of node 3, which
\* does not exist.
GoodAndBad ==
  {<<0, ShareFrom(2, 1, TRUE)>>, <<0, ShareFrom(2, 0, FALSE)>>,
   <<1, malformed>>, <<1, ShareFrom(3, 0, TRUE)>>}

\* A message that ends a greenlet is the only one that the faulty node sends.
Ends(msg)   == msg \in Malformed \/ msg.src \notin Node
InFlight(j) == ToSet(receiver_queue[j]) \cup UNION {ToSet(per_round[j][r]) : r \in DOMAIN per_round[j]}
Harmed      == \E j \in Correct : Deaf(j, MaxRound) \/ \E msg \in InFlight(j) : Ends(msg)
EndsAlone   == injected' = MaxInjected => ~ Harmed'

Nothing == {}
=============================================================================
