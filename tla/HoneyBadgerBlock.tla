-------------------------- MODULE HoneyBadgerBlock --------------------------
(***************************************************************************)
(* One round of honeybadgerbft/core/honeybadger_block.py on top of         *)
(* commonsubset: a node proposes a threshold encrypted batch, gets the     *)
(* common subset, broadcasts a decryption share of each of its ciphertexts *)
(* and decrypts with the shares of the first f+1 nodes it hears.           *)
(*                                                                         *)
(* Encryption is represented by what it needs: K good shares. A node that  *)
(* fails an assertion of honeybadger_block leaves run() and has "raised".  *)
(***************************************************************************)
EXTENDS CommonSubset

CONSTANT K  \* the threshold of the encryption keys, PK.k

ASSUME KeyAssumption == K \in Nat \ {0}

VARIABLES
  block,        \* per node: "start", "acs", "shares", "returned" or "raised"
  shares_sent,  \* the correct nodes that have broadcast my_shares
  spoiled       \* the correct nodes that have taken a bad share

blockVars == <<block, shares_sent, spoiled>>
vars      == <<acsVars, blockVars>>

Init ==
  /\ ACSInit
  /\ block       = [i \in Correct |-> "start"]
  /\ shares_sent = {}
  /\ spoiled     = {}

-----------------------------------------------------------------------------

\* The proposal is encrypted and put into the broadcast of this node.
Propose(i) ==
  /\ block[i] = "start"
  /\ block' = [block EXCEPT ![i] = "acs"]
  /\ Fix(i, "value")
  /\ UNCHANGED <<shares_sent, spoiled>>

\* SendShares that does not wait for the set.
SendEarly(i) ==
  /\ block[i] = "acs"
  /\ block'       = [block EXCEPT ![i] = "shares"]
  /\ shares_sent' = shares_sent \cup {i}
  /\ UNCHANGED <<acsVars, spoiled>>

\* acs_out returns; decrypt_share asserts that every value is a ciphertext, and
\* my_shares is broadcast.
SendShares(i) ==
  /\ block[i] = "acs"
  /\ acs[i] = "returned"
  /\ IF \E j \in Ones(i) : fixed[j] = "garbage"
     THEN /\ block' = [block EXCEPT ![i] = "raised"]
          /\ UNCHANGED shares_sent
     ELSE /\ block' = [block EXCEPT ![i] = "shares"]
          /\ shares_sent' = shares_sent \cup {i}
  /\ UNCHANGED <<acsVars, spoiled>>

Whole  == N      \* mutant of Wanted: the shares of every node
Wanted == f + 1  \* line 78

\* The loop of lines 77-84 ends with the shares of the first Wanted nodes that
\* are heard, each counted once: any that have sent theirs, faulty ones with good
\* or bad shares. combine_shares asserts each share, and lagrange their number.
Decrypt(i, received, good) ==
  /\ block[i] = "shares"
  /\ received \subseteq shares_sent \cup Faulty
  /\ Cardinality(received) = Wanted
  /\ received \subseteq shares_sent => good
  /\ spoiled' = IF good THEN spoiled ELSE spoiled \cup {i}
  /\ block' = [block EXCEPT ![i] =
       IF good /\ Cardinality(received) = K THEN "returned" ELSE "raised"]
  /\ UNCHANGED <<acsVars, shares_sent>>

\* The greenlets of a round are there once it has begun.
InRound(i) == block[i] # "start"

Next ==
  \/ \E i \in Correct : Propose(i) \/ SendShares(i)
  \/ \E i \in Correct, received \in SUBSET Node, good \in BOOLEAN :
       Decrypt(i, received, good)
  \/ \E j \in Faulty, outcome \in Outcomes : Fix(j, outcome) /\ UNCHANGED blockVars
  \/ \E j \in Node, b \in Bit : Decide(j, b) /\ UNCHANGED blockVars
  \/ \E i \in Correct, j \in Node :
       InRound(i) /\ (RecvRbc(i, j) \/ RecvAba(i, j)) /\ UNCHANGED blockVars
  \/ \E i \in Correct : Finish(i) /\ UNCHANGED blockVars

Spec == Init /\ [][Next]_vars

\* A broadcast that some correct node has, or whose leader is correct, reaches
\* every node (Broadcast!Bound).
Bound(j) == j \in Correct \/ \E i \in Correct : j \in rbc_values[i]

\* An agreement ends when all correct nodes have given it an input.
AllIn(j) == \A i \in Correct : aba_input[i][j] # None

\* What a correct node does by itself, or when what the protocols below promise
\* has arrived.
NodeStep(i) ==
  \/ Propose(i) \/ SendShares(i)
  \/ \E received \in SUBSET Correct : Decrypt(i, received, TRUE)
  \/ /\ InRound(i)
     /\ \E j \in Node : (Bound(j) /\ RecvRbc(i, j)) \/ RecvAba(i, j)
     /\ UNCHANGED blockVars
  \/ Finish(i) /\ UNCHANGED blockVars

\* An agreement that ends, ends for good: no greenlet needs a fairness of its own,
\* since every step of a node is one fewer to take. Faulty nodes need not do anything.
\* That agreements with all inputs end is assumed here: BinaryAgreement says when.
Fairness ==
  /\ \A i \in Correct : WF_vars(NodeStep(i))
  /\ WF_vars(\E j \in Node, b \in Bit : AllIn(j) /\ Decide(j, b) /\ UNCHANGED blockVars)

FairSpec == Spec /\ Fairness

-----------------------------------------------------------------------------
(* Properties.                                                             *)

TypeOK ==
  /\ ACSTypeOK
  /\ block       \in [Correct -> {"start", "acs", "shares", "returned", "raised"}]
  /\ shares_sent \subseteq Correct
  /\ spoiled     \subseteq Correct

\* The reason for encrypting proposals: until the set is agreed on, the faulty
\* nodes and the shares that are on the network cannot decrypt any of them.
SecretUntilAgreed ==
  Cardinality(shares_sent \cup Faulty) >= K => ChosenSet # {}

\* A faulty node has put something into the round that is not what the code sends.
Misbehaved ==
  \/ \E j \in Faulty : fixed[j] \in {"garbage", "failure"}
  \/ spoiled # {}

\* Every node returns its block, whatever faulty nodes leave out, unless one of
\* them sends something malformed.
Termination == <>(Misbehaved \/ \A i \in Correct : block[i] = "returned")
=============================================================================
