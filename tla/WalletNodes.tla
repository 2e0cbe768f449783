---------------------------- MODULE WalletNodes ----------------------------
(***************************************************************************)
(* The nodes of the wallet: the loop of HoneyBadgerBFT.run with its        *)
(* transaction buffer, the queue of the user service in front of it and    *)
(* the block files behind it (honeybadgerbft/core/honeybadger.py,          *)
(* UserServiceHandler/user_service_server.py, hbbft_server.py).            *)
(*                                                                         *)
(* _run_round is represented by what it returns: the nodes get the same    *)
(* batches of at least N-f nodes. Every node here runs the code; what a    *)
(* faulty one could propose are transactions like those of the users.      *)
(***************************************************************************)
EXTENDS Ledger, FiniteSets, FiniteSetsExt

CONSTANTS
  Node,      \* the nodes
  f,         \* the fault tolerance
  Request,   \* the calls by which users send transactions
  Txn,       \* the transaction of each; those of two requests may be equal
  Home,      \* the node to whose user service each is sent
  BatchSize, \* B: how many transactions a node proposes
  MaxRound   \* bound: no node starts a round after this one

ASSUME NodeAssumption  == IsFiniteSet(Node) /\ f \in Nat /\ Cardinality(Node) >= 3 * f + 1
ASSUME RequestAssumption ==
  IsFiniteSet(Request) /\ Txn \in [Request -> Transaction] /\ Home \in [Request -> Node]
ASSUME BatchAssumption == BatchSize \in Nat \ {0}
ASSUME RoundAssumption == MaxRound \in Nat

VARIABLES
  unsent,    \* the requests still to be made
  database,  \* per node: the queue of its user service, the requests in it
  buffer,    \* per node: transaction_buffer, likewise
  round,     \* per node
  running,   \* per node: it is inside _run_round
  proposal,  \* per node: the requests whose transactions are in its current round
  saving,    \* per node: the valid transactions of its round that are not saved yet
  agreed,    \* the transactions of the rounds agreed on so far
  files      \* per node: its block files

\* The transactions of users. The code knows nothing of requests: a queue or a list
\* may hold a transaction twice, a set of transactions may not.
Tx == {Txn[q] : q \in Request}

vars == <<unsent, database, buffer, round, running, proposal, saving, agreed, files>>

Init ==
  /\ unsent   = Request
  /\ database = [i \in Node |-> {}]
  /\ buffer   = [i \in Node |-> {}]
  /\ round    = [i \in Node |-> 0]
  /\ running  = [i \in Node |-> FALSE]
  /\ proposal = [i \in Node |-> {}]
  /\ saving   = [i \in Node |-> <<>>]
  /\ agreed   = <<>>
  /\ files    = [i \in Node |-> <<>>]

-----------------------------------------------------------------------------

\* PayToCall and Register put what they are sent into the queue.
Submit(q) ==
  /\ q \in unsent
  /\ unsent'   = unsent \ {q}
  /\ database' = [database EXCEPT ![Home[q]] = @ \cup {q}]
  /\ UNCHANGED <<buffer, round, running, proposal, saving, agreed, files>>

\* Samples without the limit.
WholeBuffer(S) == {S}

\* What a node may take from its buffer: a sample of B, or all.
Samples(S) == IF Cardinality(S) > BatchSize THEN kSubset(BatchSize, S) ELSE {S}

\* The head of the loop: a proposal is taken from the buffer, the buffer is
\* filled from the user service, and _run_round begins.
StartRound(i) ==
  /\ ~ running[i]
  /\ saving[i] = <<>>
  /\ round[i] <= MaxRound
  /\ \E sample \in Samples(buffer[i]) : proposal' = [proposal EXCEPT ![i] = sample]
  /\ buffer'   = [buffer EXCEPT ![i] = @ \cup database[i]]
  /\ database' = [database EXCEPT ![i] = {}]
  /\ running'  = [running EXCEPT ![i] = TRUE]
  /\ UNCHANGED <<unsent, round, saving, agreed, files>>

\* The nodes in round r that agreement on round r may include.
Proposers(r) == {i \in Node : running[i] /\ round[i] = r}

\* _run_round comes to a set of at least N-f proposals, the same at every node:
\* a set of transactions once they are split and collected (lines 264-268), in
\* which equal ones are one.
Agree ==
  LET r == Len(agreed)
  IN /\ r <= MaxRound
     /\ \E S \in SUBSET Proposers(r) :
          /\ Cardinality(S) >= Cardinality(Node) - f
          /\ agreed' = Append(agreed, {Txn[q] : q \in UNION {proposal[i] : i \in S}})
     /\ UNCHANGED <<unsent, database, buffer, round, running, proposal, saving, files>>

\* A buffer that forgets its own proposal, agreed on or not; and one that keeps all.
ForgetOwn(S, own, new) == {q \in S \ own : Txn[q] \notin new}
KeepAll(S, own, new)   == S

\* What is left of a buffer once the transactions new are agreed on: line 331.
KeepRest(S, own, new) == {q \in S : Txn[q] \notin new}

\* The transactions of a round that has ended for node i.
NewTx(i) == agreed[round[i] + 1]

\* A node whose _run_round has returned.
Returned(i) == running[i] /\ round[i] < Len(agreed)

\* _run_round returns: the transactions are validated in the order in which this
\* process iterates the set new_single_tx, on the files in the order in which it
\* lists them. The buffer and the round, which no one reads while the node saves,
\* change here as well.
Validate(i) ==
  /\ Returned(i)
  /\ \E order \in SetToSeqs(NewTx(i)), listed \in ListOrders(files[i]) :
       saving' = [saving EXCEPT ![i] = Valid(read_block(files[i], listed), NewTx(i), order)]
  /\ buffer'   = [buffer EXCEPT ![i] = KeepRest(@, proposal[i], NewTx(i))]
  /\ round'    = [round EXCEPT ![i] = @ + 1]
  /\ running'  = [running EXCEPT ![i] = FALSE]
  /\ proposal' = [proposal EXCEPT ![i] = {}]
  /\ UNCHANGED <<unsent, database, agreed, files>>

\* Lines 327-328: the valid transactions are saved one by one.
SaveNext(i) ==
  /\ saving[i] # <<>>
  /\ files'  = [files EXCEPT ![i] = save_block(@, Head(saving[i]))]
  /\ saving' = [saving EXCEPT ![i] = Tail(@)]
  /\ UNCHANGED <<unsent, database, buffer, round, running, proposal, agreed>>

Next ==
  \/ \E q \in Request : Submit(q)
  \/ \E i \in Node : StartRound(i)
  \/ Agree
  \/ \E i \in Node : Validate(i) \/ SaveNext(i)

Spec == Init /\ [][Next]_vars

-----------------------------------------------------------------------------
(* Properties.                                                             *)

\* The transactions in the files of node i, oldest file first, and its balances.
Lines(i) == FlattenSeq([k \in DOMAIN files[i] |-> files[i][k].txs])
Saved(i) == ToSet(Lines(i))
Balance(i, a) == get_balance(Lines(i), a)

\* The state has the types of the code: proposals have at most B transactions,
\* and the files hold transactions.
TypeOK ==
  /\ unsent \subseteq Request
  /\ database \in [Node -> SUBSET Request]
  /\ buffer   \in [Node -> SUBSET Request]
  /\ round    \in [Node -> 0 .. MaxRound + 1]
  /\ running  \in [Node -> BOOLEAN]
  /\ proposal \in [Node -> {S \in SUBSET Request : Cardinality(S) <= BatchSize}]
  /\ \A i \in Node : ToSet(saving[i]) \subseteq Tx
  /\ \A r \in DOMAIN agreed : agreed[r] \subseteq Tx
  /\ \A i \in Node : Saved(i) \subseteq Tx

\* The node that has been sent a request still has it, or will be sent it.
Held(q)    == q \in database[Home[q]] \cup buffer[Home[q]]
Waiting(q) == q \in unsent \/ Held(q)

\* A node keeps what its user service has taken until it ends a round that has
\* agreed on an equal transaction: a proposal that the agreement leaves out is
\* proposed again. (Not until a round agrees on it for each request: of two equal
\* payments in a buffer the code keeps neither when one of them is agreed on.)
NothingForgotten ==
  [][\A q \in Request : Waiting(q) /\ ~ Waiting(q)' =>
       LET i == Home[q]
       IN round'[i] = round[i] + 1 /\ Txn[q] \in agreed[round'[i]]]_vars

\* No more rounds agree on a transaction than requests for it have been made,
\* whatever rounds leave a node out: a round that agrees on a request takes it out
\* of the buffer before its node proposes again.
AgreedOnce ==
  \A t \in Tx :
    Cardinality({r \in DOMAIN agreed : t \in agreed[r]})
      <= Cardinality({q \in Request \ unsent : Txn[q] = t})

\* The files of a node are a hash chain of full files: a file is no longer
\* written to once a later one holds its hash.
Chained ==
  \A i \in Node : \A k \in DOMAIN files[i] :
    /\ files[i][k].prev = IF k = 1 THEN Genesis ELSE files[i][k - 1]
    /\ Len(files[i][k].txs) \in 1 .. BlockSize
    /\ k < Len(files[i]) => Len(files[i][k].txs) = BlockSize

\* Comment, lines 270-272: transactions that spend above the balance of the user
\* are rejected. No transaction in the files, read in the order in which they were
\* saved, takes an account below zero.
NoOverdraft ==
  \A i \in Node, a \in Acct : \A k \in 0 .. Len(Lines(i)) :
    get_balance(SubSeq(Lines(i), 1, k), a) >= 0

\* Both accounts of a payment in the files are registered in a line above it,
\* in whatever order the transactions of its round were validated.
PartiesRegistered ==
  \A i \in Node : \A k \in DOMAIN Lines(i) :
    LET t == Lines(i)[k]
    IN ~ IsAccount(t) => {t.src, t.dst} \subseteq Registered(SubSeq(Lines(i), 1, k - 1))

\* Comment in user_service_server.py, line 35: each node has the same files, so
\* that any node can say the balance of an account. Two nodes that have finished
\* the same rounds agree on every balance.
SameBalances ==
  \A i, j \in Node : round[i] = round[j] /\ saving[i] = <<>> /\ saving[j] = <<>> =>
    \A a \in Acct : Balance(i, a) = Balance(j, a)
=============================================================================
