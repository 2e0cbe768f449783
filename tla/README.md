# Specifications of hbbft-wallet

A wallet replicated by HoneyBadgerBFT: users register accounts and pay each
other through any node, the nodes agree on batches of transactions round by
round, and every node validates the batches and appends them to its own block
files. This directory holds TLA+ specifications of the protocols and of the
wallet, TLC configurations that check small instances, and TLAPS proofs.

Paths below leave out the prefix
`src/hbbft/server/HoneyBadgerBFT-Python/honeybadgerbft/` for `core/` and `crypto/`,
and `src/` otherwise. N is the number of nodes, f the number of faulty ones the
code is configured for (4 and 1 by default, `hbbft/common/setting.py`).

## 1. The system

| Component | State | Operations | Talks to |
|---|---|---|---|
| Reliable broadcast `core/reliablebroadcast.py` | `fromLeader`, `stripes`, `echoCounter`, `echoSenders`, `ready`, `readySent`, `readySenders` | leader's input; VAL, ECHO, READY; return | common subset through `rbc_out` |
| Binary agreement `core/binaryagreement.py` | `est_values`, `aux_values`, `conf_values`, `est_sent`, `bin_values`; `est`, `r`, `values`, `already_decided` of the main loop | input; EST, AUX, CONF; coin; decide; quit | common subset, common coin |
| Common coin `core/commoncoin.py` | shares received per round, one-place output queues | COIN; `getCoin` | binary agreement, threshold signatures |
| Common subset `core/commonsubset.py` | `aba_inputted`, `aba_values`, `rbc_values` | one greenlet per broadcast, one per agreement | N broadcasts, N agreements |
| Block `core/honeybadger_block.py` | decryption shares received | encrypt, agree, exchange shares, decrypt | common subset, threshold encryption |
| Node loop `core/honeybadger.py` `run` | `round`, `transaction_buffer`, message queue per round | propose, validate, save, next round | user service, block, router |
| Block files `core/honeybadger.py` | files of up to 100 transactions, each with the hash of the one before | `save_block`, `read_block`, `get_balance`, `get_accounts` | node loop; user service in another process |
| User service `hbbft/server/UserServiceHandler/` | queue of transactions | `PayToCall`, `Register`, `GetTransactions`, `GetBalanceCall`, `GetAccountsCall` | clients, node loop, block files |
| User client `hbbft/client/` | accounts it has made | register and wait, pay | user service |
| Backend sender and receiver, router `hbbft/server/BackendServiceHandler/`, `hbbft_server.py` | one queue out, one queue in | send, receive, encode | other nodes over gRPC |
| Threshold cryptography `crypto/` | keys | sign, verify, combine; encrypt, share, combine | common coin, block |

A round of a node: `run` samples up to B transactions of its buffer, fetches new
ones from the user service, and calls `_run_round`. That starts N broadcasts, N
agreements with a coin each, and a common subset; the block encrypts the
proposal, broadcasts it, waits for the common subset and exchanges decryption
shares. `run` splits the decrypted batches into a set of transactions, validates
them against the block files, saves the valid ones and removes all of them from
its buffer.

What is hard here, and what must hold:

* Broadcast: a faulty leader sends different values, or to some nodes only;
  messages arrive in any order; nodes return and stop while others still need
  stripes. *Agreement, validity, totality.*
* Agreement: a receive greenlet changes `bin_values` under a main loop that
  waits between its tests; faulty nodes are counted under both values; nodes are
  in different rounds; nodes quit. *Agreement, validity, termination of the
  exchanges, a quit that leaves the others their decision.*
* Common subset: inputs of two greenlets, zeros only after N-f ones. *The same
  set everywhere, of at least N-f proposals, all of them delivered.*
* Node loop: proposals that a round leaves out, transactions that arrive during
  a round, nodes a round behind. *A request stays until a round agrees on an equal
  transaction; no transaction is agreed on more often than it was requested.*
* Ledger: the validity of a transaction depends on the order in which a set is
  iterated and on balances recomputed from files in the order in which the
  operating system lists them. *No overdraft, one registration per account, the
  same balances at every node, an intact chain of files.*
* Transport and processes: a sender thread that ends with the first failed call,
  receive loops that end with the first message they cannot take, a node that
  restarts with an empty ledger, streams that break.

`PROJECT.json` lists the hazards at their lines, and the properties for them.

## 2. Modules

| Module | Models | Extends or uses |
|---|---|---|
| `Broadcast` | what the callers of a reliable broadcast rely on | |
| `ReliableBroadcast` | `reliablebroadcast.py` | implements `Broadcast` |
| `AgreedBit` | what the callers of `binaryagreement.py` rely on | |
| `BinaryAgreement` | `binaryagreement.py` | implements `AgreedBit` |
| `AgreedSet` | what the callers of `commonsubset.py` rely on | |
| `CommonSubset` | `commonsubset.py` and the instances of `_run_round` | implements `AgreedSet` |
| `HoneyBadgerBlock` | `honeybadger_block.py` | `CommonSubset` |
| `Transport` | sender thread, calls, receiver queue, router, queues per round | |
| `SharedCoin` | what the callers of `commoncoin.py` rely on | |
| `CommonCoin` | `commoncoin.py` | `Transport`, implements `SharedCoin` |
| `Ledger` | block files, balances, validation of a batch | |
| `WalletNodes` | buffers, rounds and files of the nodes | `Ledger` |
| `UserService` | the service's calls and a client | `WalletNodes` |
| `PrimeField`, `ThresholdKeys`, `ShoupSignatures`, `MillerRabin` | threshold keys, Shoup's signatures, the primality test | |
| `MerkleTree` | erasure coding and Merkle branches, of the broadcast and of `misc/includeTransaction.py` | `PrimeField` |
| `Wire`, `Codec` | tags, queues and group elements on the wire and in key files; the binary formats of `misc/utils.py` | |
| `Algorithms` | one call at a time of everything in the three lines above | |
| `...Proofs` | theorems about the module they are named after, `WalletProofs` about `WalletNodes` and `UserService` | |
| `Foundations` | what the proofs rest on: recursion over finite data, and the algebra of `PrimeField` | `PrimeField` |
| `MC...` | instances for TLC | |

How they fit together: the wallet relies on `AgreedSet`, which `CommonSubset`
implements, which relies on `Broadcast` (implemented by `ReliableBroadcast`) and on
`AgreedBit` (implemented by `BinaryAgreement`), which relies on `SharedCoin`, which
`CommonCoin` implements over `Transport`. Each module stands on what the one below it has been shown
to promise, so that no run has to carry the whole stack.

**ReliableBroadcast.** `LeaderInput` is lines 195-210, `RecvVal`, `RecvEcho` and
`RecvReady` are the three branches of the receive loop, each with its early
`continue`s as guards and with the READY it may send and the return it may end
in. The thresholds are the four definitions of lines 179-182. A value is its
Merkle root, a branch with its stripe is the index of a leaf: a hash without
collisions lets `merkleVerify` accept it at that index only (`ProvesOwnLeaf`).
`decode_output` succeeds exactly for a root that commits to an encoding
(`Codeword`), or raises the assertion of line 229 (`ok = FALSE`), whatever stripes
it decodes (`DecodedAlike`). Messages of correct nodes stay in `msgs` and may be
delivered at any time, in any order; `FaultyMsgs` is the set of messages the
faulty nodes may send, and each node may or may not receive each. A repeated
message is covered: handlers test for it. `FaultyMsgs` are well formed; an ECHO or
READY whose payload has the wrong type is left out (section 7).

**Broadcast.** One root is chosen, once, and delivered; the choice is the leader's
input if the leader is correct. Its fairness is all-or-nothing delivery.

**BinaryAgreement.** At the level of thresholds: the messages of a node are its
entries in `est_sent`, `aux_sent` and `conf_msg`, and a test on the messages
received so far is a test that some subset of those sent passes. A faulty node is
counted under every value, for each receiver separately. `RecvEst` is the EST
branch of `_recv` at the message that reaches a threshold. `SendAux`, `SendConf`,
`CallCoin` and `RecvCoin` are the main loop between its four waits; the sums of
lines 50 and 210 count messages and not nodes, as in the code. The coin is a
constant sequence of bits, the same at every node, that returns once f+1 nodes
have asked for it: what `SharedCoin` promises, and `CoinComes`. `Raise` is every error
path of `_recv`: an EST, AUX or CONF of a faulty node that repeats one, or fails an
assertion, ends the receive greenlet (lines 15-24, 90-106, 130-137). From then on the
node's main loop goes on with what had been sent to it by then, which `heard`
keeps; its coin has a receive loop of its own and comes as before. `Victims` are the
nodes to which faulty ones may send such a message.

**AgreedBit.** The nodes are given inputs and decide, each once and after its own
input, one bit that is the input of one of them, once N-f nodes take part. Rounds
and coins are gone. A faulty node counts as one that takes part.

**CommonSubset.** A broadcast fixes one outcome (a value, garbage that is
delivered like a value, or a failure) and an agreement fixes one bit that a
correct node has put in, once N-f nodes have an input or are faulty. `RecvRbc` and
`RecvAba` are the two greenlets per instance between their blocking calls, each
with the inputs it gives; an agreement has nothing for a node that has given it no
input, since `binaryagreement` waits for that first (`RecvAba`); `Finish` is the end of `commonsubset` after `joinall`. A
broadcast that has failed is one that no `RecvRbc` handles.

**AgreedSet.** One set of at least N-f proposers is chosen, once, and returned.
`chosen` is the set of agreements with a 1, once all of them have ended.

**HoneyBadgerBlock.** `Propose` encrypts and gives the broadcast its input,
`SendShares` is what follows `acs_out` up to the broadcast of the shares,
`Decrypt` the loop of lines 77-84 with the first f+1 nodes it hears, and the
combination. A failed assertion leaves `run()`: `"raised"`. A ciphertext needs K
good shares; the documentation says K = N-2f (`README.md:34`), the code waits for
f+1, which is the same for N = 3f+1 only. In `honeybadger_block.py` a round with
K other than f+1 cannot decrypt, and neither can the model.

**Transport.** `Broadcast` fills the sender queue, `SendNext` is one turn of the only
sender thread: take, call, and go on when the call has returned, or end with its
error (`Down`: nothing listens there). `Arrive` is the receiver's queue behind the
call, `Recv` is `run._recv` with the router's `_recv` in front of it and its queues per
round: a message without an operation, of an unknown type or with a payload that cannot be
deserialized (`Malformed`) raises in it, and the greenlet ends (`receiver`). Faulty
nodes send with `Inject`, anything that does not name a correct node as its sender.

Named senders. The call carries the sender's id in the message (`src_node_id`), and
the receiver takes it from there unchecked (`hbbft_server.py:137`; the channels are
`insecure_channel`). That no faulty node uses the id of a correct one is an
**assumption** of every protocol module here: `Inject` and `FaultySends` in `Transport`
and `CommonCoin`, `FaultyMsgs` in `ReliableBroadcast`, the counting of faulty nodes as
themselves in `BinaryAgreement` and `HoneyBadgerBlock`. It amounts to authenticated
channels, which the protocols are designed for and no code provides.

**CommonCoin.** `GetCoin` and `ReturnCoin` are `getCoin` before and after it
blocks, `Receive` is one turn of `_recv` with the share at the head of the queue of
its round, which the round's receiver loop passes on (the two are one step here):
it counts the share (`Count`), or fails the assertion that its sender is a node, and
the coin of that round receives nothing any more (`ended`). `NextRound` begins a
round; old rounds go on. A share is good or bad; the combination of good ones is the coin.

**SharedCoin.** A coin comes to each node once, has one value, and comes to nobody
before f+1 nodes, faulty ones included, have asked for it. It may come to a node
that has yet to ask.

**Ledger.** Operators on sequences of files: `save_block`, `read_block` under a
given order of the directory, `get_balance`, `get_accounts` as `Registered`, and
lines 274-325 of `run` as `Replay` (balances of the sources, from the files) and
`Valid` (the batch, in a given order). The hash of a file is represented by the
file. Amounts are integers; the code uses doubles, and the client sends integers.

**WalletNodes.** The queue of a service and the buffer of a node may hold a
transaction several times, while the set of transactions of a round may not. So the
users make requests, each with its transaction (`Txn`) and the node it is sent to
(`Home`); queue, buffer and proposals hold requests, and what is agreed on are
transactions. `KeepRest` is line 331: every request with an agreed transaction leaves
the buffer, proposed or not. `Submit` is `PayToCall` or `Register`; `StartRound` is the head of
the loop of `run`, with `get_txn`; `Agree` stands for `_run_round`, as `AgreedSet`
has it; `Validate` is the loop up to line 325 and `SaveNext` saves one valid
transaction, since another process reads the files meanwhile. The order of the
set of transactions and of the directory is chosen anew by each node. All nodes
run the code here: what a faulty node would propose are transactions, which users
may submit as well.

**UserService.** A call lists the files of node `server_id` (`ListFiles`), reads them
one at a time in any order (`ReadFile`) while the node goes on saving, and
answers (`Answer`). The client registers accounts through any node and pays
between accounts that it has been shown (`Send`).

**Algorithms.** The pure code, one call at a time, with every input of a small range,
those included that a faulty node could choose. Group elements are exponents
modulo a small prime, bytes are elements of a small prime field, over which
zfec's interpolation is the same as over its own. What raises returns no result.

## 3. Plan

Done: all modules above. The order in which they are best extended:

1. A model of more than one directory order for the payments of a ledger with
   several files, together with the repair of the replay (see Findings).
2. Broken streams between node and user service, and restarts, when the code
   comes to handle them.

## 4. Runs

The protocols run with N = 4, f = 1 (the coin: N = 3, which its keys for f+1
shares allow): the smallest size with a faulty node, at which every threshold
(1 < f+1 = 2 < 2f+1 = N-f = 3) is distinct from the next and a quorum has no node
to spare.

| Run | Checks | Instance |
|---|---|---|
| `rbc_faulty_leader` | `TypeOK`, `Agreement`, `ReadyForOneRoot`, `ReturnIsRecoverable` | The leader is faulty: it sends a to two nodes and b to one, ECHOs for both, a READY for b, and an ECHO with a stripe of another node. Two echoes of correct nodes and its own are a quorum, so READYs and returns do happen, for a. |
| `rbc_faulty_follower` | `Validity`, `Termination`, `ImplementsFairBroadcast` | The leader is correct; a follower may forge a VAL, vouch for another root and send a wrong stripe, or do nothing at all. |
| `rbc_totality` | `Totality` | A faulty leader that leaves one node out and helps the others as much as is needed for them to return. |
| `ba_round` | `TypeOK`, `Validity`, `NoOppositeValues`, `Progress`, `ImplementsAgreedBit` | One round, any inputs, any coin, one faulty node, which may end the receive loop of n1. |
| `ba_agreement` | `Agreement`, `DecisionIsProposed`, `QuitLeavesDecision` | Two rounds with coins 1, 0 or 1, 1, and inputs 1, 1 and 0: some nodes decide 1 in the first round while others go on to the second, whose coin lets them decide 0 or lets the first ones quit. |
| `common_subset` | `TypeOK`, `AssertionsHold`, `SecretUntilAgreed`, `Termination`, `ImplementsAgreedSet` | A round of a block, one node faulty, keys for two shares. |
| `coin_rounds` | `TypeOK`, `NeverTooLate`, `CoinIsCommon`, `OnceEach`, `CoinComes`, `ImplementsSharedCoin` | Two rounds of one coin each; the faulty node sends two messages of a good share of the second coin and a bad one of the first, or, instead, to one node a malformed message or a share of a node that does not exist. |
| `coin_node_down` (violated) | `CoinComes` | Two coins of one round; the faulty node is down. |
| `wallet_buffer` | `TypeOK`, `NothingForgotten`, `AgreedOnce`, `Chained`, `ReadsAPrefix`, `ShownAccountsCanPay` | Four nodes, four rounds of which each may leave one node out, proposals of one transaction, files of two. A client registers one account through n1 and one through n2, is shown the files of n1, and makes the same payment three times: twice through n2 and once through n1. |
| `wallet_ledger` | `NoOverdraft`, `PartiesRegistered` | One node, five rounds of up to three transactions: payments both ways between two accounts, some unaffordable, one to nobody, all in one file. |
| `wallet_same_balances` (violated) | `SameBalances` | Two nodes, an account that spends its balance twice. |
| `algorithms` | `ThresholdHolds`, `DecodedAlike`, `ProvesOwnLeaf`, `ArrivesAsSent`, `ShoupHolds` | Groups of order 5 with 3 of 4 players; stripes for 4 nodes of which 2 decode, over bytes modulo 5; trees of 1 to 4 leaves; all numbers up to 600; RSA modulo 77. |

Bounds. `MaxRound` stops nodes before a round; in `BinaryAgreement` a node that
would go on waits in `"bound"`, and the properties leave such a node out. Two
rounds are enough for a decision in one round and a decision, or a quit, in the
next; the step from one round to the next is the same for every round, and the
theorems are for any number. `ba_round` checks the refinement of `AgreedBit` for one
round, in which nodes may decide; over several it is the theorem. An error ends a
receive loop while all correct nodes wait for AUX messages (`RaisesAtAux`), where it
hurts: the node then has too few of them. `ba_agreement` has no victims and gives all
inputs before the first message (`InputsFirst`); the theorems have any victims at any
time. Its view leaves out what the code no longer reads. In
`common_subset` the proposals of n1 and n2 are in at every node before those of n3
and n4 get anywhere, in a fixed order (`TwoFirst`): two instances then race for the
third 1, which gives zeros to the other one, and the theorems cover every other
order. `coin_rounds` bounds the messages of the faulty node (`MaxInjected`), and one that ends
a receive loop is the only one it sends (`EndsAlone`); with
two rounds a node is ahead of another by one, receives shares for a round it has
not begun and for one it has left. In `wallet_buffer` the nodes whose files nobody
reads save without a pause, and of the two nodes that nobody sends anything both
begin their rounds at once and one also ends them at once (`FewOrders`): the other
may fall behind. Of two equal requests at one node a fixed one comes first, as they
could be exchanged. The first round
proposes nothing, because `run` takes its proposal before it fetches transactions,
so the registrations are agreed on in the second round at the earliest and a
payment of the client in the fourth. `wallet_ledger` uses one node, where agreement
is trivial: its properties are about the files of each node by itself. Its
`BlockSize` is 100, as in the code, so that six transactions stay in one file. In
`algorithms`, a tree of three leaves is one whose size is no power of two, messages
are empty, shorter than K, a multiple of K and not, and numbers lie at the ends of
their one- and two-byte fields and one beyond; 561, the first Carmichael number, is
below 600.

Deadlock is checked in `algorithms` only (`CHECK_DEADLOCK FALSE` elsewhere):
broadcasts return, agreements quit, and bounded runs end. That nobody is left
waiting is stated by the liveness properties instead.

Fairness. `Delivery` of `ReliableBroadcast`: a correct node goes on handling the
messages that correct nodes have sent it. The receive loop takes whatever is in
its queue, in-process queues lose nothing, and a handled message disables its own
handler, so weak fairness per receiver gets to all of them. Nothing is assumed of
the messages of faulty nodes, nor that a leader gets an input. It is assumed that no error
ends the loop (section 7). `FairSpec` of
`BinaryAgreement`: each step that the messages of correct nodes enable is taken, as
long as no error has ended the receive loop of the node (`heard`); afterwards only what needs
no message from it: the AUX for a bin value it has, and the coin. `RecvEst` is per round
and value, the steps of the main loop per node. `bv_signal` is
cleared and waited on with no switch of greenlets after the test, so a wake-up is
not lost. `FairSpec` of `HoneyBadgerBlock`: a correct node takes the steps of its
own greenlets; a broadcast reaches it if its leader is correct or another correct
node has the value (totality of `Broadcast`); an agreement ends once every correct
node has given its input (`Progress` in each round, and a coin that hits the common
value sooner or later). That agreements end is an assumption of `Termination`, then: it
says nothing of rounds in which a repeated or malformed message has ended a receive
loop. Faulty nodes need do nothing. `FairSpec` of `CommonCoin`:
the sender thread of a correct node goes on, and so do its greenlets, one of which
is waiting at its queue for whatever comes next. A greenlet or thread that an error
has ended takes no step, and fairness does not ask for one: `CoinComes` names the
receive loops (`Deaf`), and `coin_node_down` shows what a failed call does. The modules
above take from `Transport` that messages arrive and from `CoinComes` that coins come:
to them a node whose sender thread or whole receive loop an error has ended is one more
faulty node, and there must be at most f of those with it.

## 5. Findings

* `coin_node_down`: the thread that sends all messages of a node catches only an
  empty queue (`backend_service_sender.py:82-87`). The first call to a node that is
  down ends it, and with it everything this node would have sent to the others,
  although `README.md:33` has f as the number of failures tolerated. The same
  happens when a node starts before its peers listen.
* `wallet_same_balances`: nodes iterate the same set of strings in different
  orders, since string hashes differ between processes, and accept different
  transactions; their files and balances differ from then on.

Other places where code and text differ, met on the way and not run here:

* One message of one faulty node can end a receive loop, although `README.md:33` has f
  as the number of failures tolerated: a repeated or bad EST, AUX or CONF that of an
  agreement (`binaryagreement.py:15-24, 90-106, 130-137`; a comment there asks whether
  to raise or to go on), a share that names no node that of a coin (`commoncoin.py:47`),
  a message without an operation, of an unknown type or with a payload that cannot be
  deserialized that of the whole node (`hbbft_server.py:141-160`). The models have
  these paths. With all N-f correct nodes needed for a quorum, one such message to one
  node can stop a round for good; `Progress` and `CoinComes` name this case, and they
  fail without it. Safety is not affected.
* Two equal payments count once. The queue and the buffer take both, and the service
  answers both with status true; but equal strings are one in the set of
  `honeybadger.py:264-268`, and line 331 removes every copy from the buffer. Payments
  are equal if accounts, amount and timestamp are, and the timestamp is a float
  (`user_service.proto:34`) whose steps are 128 seconds these days. Sent in one round
  or waiting together in the buffer of one node, they are saved once; sent through two
  nodes, they may be saved twice. `NothingForgotten` says no more than what holds.
* `binaryagreement.py:277-281` claims that at most t nodes are abandoned. Two nodes
  can decide one round before two others and quit together when the coin repeats;
  the others have decided by then (`QuitLeavesDecision`) but never leave their loops.
* `honeybadger.py:292`: with two files, `os.listdir` may give the later one first;
  a registration then overwrites the effect of payments, and a payment above the
  balance is accepted, against the comment of lines 270-272. With one transaction
  per file, register(a, 2), register(b, 0), pay(a, b, 2), pay(a, b, 1) is saved. The
  ledger run therefore has one file.
* `honeybadger.py:172,299,316`: a payment of an account to itself is subtracted from
  the balance that the files give and added to nothing, but leaves the balance alone
  within its round. With 2 in account a, a round with pay(a, a, 2) and pay(a, b, 2)
  saves both, and the files have a at -2.
  The client means to refuse such payments (`user_service_client.py:102`) with
  `is`, which compares two objects that are never the same. The instances leave
  self-payments out.
* `honeybadger.py:299,321`: payments between two source accounts of a round are
  credited for one of them only; a balance may come to -1, which stands for "not
  registered", and a second registration of the account is saved.
* `honeybadger.py:310`: no one refuses a negative amount (`int(input(...))` in the
  client takes it). With amounts below zero a payment of an unregistered account is
  valid, and moves its balance away from -1.
* `includeTransaction.py`: `honestParty` does not reset its counters between
  rounds, and `merkleVerify` does not check the length of a branch; the wallet does
  not use either. `boldyreva_pool.py` prints the result of a verification where
  `boldyreva_gipc.py` returns it.

## 6. Proofs

Theorems for every value of the constants that satisfies the assumptions of the
module they are about: any number of nodes N >= 3f+1 (the coin: f+1 <= N-f) with at
most f faulty ones, any messages of theirs that do not name a correct node, any number
of rounds, transactions, batch and file sizes.

Definitions by recursion over a sequence (the files as one sequence, the balances
line by line, the validation of a batch, the hashes up a branch) are recursive
functions. Their values are
reached without an induction theorem, which would take an operator for its
parameter: `Foundations` shows that a nonempty set of numbers has a least
element (`Least`), so that the numbers at which something holds go up to L
(`UpTo`), and that the function a recursion asks for exists (`Built`). For a fold over
a finite set it shows the same along the subsets of the set (`FoldExists`), and that
any element may come last if the order does not matter (`FoldAny`), so that a sum or
a product is that of any one of its members and the others (`SumOne`, `ProductOne`).

`ReliableBroadcastProofs`

| Theorem | Statement |
|---|---|
| `TypeCorrect` | `Spec => []TypeOK` |
| `AgreementTheorem` | `Spec => []Agreement` |
| `ReadyForOneRootTheorem` | `Spec => []ReadyForOneRoot` |
| `ReturnIsRecoverableTheorem` | `Spec => []ReturnIsRecoverable` |
| `ValidityTheorem` | `Spec => []Validity` |
| `Refinement` | `Spec => ImplementsBroadcast` |

Agreement by itself is not inductive: it says nothing of the READYs that a node
has yet to count. The invariant `IndInv` adds what stands behind each piece of
state. A stripe held from a correct node, and an ECHO sent by one, stand for that
node's `fromLeader` (`StripeTrue`, `EchoTrue`); the counter is the number of
stripes (`EchoCount`); a READY of a correct node has a quorum of echoes behind it
(`ReadyTrue`), also when it was sent on f+1 other READYs, because one of those is
from a correct node; READYs counted from correct nodes were sent (`ReadyHeard`);
what is returned has 2f+1 READYs and N-2f echoes (`ReturnJustified`); and a correct
leader's input is the only root accepted (`LeaderTrue`). `EchoQuorum` says that
the correct echoes of a root together with the faulty nodes number N-f. Two roots
cannot both have that: a node echoes one root only, so the correct echoers of the
two are disjoint (`OneQuorum`); with F faulty nodes they would number
2(N - f - F), which is more than the N - F correct nodes there are, since
N >= 3f+1 and F <= f. `fromLeader` is set once
(`FromLeaderStable`), so quorums persist (`QuorumStable`). The refinement maps
`chosen` to the root of the READYs that correct nodes have sent: the first of
them is `Choose`, and a return is `Deliver`.

`BinaryAgreementProofs`

| Theorem | Statement |
|---|---|
| `TypeCorrect` | `Spec => []TypeOK` |
| `NoOppositeValuesTheorem` | `Spec => []NoOppositeValues` |
| `ValidityTheorem` | `Spec => []Validity` |
| `AgreementTheorem` | `Spec => []Agreement` |
| `DecisionIsProposedTheorem` | `Spec => []DecisionIsProposed` |
| `QuitLeavesDecisionTheorem` | `Spec => []QuitLeavesDecision` |
| `Refinement` | `Spec => ImplementsAgreedBit` |

`IndInv` says where values come from. A CONF names values that have been output
(`ConfBacked`), an output value has been sent by a correct node (`BinBacked`), a
value sent in the first round is an input (`InputBacked`), and one sent in a later
round was named by N-f CONFs of the round before, or was its coin where both
values were about (`EstBacked`). A node at the coin has heard such a quorum or both
values (`AtCoin`), and a decision has a quorum and the coin behind it
(`DecisionBacked`). A correct node sends one CONF per round, so two quorums for
different values would need more correct nodes than there are (`OneQuorum`, from
N >= 3f+1). A node whose receive loop has ended goes on with CONFs that were sent, of
which a correct node sends one per round: what it still counts is no more than what
has been sent now (`HeardBefore`, `HeardQuorum`), so that a receive loop may end at any
node at any time. `NoOppositeValues` follows at once. Agreement goes on from there: take the
least round in which a quorum for v met the coin v. From the next round on every
estimate sent is v, because there is no quorum for the other value and the coin is
no way out; by well-foundedness there is no first round in which that fails. Hence
no quorum for another value later on, and none before by the choice of the round.
Validity descends in the same way to the first round. `DecisionIsProposed` needs to
know what a node remembers of the rounds it has passed, which is a second
invariant, `Past`. `QuitLeavesDecision` needs what a node without a decision has met:
in every round it has left, the other value than the coin's (`Left`). A node that
quits has found its decision as the coin of a second round; had an undecided node
left that round, it would have had the other value there, after the decision. For the
refinement of `AgreedBit` a step that decides is `Decide`, and all else but an input
is a stutter. Agreement and validity of the state after the step give its bit;
that N-f nodes take part follows from the quorum of CONFs behind the decision
(`DecisionTakesPart`), since a node without input has sent none (`Started`).

`HoneyBadgerBlockProofs`

| Theorem | Statement |
|---|---|
| `TypeCorrect` | `Spec => []TypeOK` |
| `AssertionsTheorem` | `Spec => []AssertionsHold` |
| `SecretTheorem` | `Spec => []SecretUntilAgreed`, if K > f |
| `Refinement` | `Spec => ImplementsAgreedSet` |

A node votes 1 only for a broadcast that has a value, and 0 only after N-f
agreements have come to 1 (`InputsBacked`); an agreed bit was the input of a
correct node (`DecisionsBacked`). So a 1 has a value behind it, and a 0 anywhere
has N-f ones behind it; if there is no 0, all are ones. Shares leave a node after its
set has been returned (`InOrder`), and the faulty nodes by themselves are fewer
than K. The refinement maps the last agreement to end to `Choose`.

`CommonCoinProofs`

| Theorem | Statement |
|---|---|
| `TypeCorrect` | `Spec => []TypeOK` |
| `NeverTooLateTheorem` | `Spec => []NeverTooLate` |
| `CoinIsCommonTheorem` | `Spec => []CoinIsCommon` |
| `CoinIsHiddenTheorem` | `Spec => []CoinIsHidden`, no coin without a correct node that has asked |
| `OnceEachTheorem` | `Spec => []OnceEach` |
| `Refinement` | `Spec => ImplementsSharedCoin` |

A good share in the name of a correct node, wherever on its way, stands for a call
of `getCoin` (`OnTheWay`); a node has a queue for every round it has begun
(`Begun`); malformed messages get as far as the receiver's queue (`Incoming`) and end
a greenlet at most (`Ends`); the shares that count are good, of different nodes and of their coin,
and the output queue holds the coin exactly when f+1 of them count (`Counted`). f+1
shares include one of a correct node, which hides the coin until then. `OnceEach`
adds up the copies of a share in the sender's queue, in the receiver's two and
among those that count. Each step moves one of them or none, and a share counts as
its sender's only if it came in the sender's name (`Own`). The refinement of
`SharedCoin` maps the receipt of the f+1-st good share to `Come`: the senders of
the shares that count are as many (`EnoughAskers`), and each is faulty or has asked.

`WalletProofs`, with the lemmas about `Ledger` in `LedgerProofs`

| Theorem | Statement |
|---|---|
| `TypeOKTheorem` | `Spec => []TypeOK` |
| `NothingForgottenTheorem` | `Spec => NothingForgotten` |
| `AgreedOnceTheorem` | `Spec => []AgreedOnce` |
| `ChainedTheorem` | `Spec => []Chained` |
| `PartiesRegisteredTheorem` | `Spec => []PartiesRegistered`, if `Positive(Tx)` |
| `SameAccountsTheorem` | `Spec => []SameAccounts`, if `Positive(Tx)` |
| `NoOverdraftInOneFile` | `Spec /\ []OneFile => []NoOverdraft`, if `Regular(Tx)` |
| `ServiceWatches` | `ServiceSpec => Spec`: what holds of the nodes holds with the user service, too |
| `ReadsAPrefixTheorem` | `ServiceSpec => []ReadsAPrefix` |
| `PartiesKnownTheorem` | `ServiceSpec => []PartiesKnown`, if `Positive(Tx)` |
| `ShownAccountsCanPayTheorem` | `ServiceSpec /\ []Funds => []ShownAccountsCanPay`, if `Positive(Tx)` |

A request is in one place only, still to be made, in the queue of its node or in its
buffer, and proposals come from the buffer (`InOnePlace`); only the end of a round that
has agreed on its transaction takes it away (`OnlyRoundsTake`), which is
`NothingForgotten`. For `AgreedOnce` each round that agreed on a transaction has a request
of its own for it (`Spent`): the one that was proposed, which leaves the buffer when its
node ends the round. A node proposes in the current round, after it has finished all
rounds before, so what it proposes has not been spent. Hence there are at most as many
such rounds as requests. The chain of files is preserved by `save_block` alone
(`ChainInv`).

What is in the files is a matter of what the validation lets through. Of a replay
in any order of the files we know that an account with a balance other than -1, and
one that is not among the wrong destinations, is registered in some line (`Knows`);
a validation keeps that of the lines and the batch so far (`Kept`), so that a
payment finds its accounts above it (`Paired`). The other way round, whatever the
order, a registration in the batch ends with its account registered
(`ValidRegisters`). So the accounts in the files of a node are the accounts of the
batches it has finished (`AccountsInv`): nodes can come to differ in balances, and
`wallet_same_balances` shows that they do, but not in accounts.

For `NoOverdraft` no line may take a balance below zero (`NonNegative`). The replay
does not give the balance; in the order of writing it gives no more than that
(`ReplayBelow`), because it only leaves out credits, and a validation that starts
below stays below. This is the lemma `NoOverdraftInOrder`; one file has one order, which
gives the theorem. It is no more than that: with a second file, a negative amount or
a payment of an account to itself the code does overdraw accounts (section 5).

A call of the user service has read what the node had written at some moment
(`ReadInv`): each file that it lists is full, except the last one, and full files do
not change. So the accounts that a client is shown have been agreed on, and so have
those of its payments, in an earlier round (`RequestInv`): nodes validate round by
round, so that any node that gets such a payment in a batch has its accounts in the
files, however far it is behind the node that the client has asked. With enough
money, it pays (`ValidPays`, `PaidInv`).

`AlgorithmsProofs`

| Theorem | Statement |
|---|---|
| `ProvesOwnLeafTheorem` | `Spec => []ProvesOwnLeaf` |
| `ArrivesAsSentTheorem` | `Spec => []ArrivesAsSent` |
| `DecodedAlikeTheorem` | `Spec => []DecodedAlike` |
| `ThresholdHoldsTheorem` | `Spec => []ThresholdHolds` |

The lemma behind the first, `OwnLeaf`, is about trees of any size and branches of any
strings: `merkleVerify` accepts a value and a branch for an index if and only if
they are the leaf at that index and its branch. The places on the way from the leaf
to the root are those of the index halved (`Path`), and on each the same side is
the sibling's for the tree, the branch and the verification (`Climbing`). What is
hashed there is a hash next to a string of any length; since all hashes have one
length, here one symbol, the two can be told apart (`SplitFirst`, `SplitLast`), and
since different inputs have different hashes, equality at the root goes down to the
leaf.

`ArrivesAsSent` is proved for any set `Codes` of messages, of which TLC checks some
at the ends of their ranges: with strings of any length, branches of any number of
hashes and numbers of any size. A number is divided by 256 as often as it has bytes
(`Uppers`), and is 0 in the end if and only if it is in range (`MoreBytes`); then
reading its bytes gives it back (`ReadNumber`). A message is its fixed part, the
numbers of its kind and the rest (`Encoded`); each field is found where the fields
before it end (`AfterOne`, `AfterTwo`, `Middle`), the hashes of a branch by their
common length (`BranchBlocks`).

The other two rest on interpolation, in `Foundations`. The weights of a set S of
points give at x a sum (`Through`) that is linear in the values (`ThroughCombined`)
and at a point of S is the value there (`ThroughOwn`). The invariant of that theory is
`Determined(q, n, f)`: the sum through any n or more values of f has the value of f
everywhere. It holds of constants for n = 1, goes from f to (x + c) f with one more
value (`DeterminedTimes`, because a point that is a root can be left out,
`ThroughLess`), and to linear combinations; so it holds of polynomials with n
coefficients (`DeterminedPolynomial`) and of what goes through any n values
(`DeterminedThrough`). That q is a prime is needed where differences of points are
divided by (`InverseIs`).

`DecodedAlike`: each byte of the stripes is what goes through K bytes of the blocks,
so any K stripes have the same bytes at every place (`AnyStripesDecode`), and the
blocks together are the padded message, whose last byte says how much to cut off
(`BlocksTogether`, `PaddingIs`, `MessageDecodes`). If stripes that no message need
have are decoded and the result passes the comparison of the roots, they are the
stripes of that message, because roots show all leaves (`RootShowsLeaves`), and then
any other K of them decode to it as well (`ForgedDecodes`, and `OldForgedDecodes` for
the older code). The theorem has messages of any length and any N and K; the forged
stripes have one byte each, as in the run. It asks for K < `bytes`, because the
padding of `includeTransaction.py` tells its length, up to K, in one byte.

`ThresholdHolds`: the value at `order` - 1 of i |-> p(i + 1) is p(0), the secret, and
k shares determine it (`SharesShowSecret`); multiples of the shares come to the
multiple of the secret (`RaisedShares`). No weight is zero, because `order` > `players`,
so that one wrong share makes a wrong product (`OneShareWrong`). For the secrecy there
is a polynomial with any values at k places, one coefficient per place (`Solved`): one
takes those of the k - 1 shares and any secret (`Hidden`).

The hypotheses, which the instances of the runs satisfy:

* `Positive(Tx)`: no payment has a negative amount. The client can send one, and then
  an account without a registration can pay (section 5).
* `Regular(Tx)`: besides, no account starts with a negative balance or pays itself.
  Without the latter `NoOverdraft` fails, even with one file (section 5).
* `OneFile`: every node has one file, that is, at most 100 transactions. With more
  files, which `os.listdir` may list in another order, `NoOverdraft` fails (section 5).
* `Funds`: in every batch that is back, and in whatever order it is gone through, the
  payer of each payment has the amount at its turn. `ShownAccountsCanPay` cannot do
  without, since nothing stops a client from paying what it does not have;
  `wallet_buffer` reaches payments under it.

Only model-checked:

* everything about liveness (`Totality`, `Termination` of both modules,
  `ImplementsFairBroadcast` beyond its safety part `ImplementsBroadcast`, `Progress`,
  `CoinComes`): the prover has no rules for
  fairness and ENABLED;
* the test for primes and Shoup's signatures (`ShoupHolds`): that at most a quarter of
  the bases fool the test, and that powers modulo a product of two primes can be
  taken back, are theorems of number theory which the libraries do not have.

## 7. Not modelled

* Messages of a faulty node in the name of a correct one (see Named senders in
  section 2). No property says anything of them.
* An ECHO or READY of a faulty node whose payload has the wrong type or length: the lines
  that take it apart (`reliablebroadcast.py:250-261, 275-280`) are outside the `try`, and
  the error ends the broadcast at that node. `Termination` and `Totality` of
  `ReliableBroadcast` are for messages of the right types; to the others such a node is
  one that stops.
* Pairings, AES and hashing beyond what they promise; randomness; the ECDSA keys
  that key generation also writes and the wallet does not use.
* The worker processes of `boldyreva_gipc.py` and `tpke` pools: a call returns
  what the function returns. How calls of several greenlets share a pool is left
  out.
* Protobuf generation: a build step, no state.
* Benchmarks, plots and the EC2 and Tor scripts under `experiments/` and `misc/`:
  they drive the protocols modelled here and are not part of the wallet. Their
  message formats, erasure coding and signatures are pure functions and are in
  `Algorithms`.
* Restarts: a node that starts removes its block files and begins at round 0, and
  no one sends it the rounds it has missed; there is no recovery to model. It is a
  faulty node from then on.
* The stream of `GetTransactions` breaking halfway, and a call to a user service
  that is not up, which ends the run loop: both are listed as hazards. Service and
  node run on one host, started by one script.
* The wait of the client for its account to appear, in real time.
