---------------------------- MODULE MCWalletNodes ----------------------------
(***************************************************************************)
(* Small instances of WalletNodes: the transactions that users send and    *)
(* the nodes they send them to.                                            *)
(***************************************************************************)
EXTENDS WalletNodes

CONSTANTS a, b, c, n1, n2, n3, n4

Register(acct, balance)  == [kind |-> "account", acct |-> acct, balance |-> balance]
Pay(src, dst, amount)    == [kind |-> "transaction", src |-> src, dst |-> dst, amount |-> amount]

\* A request is the transaction, the node it is sent to, and which of the equal
\* ones it is.
Sent(txs, i) == txs \X {i} \X {1}
Again(q)     == [q EXCEPT ![3] = @ + 1]
TxnOf(reqs)  == [q \in reqs |-> q[1]]
HomeOf(reqs) == [q \in reqs |-> q[2]]

\* Two accounts that pay each other, one that is never registered.
Payments == Sent({Register(a, 2), Register(b, 1), Pay(a, b, 2),
                  Pay(b, a, 3), Pay(a, c, 1), Pay(b, a, 1)}, n1)
PaymentsTxn  == TxnOf(Payments)
PaymentsHome == HomeOf(Payments)

\* An account that spends what it has twice.
DoubleSpend == Sent({Register(a, 1), Register(b, 0), Register(c, 0), Pay(a, b, 1), Pay(a, c, 1)}, n1)
DoubleSpendTxn  == TxnOf(DoubleSpend)
DoubleSpendHome == HomeOf(DoubleSpend)
=============================================================================
