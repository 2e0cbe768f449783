--------------------------- MODULE MCUserService ---------------------------
(***************************************************************************)
(* A client of four nodes that registers two accounts at two nodes and     *)
(* makes the same payment three times, twice at one node and once at the   *)
(* other, though the payer has the amount only once. The files of n1 are   *)
(* read.                                                                   *)
(***************************************************************************)
EXTENDS UserService, MCWalletNodes

Payment == <<Pay(a, b, 1), n2, 1>>
Client  == Sent({Register(a, 1)}, n1) \cup Sent({Register(b, 1)}, n2)
             \cup {Payment, Again(Payment), <<Pay(a, b, 1), n1, 1>>}
ClientTxn  == TxnOf(Client)
ClientHome == HomeOf(Client)

\* The files of the other nodes are not read: in what order they write them while
\* the others wait makes no difference. Nor does when n3 and n4, which nobody sends
\* anything, begin a round: they do so at once, and n3 validates its batch at once.
\* n4 may be late. Which of the two equal payments is sent first makes none either.
Writing == {i \in Node \ {server_id} : saving[i] # <<>>}
Prompt  == {i \in {n3} : Returned(i)}
  \cup {i \in {n3, n4} : ~ running[i] /\ saving[i] = <<>> /\ round[i] <= MaxRound}
FewOrders ==
  /\ Payment \in unsent' => Again(Payment) \in unsent'
  /\ Writing # {} => \E i \in Writing : files'[i] # files[i]
  /\ Writing = {} /\ Prompt # {} => \E i \in Prompt : running'[i] # running[i]
=============================================================================
