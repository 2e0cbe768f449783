---------------------------- MODULE UserService ----------------------------
(***************************************************************************)
(* A client (hbbft/client/user_service_client.py), the calls of the user   *)
(* service that read block files (user_service_server.py) and the nodes    *)
(* behind it. The service is a process of its own: it reads the files of   *)
(* one node, one after the other, while that node writes them.             *)
(*                                                                         *)
(* The client registers accounts with any service. It pays from and to     *)
(* accounts that the service has listed for it (pick_acct).                *)
(***************************************************************************)
EXTENDS WalletNodes

CONSTANT server_id  \* the node whose files every service reads

ASSUME ServerAssumption == server_id \in Node

VARIABLES
  reading,  \* a call reads the files
  unread,   \* the files it has listed and not read yet
  heard,    \* what it has read: places in the files, <<file, line>>
  accts     \* the accounts that the client has been shown

readVars == <<reading, unread, heard, accts>>
allVars  == <<vars, readVars>>

ServiceInit ==
  /\ Init
  /\ reading = FALSE
  /\ unread  = {}
  /\ heard   = {}
  /\ accts   = {}

-----------------------------------------------------------------------------

Written == files[server_id]

\* GetAccountsCall and GetBalanceCall go on once there is a folder of blocks, and
\* read_block lists its files.
ListFiles ==
  /\ ~ reading
  /\ Written # <<>>
  /\ reading' = TRUE
  /\ unread'  = DOMAIN Written
  /\ heard'   = {}
  /\ UNCHANGED <<vars, accts>>

\* Mutant of ReadFile: any node's copy of the file will do (line 39), also one that
\* is behind.
ReadAnywhere(k) ==
  /\ k \in unread
  /\ unread' = unread \ {k}
  /\ \E i \in {j \in Node : k \in DOMAIN files[j]} :
       /\ Len(files[i][k].txs) <= Len(Written[k].txs)
       /\ heard' = heard \cup {<<k, n>> : n \in DOMAIN files[i][k].txs}
  /\ UNCHANGED <<vars, reading, accts>>

\* readlines: the lines that file k has at this moment.
ReadFile(k) ==
  /\ k \in unread
  /\ unread' = unread \ {k}
  /\ heard'  = heard \cup {<<k, n>> : n \in DOMAIN Written[k].txs}
  /\ UNCHANGED <<vars, reading, accts>>

LineAt(p) == Written[p[1]].txs[p[2]]

\* What get_accounts lists; the mutant lists what the service has been sent.
Promised  == {t.acct : t \in {u \in Tx : IsAccount(u) /\ \A q \in unsent : Txn[q] # u}}
Shown     == {LineAt(p).acct : p \in {q \in heard : IsAccount(LineAt(q))}}

\* The call returns, and update_acct replaces the accounts of the client.
Answer ==
  /\ reading
  /\ unread = {}
  /\ reading' = FALSE
  /\ heard'   = {}
  /\ accts'   = Shown
  /\ UNCHANGED <<vars, unread>>

\* create_account sends a registration, _create_txn a payment between accounts
\* picked from those shown.
Send(q) ==
  /\ ~ IsAccount(Txn[q]) => {Txn[q].src, Txn[q].dst} \subseteq accts
  /\ Submit(q)
  /\ UNCHANGED readVars

ServiceNext ==
  \/ \E q \in Request : Send(q)
  \/ \E i \in Node : (StartRound(i) \/ Validate(i) \/ SaveNext(i)) /\ UNCHANGED readVars
  \/ Agree /\ UNCHANGED readVars
  \/ ListFiles \/ Answer
  \/ \E k \in DOMAIN Written : ReadFile(k)

ServiceSpec == ServiceInit /\ [][ServiceNext]_allVars

-----------------------------------------------------------------------------
(* Properties.                                                             *)

\* A place in the files before another, in the order of writing.
Before(p, q) == p[1] < q[1] \/ (p[1] = q[1] /\ p[2] < q[2])
Places == UNION {{<<k, n>> : n \in DOMAIN Written[k].txs} : k \in DOMAIN Written}

\* What a call has read when it is through is what the node had written at some
\* moment, although it has read the files at different ones: a balance that is
\* told was the balance once.
ReadsAPrefix ==
  reading /\ unread = {} => \A q \in heard : \A p \in Places : Before(p, q) => p \in heard

\* A payment between accounts that the client has been shown is saved by every
\* node that gets through the round with it, whatever node it was sent to: no
\* node validates it without the registrations. (The accounts can afford it.)
ShownAccountsCanPay ==
  \A i \in Node : \A r \in 1 .. round[i] : \A t \in agreed[r] :
    ~ IsAccount(t) /\ saving[i] = <<>> => t \in Saved(i)
=============================================================================
