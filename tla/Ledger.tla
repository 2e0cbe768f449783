------------------------------- MODULE Ledger -------------------------------
(***************************************************************************)
(* The block files of a node and what honeybadgerbft/core/honeybadger.py   *)
(* computes from them: balances, the validation of an agreed batch, and    *)
(* the saving of its valid transactions.                                   *)
(*                                                                         *)
(* A transaction is the registration of an account with a balance or a     *)
(* payment. Amounts are integers. A file is its first line, the hash of    *)
(* the file before it (represented by that file), and its transactions.    *)
(***************************************************************************)
EXTENDS Integers, Sequences, SequencesExt

CONSTANTS
  Acct,      \* account ids
  BlockSize  \* transactions in a full file (100 in the code)

ASSUME BlockAssumption == BlockSize \in Nat \ {0}

\* UserTransaction: a oneof of a registration and a payment, with signed amounts.
Transaction ==
  [kind : {"account"}, acct : Acct, balance : Int] \cup
  [kind : {"transaction"}, src : Acct, dst : Acct, amount : Int]

IsAccount(t) == t.kind = "account"  \* HasField('account'), else a 'transaction'

Genesis == [prev |-> "genesis_block", txs |-> <<>>]

\* A save_block that puts one transaction too many into a file.
OverfillBlock(files, t) ==
  IF files # <<>> /\ Len(Last(files).txs) <= BlockSize
  THEN [files EXCEPT ![Len(files)].txs = Append(@, t)]
  ELSE Append(files, [prev |-> IF files = <<>> THEN Genesis ELSE Last(files),
                      txs  |-> <<t>>])

\* save_block: the last file takes the transaction until it has BlockSize + 1
\* lines; a new file starts with the hash of the last one as it then is.
save_block(files, t) ==
  IF files # <<>> /\ Len(Last(files).txs) < BlockSize
  THEN [files EXCEPT ![Len(files)].txs = Append(@, t)]
  ELSE Append(files, [prev |-> IF files = <<>> THEN Genesis ELSE Last(files),
                      txs  |-> <<t>>])

\* read_block: the transactions of the files in the order os.listdir names
\* them, which is a permutation of the order in which they were made.
ListOrders(files) == SetToSeqs(DOMAIN files)
read_block(files, order) ==
  FlattenSeq([k \in DOMAIN order |-> files[order[k]].txs])

\* One step of the loop of get_balance.
CountFor(a, balance, t) ==
  IF IsAccount(t) THEN IF t.acct = a THEN balance + t.balance ELSE balance
  ELSE IF t.src = a THEN balance - t.amount
  ELSE IF t.dst = a THEN balance + t.amount
  ELSE balance

\* The balance after each of the lines, from 0 on; the last one is returned.
Counted(lines, a) ==
  LET counted[n \in 0 .. Len(lines)] ==
        IF n = 0 THEN 0 ELSE CountFor(a, counted[n - 1], lines[n])
  IN counted
get_balance(lines, a) == Counted(lines, a)[Len(lines)]

\* Every account id with a registration: what get_accounts lists.
Registered(lines) == {lines[k].acct : k \in {n \in DOMAIN lines : IsAccount(lines[n])}}

-----------------------------------------------------------------------------
(* The validation of the transactions new of a round (lines 274-325).      *)

Sources(new) == {IF IsAccount(t) THEN t.acct ELSE t.src : t \in new}
Targets(new) == {t.dst : t \in {u \in new : ~ IsAccount(u)}}

Unknown == -1  \* the balance of an account that no file registers

\* Lines 288-300 for one line t of the files. A registration overwrites the
\* balance, and a payment between two sources is only taken from the payer.
ReplayLine(st, t) ==
  [balances |->
     IF IsAccount(t)
     THEN IF t.acct \in DOMAIN st.balances
          THEN [st.balances EXCEPT ![t.acct] = t.balance] ELSE st.balances
     ELSE IF t.src \in DOMAIN st.balances
     THEN [st.balances EXCEPT ![t.src] = @ - t.amount]
     ELSE IF t.dst \in DOMAIN st.balances
     THEN [st.balances EXCEPT ![t.dst] = @ + t.amount]
     ELSE st.balances,
   wrong_dst |-> IF IsAccount(t) THEN st.wrong_dst \ {t.acct} ELSE st.wrong_dst]

\* src_users and wrong_dst_users before the files are read.
Fresh(new) ==
  [balances |-> [a \in Sources(new) |-> Unknown], wrong_dst |-> Targets(new)]

\* The two after each of the lines; the last ones are there before the
\* transactions are looked at.
Replayed(lines, new) ==
  LET replayed[n \in 0 .. Len(lines)] ==
        IF n = 0 THEN Fresh(new) ELSE ReplayLine(replayed[n - 1], lines[n])
  IN replayed
Replay(lines, new) == Replayed(lines, new)[Len(lines)]

\* A Transfer that only looks at the payee.
CreditOnly(balances, t) ==
  IF t.dst \in DOMAIN balances THEN [balances EXCEPT ![t.dst] = @ + t.amount] ELSE balances

\* balances after a payment: the payer's, then the payee's if it is a source.
Transfer(balances, t) ==
  LET paid == [balances EXCEPT ![t.src] = @ - t.amount]
  IN IF t.dst \in DOMAIN paid THEN [paid EXCEPT ![t.dst] = @ + t.amount] ELSE paid

\* A validation that leaves out the check of the payee.
UncheckedPayee(st, t) ==
  IF IsAccount(t)
  THEN IF st.balances[t.acct] # Unknown THEN st
       ELSE [st EXCEPT !.valid = Append(@, t), !.balances[t.acct] = t.balance]
  ELSE IF t.amount > st.balances[t.src] THEN st
       ELSE [st EXCEPT !.valid = Append(@, t), !.balances = Transfer(@, t)]

\* Lines 304-325 for one transaction: it is valid on the balances the valid
\* ones before it have left.
ValidateLine(st, t) ==
  IF IsAccount(t)
  THEN IF st.balances[t.acct] # Unknown THEN st
       ELSE [st EXCEPT !.valid = Append(@, t), !.balances[t.acct] = t.balance]
  ELSE IF t.amount > st.balances[t.src] \/ t.dst \in st.wrong_dst THEN st
       ELSE [st EXCEPT !.valid = Append(@, t), !.balances = Transfer(@, t)]

\* The state of the validation before its first transaction, on a replay st.
AtStart(st) == [valid |-> <<>>, balances |-> st.balances, wrong_dst |-> st.wrong_dst]

\* The same after each transaction, when they are iterated in the given order.
Validated(st, order) ==
  LET validated[n \in 0 .. Len(order)] ==
        IF n = 0 THEN AtStart(st) ELSE ValidateLine(validated[n - 1], order[n])
  IN validated

\* valid_txns, when the set new is iterated in the given order.
Valid(lines, new, order) == Validated(Replay(lines, new), order)[Len(order)].valid
=============================================================================
