---------------------------- MODULE WalletProofs ----------------------------
(***************************************************************************)
(* Proofs about WalletNodes and UserService for any number of nodes,       *)
(* requests and rounds. A node keeps what it is sent until a round agrees  *)
(* on it, and no more rounds do than it is sent; the files are chained,    *)
(* register the accounts that they let pay, the same at every node, and    *)
(* overdraw none as long as there is one of them. The user service changes *)
(* nothing that the nodes do, a call reads what the files held at some     *)
(* moment, and the accounts that a client has been shown are known to      *)
(* every node that validates a payment between them.                       *)
(***************************************************************************)
EXTENDS UserService, LedgerProofs

-----------------------------------------------------------------------------
(* The inductive invariant.                                                *)

\* What the proof needs to know of the types. A node is in one of the rounds that
\* have been agreed on, or in the one after them.
Types ==
  /\ unsent \in SUBSET Request
  /\ database \in [Node -> SUBSET Request]
  /\ buffer   \in [Node -> SUBSET Request]
  /\ round    \in [Node -> Nat]
  /\ running  \in [Node -> BOOLEAN]
  /\ proposal \in [Node -> SUBSET Request]
  /\ agreed   \in Seq(SUBSET Tx)
  /\ \A i \in Node : round[i] <= Len(agreed)

\* A request is still to be made, in the queue of its node or in the buffer: in one
\* of the three at most. Proposals come from buffers.
InOnePlace ==
  \A q \in Request, i \in Node :
    /\ q \in database[i] => i = Home[q] /\ q \notin unsent /\ q \notin buffer[i]
    /\ q \in buffer[i] => i = Home[q] /\ q \notin unsent
    /\ q \in proposal[i] => q \in buffer[i] /\ running[i]

\* The rounds that have agreed on transaction t.
RoundsOf(t) == {r \in DOMAIN agreed : t \in agreed[r]}

\* Request q for transaction t, with which round r has agreed on t: its node has it
\* in the buffer at most until it ends that round.
SpentOn(q, t, r) ==
  /\ q \in Request \ unsent /\ Txn[q] = t
  /\ q \notin database[Home[q]]
  /\ r <= round[Home[q]] => q \notin buffer[Home[q]]

\* Each round that has agreed on a transaction has done so with a request of its own.
Spent ==
  \A t \in Tx : \E g \in [RoundsOf(t) -> Request] :
    /\ \A r \in RoundsOf(t) : SpentOn(g[r], t, r)
    /\ \A r, s \in RoundsOf(t) : g[r] = g[s] => r = s

IndInv == Types /\ InOnePlace /\ Spent

\* The transactions of the requests.
LEMMA TxFacts == IsFiniteSet(Tx) /\ Tx \in SUBSET Transaction
<1>1. Txn \in Surjection(Request, Tx)
  BY RequestAssumption DEF Surjection, Tx
<1>2. IsFiniteSet(Tx)
  BY <1>1, RequestAssumption, FS_Surjection
<1> QED
  BY <1>2, RequestAssumption DEF Tx

\* The samples of a buffer come from it.
LEMMA SamplesInside == ASSUME NEW S \in SUBSET Request, NEW s \in Samples(S) PROVE s \subseteq S
BY DEF Samples, kSubset

-----------------------------------------------------------------------------
(* Steps.                                                                  *)

\* A step that agrees on nothing keeps the requests of the rounds, if it makes more
\* requests at most and puts none of these into a queue or a buffer again.
LEMMA SpentStays ==
  ASSUME Spent, agreed' = agreed,
         \A t \in Tx : \A r \in RoundsOf(t) : \A q \in Request :
           SpentOn(q, t, r) => SpentOn(q, t, r)'
  PROVE  Spent'
<1> SUFFICES ASSUME NEW t \in Tx
             PROVE  \E g \in [RoundsOf(t) -> Request] :
                      /\ \A r \in RoundsOf(t) : SpentOn(g[r], t, r)'
                      /\ \A r, s \in RoundsOf(t) : g[r] = g[s] => r = s
  BY DEF Spent, RoundsOf
<1>1. PICK g \in [RoundsOf(t) -> Request] :
        /\ \A r \in RoundsOf(t) : SpentOn(g[r], t, r)
        /\ \A r, s \in RoundsOf(t) : g[r] = g[s] => r = s
  BY DEF Spent
<1> QED
  BY <1>1

\* A transaction goes from its user to the queue of a user service.
LEMMA SubmitStep ==
  ASSUME IndInv, NEW q \in Request, Submit(q)
  PROVE  IndInv'
<1>1. /\ q \in unsent /\ Home[q] \in Node
      /\ unsent'   = unsent \ {q}
      /\ database' = [database EXCEPT ![Home[q]] = @ \cup {q}]
      /\ UNCHANGED <<buffer, round, running, proposal, saving, agreed, files>>
  BY RequestAssumption DEF Submit
<1>2. Types'
  BY <1>1 DEF IndInv, Types
<1>3. InOnePlace'
  BY <1>1 DEF IndInv, Types, InOnePlace
<1>4. Spent'
  <2>1. \A p \in Request : p # q => (p \in database'[Home[p]] => p \in database[Home[p]])
    BY <1>1, RequestAssumption DEF IndInv, Types
  <2> SUFFICES ASSUME NEW t \in Tx, NEW r \in RoundsOf(t), NEW p \in Request, SpentOn(p, t, r)
               PROVE  SpentOn(p, t, r)'
    BY <1>1, SpentStays DEF IndInv
  <2>2. p # q
    BY <1>1 DEF SpentOn
  <2> QED
    BY <1>1, <2>1, <2>2 DEF SpentOn
<1> QED
  BY <1>2, <1>3, <1>4 DEF IndInv

\* A node moves its queue into its buffer and proposes from what it had.
LEMMA StartRoundStep ==
  ASSUME IndInv, NEW i \in Node, StartRound(i)
  PROVE  IndInv'
<1>1. PICK sample \in Samples(buffer[i]) : proposal' = [proposal EXCEPT ![i] = sample]
  BY DEF StartRound
<1>2. /\ ~ running[i]
      /\ buffer'   = [buffer EXCEPT ![i] = @ \cup database[i]]
      /\ database' = [database EXCEPT ![i] = {}]
      /\ running'  = [running EXCEPT ![i] = TRUE]
      /\ UNCHANGED <<unsent, round, saving, agreed, files>>
  BY DEF StartRound
<1>3. sample \subseteq buffer[i] /\ buffer[i] \subseteq Request
  BY <1>1, SamplesInside DEF IndInv, Types
<1>4. Types'
  BY <1>1, <1>2, <1>3 DEF IndInv, Types
<1>5. InOnePlace'
  BY <1>1, <1>2, <1>3 DEF IndInv, Types, InOnePlace
<1>6. Spent'
  <2> SUFFICES ASSUME NEW t \in Tx, NEW r \in RoundsOf(t), NEW p \in Request, SpentOn(p, t, r)
               PROVE  SpentOn(p, t, r)'
    BY <1>2, SpentStays DEF IndInv
  <2>1. Home[p] \in Node
    BY RequestAssumption
  <2>2. /\ database'[Home[p]] \subseteq database[Home[p]]
        /\ buffer'[Home[p]] \subseteq buffer[Home[p]] \cup database[Home[p]]
    BY <1>2, <2>1 DEF IndInv, Types
  <2> QED
    BY <1>2, <2>2 DEF SpentOn
<1> QED
  BY <1>4, <1>5, <1>6 DEF IndInv

\* A round is agreed on. It agrees on a transaction because a node that is in this
\* round has proposed a request for it. That request is in the buffer of the node, so
\* no earlier round has been spent on it.
LEMMA AgreeStep ==
  ASSUME IndInv, Agree
  PROVE  IndInv'
<1> DEFINE R == Len(agreed)
<1>1. PICK S \in SUBSET Proposers(R) :
        agreed' = Append(agreed, {Txn[q] : q \in UNION {proposal[i] : i \in S}})
  BY DEF Agree
<1> DEFINE new == {Txn[q] : q \in UNION {proposal[i] : i \in S}}
<1>2. UNCHANGED <<unsent, database, buffer, round, running, proposal, saving, files>>
  BY DEF Agree
<1>3. /\ R \in Nat
      /\ new \subseteq Tx
      /\ \A t \in new : \E i \in Node : \E q \in proposal[i] :
           round[i] = R /\ q \in Request /\ Txn[q] = t
  BY DEF IndInv, Types, Proposers, Tx
<1> HIDE DEF new
<1>4. /\ agreed' \in Seq(SUBSET Tx) /\ Len(agreed') = R + 1
      /\ agreed'[R + 1] = new
      /\ \A r \in 1 .. R : agreed'[r] = agreed[r]
  BY <1>1, <1>3 DEF IndInv, Types, new
<1>5. Types'
  BY <1>2, <1>3, <1>4 DEF IndInv, Types
<1>6. InOnePlace'
  BY <1>2 DEF IndInv, InOnePlace
<1>7. Spent'
  <2> SUFFICES ASSUME NEW t \in Tx
               PROVE  \E g \in [RoundsOf(t)' -> Request] :
                        /\ \A r \in RoundsOf(t)' : SpentOn(g[r], t, r)
                        /\ \A r, s \in RoundsOf(t)' : g[r] = g[s] => r = s
    BY <1>2 DEF Spent, SpentOn
  <2>1. PICK g \in [RoundsOf(t) -> Request] :
          /\ \A r \in RoundsOf(t) : SpentOn(g[r], t, r)
          /\ \A r, s \in RoundsOf(t) : g[r] = g[s] => r = s
    BY DEF IndInv, Spent
  <2>2. /\ DOMAIN agreed = 1 .. R /\ DOMAIN agreed' = 1 .. R + 1
        /\ R + 1 \notin 1 .. R /\ 1 .. R + 1 = (1 .. R) \cup {R + 1}
    BY <1>3, <1>4 DEF IndInv, Types
  <2>3. RoundsOf(t)' = RoundsOf(t) \cup (IF t \in new THEN {R + 1} ELSE {})
    BY <1>4, <2>2 DEF RoundsOf
  <2>4. CASE t \notin new
    BY <2>1, <2>3, <2>4
  <2>5. CASE t \in new
    <3>1. PICK i \in Node : \E q \in proposal[i] : round[i] = R /\ q \in Request /\ Txn[q] = t
      BY <1>3, <2>5
    <3>2. PICK q \in proposal[i] : round[i] = R /\ q \in Request /\ Txn[q] = t
      BY <3>1
    <3>3. q \in buffer[i] /\ Home[q] = i /\ q \notin unsent /\ q \notin database[i]
      BY <3>2 DEF IndInv, InOnePlace
    <3>4. SpentOn(q, t, R + 1)
      BY <1>3, <3>2, <3>3 DEF SpentOn
    <3>5. \A r \in RoundsOf(t) : g[r] # q /\ r # R + 1
      <4>1. \A r \in RoundsOf(t) : r <= R /\ r # R + 1
        BY <2>2 DEF RoundsOf
      <4> QED
        BY <2>1, <3>2, <3>3, <4>1 DEF SpentOn
    <3> DEFINE h == [r \in RoundsOf(t) \cup {R + 1} |-> IF r = R + 1 THEN q ELSE g[r]]
    <3>6. /\ h[R + 1] = q
          /\ \A r \in RoundsOf(t) : h[r] = g[r]
          /\ h \in [RoundsOf(t) \cup {R + 1} -> Request]
      BY <2>1, <3>2, <3>5
    <3> HIDE DEF h
    <3>7. RoundsOf(t)' = RoundsOf(t) \cup {R + 1}
      BY <2>3, <2>5
    <3>8. \A r \in RoundsOf(t)' : SpentOn(h[r], t, r)
      BY <2>1, <3>4, <3>6, <3>7
    <3>9. \A r, s \in RoundsOf(t)' : h[r] = h[s] => r = s
      BY <2>1, <3>5, <3>6, <3>7
    <3> QED
      BY <3>6, <3>7, <3>8, <3>9
  <2> QED
    BY <2>4, <2>5
<1> QED
  BY <1>5, <1>6, <1>7 DEF IndInv

\* A round ends for a node: what it has agreed on leaves the buffer.
LEMMA ValidateStep ==
  ASSUME IndInv, NEW i \in Node, Validate(i)
  PROVE  IndInv'
<1> DEFINE new  == agreed[round[i] + 1]
           rest == {q \in buffer[i] : Txn[q] \notin new}
<1>1. /\ round[i] < Len(agreed)
      /\ buffer'   = [buffer EXCEPT ![i] = rest]
      /\ round'    = [round EXCEPT ![i] = @ + 1]
      /\ running'  = [running EXCEPT ![i] = FALSE]
      /\ proposal' = [proposal EXCEPT ![i] = {}]
      /\ UNCHANGED <<unsent, database, agreed, files>>
  BY DEF Validate, Returned, KeepRest, NewTx
<1>2. Len(agreed) \in Nat /\ \A j \in Node : round[j] \in Nat /\ round[j] <= Len(agreed)
  BY DEF IndInv, Types
<1>3. rest \subseteq buffer[i]
  OBVIOUS
<1>4. Types'
  <2>1. rest \in SUBSET Request
    BY <1>3 DEF IndInv, Types
  <2> HIDE DEF rest
  <2> QED
    BY <1>1, <1>2, <2>1 DEF IndInv, Types
<1>5. InOnePlace'
  <2> HIDE DEF rest
  <2> QED
    BY <1>1, <1>3 DEF IndInv, Types, InOnePlace
<1>6. Spent'
  <2> SUFFICES ASSUME NEW t \in Tx, NEW r \in RoundsOf(t), NEW q \in Request, SpentOn(q, t, r)
               PROVE  SpentOn(q, t, r)'
    BY <1>1, SpentStays DEF IndInv
  <2>1. Home[q] \in Node
    BY RequestAssumption
  <2>2. CASE Home[q] # i
    <3>1. round'[Home[q]] = round[Home[q]] /\ buffer'[Home[q]] = buffer[Home[q]]
      BY <1>1, <2>1, <2>2 DEF IndInv, Types
    <3> QED
      BY <1>1, <3>1 DEF SpentOn
  <2>3. CASE Home[q] = i
    <3>1. round'[i] = round[i] + 1 /\ buffer'[i] = rest
      BY <1>1 DEF IndInv, Types
    <3>2. r \in Nat /\ t \in agreed[r]
      BY DEF IndInv, Types, RoundsOf
    <3>3. Txn[q] = t /\ (r <= round[i] => q \notin buffer[i])
      BY <2>3 DEF SpentOn
    <3>4. r <= round[i] + 1 => q \notin rest
      BY <1>2, <3>2, <3>3
    <3> HIDE DEF rest
    <3> QED
      BY <1>1, <2>3, <3>1, <3>4 DEF SpentOn
  <2> QED
    BY <2>2, <2>3
<1> QED
  BY <1>4, <1>5, <1>6 DEF IndInv

\* Every step keeps the invariant.
LEMMA Inductive == IndInv /\ [Next]_vars => IndInv'
<1> SUFFICES ASSUME IndInv, [Next]_vars PROVE IndInv'
  OBVIOUS
<1>1. ASSUME NEW q \in Request, Submit(q) PROVE IndInv'
  BY <1>1, SubmitStep
<1>2. ASSUME NEW i \in Node, StartRound(i) PROVE IndInv'
  BY <1>2, StartRoundStep
<1>3. CASE Agree
  BY <1>3, AgreeStep
<1>4. ASSUME NEW i \in Node, Validate(i) PROVE IndInv'
  BY <1>4, ValidateStep
<1>5. CASE UNCHANGED <<unsent, database, buffer, round, running, proposal, agreed>>
  <2>1. Types' /\ InOnePlace'
    BY <1>5 DEF IndInv, Types, InOnePlace
  <2>2. Spent'
    <3>1. \A t, r, q : SpentOn(q, t, r) => SpentOn(q, t, r)'
      BY <1>5 DEF SpentOn
    <3> QED
      BY <1>5, <3>1, SpentStays DEF IndInv
  <2> QED
    BY <2>1, <2>2 DEF IndInv
<1>6. ASSUME NEW i \in Node, SaveNext(i) PROVE IndInv'
  BY <1>5, <1>6 DEF SaveNext
<1>7. CASE UNCHANGED vars
  BY <1>5, <1>7 DEF vars
<1> QED
  BY <1>1, <1>2, <1>3, <1>4, <1>6, <1>7 DEF Next

\* The invariant holds when the nodes start.
LEMMA Initial == Init => IndInv
<1> SUFFICES ASSUME Init PROVE IndInv
  OBVIOUS
<1>1. Types /\ InOnePlace
  BY DEF Init, Types, InOnePlace
<1>2. \A t \in Tx : RoundsOf(t) = {}
  BY DEF Init, RoundsOf
<1>3. Spent
  <2> SUFFICES ASSUME NEW t \in Tx
               PROVE  \E g \in [RoundsOf(t) -> Request] :
                        /\ \A r \in RoundsOf(t) : SpentOn(g[r], t, r)
                        /\ \A r, s \in RoundsOf(t) : g[r] = g[s] => r = s
    BY DEF Spent
  <2> DEFINE g == [r \in {} |-> r]
  <2>1. g \in [RoundsOf(t) -> Request]
    BY <1>2
  <2> QED
    BY <1>2, <2>1
<1> QED
  BY <1>1, <1>3 DEF IndInv

\* The invariant of the buffers holds in every reachable state.
LEMMA Invariance == Spec => []IndInv
BY Initial, Inductive, PTL DEF Spec

-----------------------------------------------------------------------------
(* The theorems.                                                           *)

\* Only the end of a round takes a request from its node.
LEMMA OnlyRoundsTake ==
  ASSUME Types, [Next]_vars, NEW q \in Request, Waiting(q), ~ Waiting(q)'
  PROVE  /\ round'[Home[q]] = round[Home[q]] + 1
         /\ Txn[q] \in agreed[round'[Home[q]]]
<1> DEFINE i == Home[q]
<1>1. i \in Node
  BY RequestAssumption
<1>2. /\ q \in unsent \/ q \in database[i] \/ q \in buffer[i]
      /\ q \notin unsent' /\ q \notin database'[i] /\ q \notin buffer'[i]
  BY DEF Waiting, Held
<1> HIDE DEF i
<1>3. ASSUME NEW p \in Request, Submit(p) PROVE FALSE
  <2>1. /\ buffer' = buffer /\ unsent' = unsent \ {p}
        /\ database' = [database EXCEPT ![Home[p]] = @ \cup {p}]
    BY <1>3 DEF Submit
  <2>2. /\ database[i] \subseteq database'[i]
        /\ p = q => q \in database'[i]
    BY <1>1, <2>1 DEF Types, i
  <2> QED
    BY <1>2, <2>1, <2>2
<1>4. ASSUME NEW j \in Node, StartRound(j) PROVE FALSE
  <2>1. /\ buffer'   = [buffer EXCEPT ![j] = @ \cup database[j]]
        /\ database' = [database EXCEPT ![j] = {}] /\ unsent' = unsent
    BY <1>4 DEF StartRound
  <2>2. database[i] \cup buffer[i] \subseteq database'[i] \cup buffer'[i]
    BY <1>1, <2>1 DEF Types
  <2> QED
    BY <1>2, <2>1, <2>2
<1>5. ASSUME UNCHANGED <<unsent, database, buffer>> PROVE FALSE
  BY <1>2, <1>5
<1>6. PICK j \in Node : Validate(j)
  BY <1>3, <1>4, <1>5 DEF Next, vars, Agree, SaveNext
<1>7. /\ buffer' = [buffer EXCEPT ![j] = KeepRest(@, proposal[j], NewTx(j))]
      /\ round'  = [round EXCEPT ![j] = @ + 1] /\ UNCHANGED <<unsent, database, agreed>>
  BY <1>6 DEF Validate
<1>8. j = i /\ q \in buffer[i] /\ q \notin KeepRest(buffer[i], proposal[i], NewTx(i))
  BY <1>1, <1>2, <1>7 DEF Types
<1>9. round'[i] = round[i] + 1
  BY <1>1, <1>7, <1>8 DEF Types
<1> QED
  BY <1>8, <1>9 DEF KeepRest, NewTx, i

\* What a user service has taken is proposed again until it is agreed on.
THEOREM NothingForgottenTheorem == Spec => NothingForgotten
<1>1. Types /\ [Next]_vars =>
        [\A q \in Request : Waiting(q) /\ ~ Waiting(q)' =>
           LET i == Home[q]
           IN round'[i] = round[i] + 1 /\ Txn[q] \in agreed[round'[i]]]_vars
  BY OnlyRoundsTake
<1>2. IndInv => Types
  BY DEF IndInv
<1> QED
  BY <1>1, <1>2, Invariance, PTL DEF Spec, NothingForgotten

\* There are as many requests for a transaction as rounds that have agreed on it.
LEMMA OnceAgreed == IndInv => AgreedOnce
<1> SUFFICES ASSUME IndInv, NEW t \in Tx
             PROVE  Cardinality(RoundsOf(t)) <= Cardinality({q \in Request \ unsent : Txn[q] = t})
  BY DEF AgreedOnce, RoundsOf
<1> DEFINE S == {q \in Request \ unsent : Txn[q] = t}
<1>1. PICK g \in [RoundsOf(t) -> Request] :
        /\ \A r \in RoundsOf(t) : SpentOn(g[r], t, r)
        /\ \A r, s \in RoundsOf(t) : g[r] = g[s] => r = s
  BY DEF IndInv, Spent
<1>2. \A r \in RoundsOf(t) : g[r] \in S
  BY <1>1 DEF SpentOn
<1>3. g \in Injection(RoundsOf(t), S)
  BY <1>1, <1>2 DEF Injection, IsInjective
<1>4. IsFiniteSet(S)
  BY RequestAssumption, FS_Subset
<1> QED
  BY <1>3, <1>4, FS_Injection

\* No transaction is agreed on in more rounds than it is sent.
THEOREM AgreedOnceTheorem == Spec => []AgreedOnce
BY Invariance, OnceAgreed, PTL

-----------------------------------------------------------------------------
(* The block files.                                                        *)

\* The files of every node.
ChainInv ==
  /\ DOMAIN files = Node
  /\ \A i \in Node : WellMade(files[i]) /\ Chain(files[i])

\* Only saving changes the files, and it keeps them chained.
LEMMA ChainInductive == ChainInv /\ [Next]_vars => ChainInv'
<1> SUFFICES ASSUME ChainInv, [Next]_vars PROVE ChainInv'
  OBVIOUS
<1>1. ASSUME NEW i \in Node, SaveNext(i) PROVE ChainInv'
  <2>1. files' = [files EXCEPT ![i] = save_block(files[i], Head(saving[i]))]
    BY <1>1 DEF SaveNext
  <2>2. WellMade(files'[i]) /\ Chain(files'[i])
    BY <2>1, SaveKeepsChain DEF ChainInv
  <2> QED
    BY <2>1, <2>2 DEF ChainInv
<1>2. CASE UNCHANGED files
  BY <1>2 DEF ChainInv
<1> QED
  BY <1>1, <1>2 DEF Next, Submit, StartRound, Agree, Validate, vars

\* There are no files at first.
LEMMA ChainAtFirst == Init => ChainInv
<1> SUFFICES ASSUME Init PROVE ChainInv
  OBVIOUS
<1>1. <<>> \in Files({}) /\ files = [i \in Node |-> <<>>]
  BY DEF Init, Files
<1> QED
  BY <1>1 DEF ChainInv, WellMade, Chain

\* The files of a node are a chain of hashes, and only the last one is written to.
THEOREM ChainedTheorem == Spec => []Chained
<1>1. Init => ChainInv
  BY ChainAtFirst
<1>2. ChainInv => Chained
  BY DEF ChainInv, Chain, Chained
<1> QED
  BY <1>1, <1>2, ChainInductive, PTL DEF Spec

-----------------------------------------------------------------------------
(* The lines of the files.                                                 *)

\* The files and what is still to be saved hold transactions, and no node that is
\* inside _run_round still saves.
FileTypes ==
  /\ saving \in [Node -> Seq(Tx)]
  /\ \A i \in Node : Holds(files[i], Tx)
  /\ \A i \in Node : running[i] => saving[i] = <<>>

\* The first transactions of a sequence and the others.
LEMMA HeadOf ==
  ASSUME NEW T, NEW s \in Seq(T), NEW q \in Seq(T), q # <<>>
  PROVE  /\ Head(q) \in T /\ Tail(q) \in Seq(T)
         /\ Append(s, Head(q)) \o Tail(q) = s \o q
<1>1. /\ Head(q) \in T /\ Tail(q) \in Seq(T) /\ Len(q) \in Nat /\ Len(q) >= 1 /\ Len(s) \in Nat
      /\ Head(q) = q[1] /\ Len(Tail(q)) = Len(q) - 1
      /\ \A k \in 1 .. Len(q) - 1 : Tail(q)[k] = q[k + 1]
  OBVIOUS
<1> DEFINE h == Head(q)
           r == Tail(q)
           one == Append(s, h)
<1>2. one \in Seq(T) /\ Len(one) = Len(s) + 1 /\ one[Len(s) + 1] = h /\ \A k \in 1 .. Len(s) : one[k] = s[k]
  BY <1>1
<1> HIDE DEF h, r, one
<1>3. one \o r \in Seq(T) /\ Len(one \o r) = Len(s) + Len(q)
  BY <1>1, <1>2 DEF r
<1>4. s \o q \in Seq(T) /\ Len(s \o q) = Len(s) + Len(q)
  OBVIOUS
<1>5. ASSUME NEW k \in 1 .. Len(s) + Len(q) PROVE (one \o r)[k] = (s \o q)[k]
  <2>1. CASE k <= Len(s) + 1
    BY <1>1, <1>2, <2>1 DEF h, r
  <2>2. CASE k > Len(s) + 1
    BY <1>1, <1>2, <2>2 DEF h, r
  <2>3. k <= Len(s) + 1 \/ k > Len(s) + 1
    <3> DEFINE n == Len(s) + 1
    <3>1. k \in Int /\ n \in Int
      BY <1>1
    <3> HIDE DEF n
    <3>2. k <= n \/ k > n
      BY <3>1
    <3> QED
      BY <3>2 DEF n
  <2> QED
    BY <2>1, <2>2, <2>3
<1> QED
  BY <1>1, <1>3, <1>4, <1>5, SeqEqual DEF h, r, one

\* A batch that a node gets is one of transactions, in whatever order it goes
\* through them.
LEMMA Batches ==
  ASSUME Types, NEW i \in Node, Returned(i)
  PROVE  /\ NewTx(i) \subseteq Tx
         /\ \A order \in SetToSeqs(NewTx(i)) : order \in Seq(NewTx(i))
<1>1. round[i] + 1 \in 1 .. Len(agreed)
  BY DEF Types, Returned
<1>2. NewTx(i) \in SUBSET Tx
  BY <1>1 DEF Types, NewTx
<1>3. Cardinality(NewTx(i)) \in Nat
  BY <1>2, TxFacts, FS_Subset, FS_CardinalityType
<1> DEFINE new == NewTx(i)
           D   == 1 .. Cardinality(new)
<1>4. \A order \in SetToSeqs(new) : order \in [D -> new]
  BY DEF SetToSeqs
<1> HIDE DEF new
<1>5. \A order \in [D -> new] : order \in Seq(new)
  BY <1>3 DEF new
<1> QED
  BY <1>2, <1>4, <1>5 DEF new

\* A node that validates reads lines of its files and saves what is valid on them.
LEMMA ValidateReads ==
  ASSUME Types, FileTypes, NEW i \in Node, Validate(i)
  PROVE  /\ NewTx(i) \subseteq Tx /\ saving[i] = <<>> /\ files' = files
         /\ running' = [running EXCEPT ![i] = FALSE]
         /\ \E order \in Seq(NewTx(i)), listed \in ListOrders(files[i]) :
              saving' = [saving EXCEPT ![i] = Valid(read_block(files[i], listed), NewTx(i), order)]
         /\ \A listed \in ListOrders(files[i]) :
              /\ read_block(files[i], listed) \in Seq(Tx)
              /\ ToSet(read_block(files[i], listed)) \subseteq ToSet(Lines(i))
<1>1. /\ Returned(i) /\ files' = files /\ running' = [running EXCEPT ![i] = FALSE]
      /\ \E order \in SetToSeqs(NewTx(i)), listed \in ListOrders(files[i]) :
           saving' = [saving EXCEPT ![i] = Valid(read_block(files[i], listed), NewTx(i), order)]
  BY DEF Validate
<1>2. saving[i] = <<>>
  BY <1>1 DEF FileTypes, Returned
<1>3. \A listed \in ListOrders(files[i]) :
        /\ read_block(files[i], listed) \in Seq(Tx)
        /\ ToSet(read_block(files[i], listed)) \subseteq ToSet(Lines(i))
  BY ReadLines DEF FileTypes, Lines, LinesOf
<1> QED
  BY <1>1, <1>2, <1>3, Batches

\* Saving adds the first of the transactions that are still to be saved.
LEMMA SaveAdds ==
  ASSUME ChainInv, FileTypes, NEW i \in Node, SaveNext(i)
  PROVE  /\ saving' = [saving EXCEPT ![i] = Tail(@)] /\ running' = running
         /\ \A j \in Node : j # i => files'[j] = files[j]
         /\ Holds(files'[i], Tx) /\ saving'[i] \in Seq(Tx)
         /\ Lines(i)' = Append(Lines(i), Head(saving[i]))
         /\ Lines(i)' \o saving'[i] = Lines(i) \o saving[i]
<1> DEFINE t == Head(saving[i])
           more == save_block(files[i], t)
<1>1. /\ saving[i] # <<>> /\ files' = [files EXCEPT ![i] = more]
      /\ saving' = [saving EXCEPT ![i] = Tail(@)] /\ running' = running
  BY DEF SaveNext
<1>2. saving[i] \in Seq(Tx) /\ Holds(files[i], Tx) /\ WellMade(files[i]) /\ Chain(files[i]) /\ DOMAIN files = Node
  BY DEF FileTypes, ChainInv
<1>3. Lines(i) \in Seq(Tx)
  BY <1>2, Pieces DEF Lines, LinesOf
<1>4. /\ t \in Tx /\ Tail(saving[i]) \in Seq(Tx)
      /\ Append(Lines(i), t) \o Tail(saving[i]) = Lines(i) \o saving[i]
  BY <1>1, <1>2, <1>3, HeadOf
<1> HIDE DEF t, more
<1>5. files'[i] = more /\ \A j \in Node : j # i => files'[j] = files[j]
  BY <1>1, <1>2
<1>6. saving'[i] = Tail(saving[i])
  BY <1>1 DEF FileTypes
<1>7. WellMade(more) /\ (\A k \in DOMAIN more : more[k].txs \in Seq(Tx)) /\ LinesOf(more) = Append(LinesOf(files[i]), t)
  BY <1>2, <1>4, SaveKeepsChain, SaveAppends DEF more
<1>8. Lines(i) = LinesOf(files[i]) /\ Lines(i)' = LinesOf(more)
  BY <1>5 DEF Lines, LinesOf
<1>9. Holds(files'[i], Tx)
  BY <1>5, <1>7 DEF Holds
<1> QED
  BY <1>1, <1>4, <1>5, <1>6, <1>7, <1>8, <1>9 DEF t

\* The steps that neither validate nor save leave the files and what is to be saved.
LEMMA OtherSteps ==
  [Next]_vars =>
    \/ \E i \in Node : Validate(i) \/ SaveNext(i)
    \/ UNCHANGED <<files, saving>>
BY DEF Next, vars, Submit, StartRound, Agree

\* Every step keeps the types of the files.
LEMMA FileTypesStay == Types /\ ChainInv /\ FileTypes /\ [Next]_vars => FileTypes'
<1> SUFFICES ASSUME Types, ChainInv, FileTypes, [Next]_vars PROVE FileTypes'
  OBVIOUS
<1>1. ASSUME NEW i \in Node, Validate(i) PROVE FileTypes'
  <2>1. PICK order \in Seq(NewTx(i)) : \E listed \in ListOrders(files[i]) :
          saving' = [saving EXCEPT ![i] = Valid(read_block(files[i], listed), NewTx(i), order)]
    BY <1>1, ValidateReads
  <2>2. PICK listed \in ListOrders(files[i]) :
          saving' = [saving EXCEPT ![i] = Valid(read_block(files[i], listed), NewTx(i), order)]
    BY <2>1
  <2> DEFINE new   == NewTx(i)
             lines == read_block(files[i], listed)
             valid == Valid(lines, new, order)
  <2>3. /\ new \subseteq Tx /\ files' = files /\ running' = [running EXCEPT ![i] = FALSE]
        /\ lines \in Seq(Tx)
    BY <1>1, ValidateReads
  <2> HIDE DEF new, lines
  <2>4. new \in SUBSET Transaction /\ lines \in Seq(Transaction)
    BY <2>3, TxFacts, SeqOfMore
  <2>5. valid \in Seq(Tx)
    <3>1. valid \in Seq(new)
      BY <2>4, ValidTyped DEF new
    <3> QED
      BY <2>3, <3>1, SeqOfMore
  <2> HIDE DEF valid
  <2>6. saving' = [saving EXCEPT ![i] = valid]
    BY <2>2 DEF new, lines, valid
  <2> QED
    BY <2>3, <2>5, <2>6 DEF FileTypes, Types
<1>2. ASSUME NEW i \in Node, SaveNext(i) PROVE FileTypes'
  <2>1. /\ saving' = [saving EXCEPT ![i] = Tail(@)] /\ running' = running
        /\ \A j \in Node : j # i => files'[j] = files[j]
        /\ Holds(files'[i], Tx) /\ saving'[i] \in Seq(Tx)
    BY <1>2, SaveAdds
  <2>2. saving' \in [Node -> Seq(Tx)]
    BY <2>1 DEF FileTypes
  <2>3. \A j \in Node : Holds(files'[j], Tx)
    BY <2>1 DEF FileTypes
  <2>4. \A j \in Node : running'[j] => saving'[j] = <<>>
    <3>1. saving[i] # <<>>
      BY <1>2 DEF SaveNext
    <3>2. ~ running[i]
      BY <3>1 DEF FileTypes
    <3> QED
      BY <2>1, <3>2 DEF FileTypes
  <2> QED
    BY <2>2, <2>3, <2>4 DEF FileTypes
<1>3. CASE UNCHANGED <<files, saving>>
  <2>1. \A j \in Node : running'[j] => running[j] \/ saving[j] = <<>>
    BY DEF Next, vars, Submit, StartRound, Agree, Validate, SaveNext, Types
  <2> QED
    BY <1>3, <2>1 DEF FileTypes
<1> QED
  BY <1>1, <1>2, <1>3, OtherSteps

\* There are no lines at first.
LEMMA FileTypesAtFirst == Init => FileTypes
<1> SUFFICES ASSUME Init PROVE FileTypes
  OBVIOUS
<1>1. ChainInv
  BY ChainAtFirst
<1>2. /\ files = [i \in Node |-> <<>>] /\ saving = [i \in Node |-> <<>>]
      /\ running = [i \in Node |-> FALSE]
  BY DEF Init
<1>3. \A i \in Node : Holds(files[i], Tx)
  BY <1>1, <1>2 DEF ChainInv, Holds
<1> QED
  BY <1>2, <1>3 DEF FileTypes

\* The invariants of the buffers, of the chains and of the files together.
LEMMA FilesInvariance == Spec => [](Types /\ ChainInv /\ FileTypes)
<1>1. Init => Types /\ ChainInv /\ FileTypes
  BY Initial, ChainAtFirst, FileTypesAtFirst DEF IndInv
<1>2. IndInv => Types
  BY DEF IndInv
<1> QED
  BY <1>1, <1>2, Invariance, ChainInductive, FileTypesStay, PTL DEF Spec

-----------------------------------------------------------------------------
(* The types of the state.                                                 *)

\* Proposals are samples and there are only so many rounds.
Bounds ==
  /\ Len(agreed) <= MaxRound + 1
  /\ \A i \in Node : Cardinality(proposal[i]) <= BatchSize

\* The samples of a finite buffer have at most B transactions.
LEMMA SamplesBounded ==
  ASSUME NEW S, IsFiniteSet(S), NEW s \in Samples(S)
  PROVE  Cardinality(s) <= BatchSize
<1>1. Cardinality(S) \in Nat /\ BatchSize \in Nat
  BY FS_CardinalityType, BatchAssumption
<1> QED
  BY <1>1 DEF Samples, kSubset

\* Every step keeps the bounds.
LEMMA BoundsStay == Types /\ Bounds /\ [Next]_vars => Bounds'
<1> SUFFICES ASSUME Types, Bounds, [Next]_vars PROVE Bounds'
  OBVIOUS
<1>1. Cardinality({}) = 0 /\ BatchSize \in Nat
  BY FS_EmptySet, BatchAssumption
<1>2. ASSUME NEW i \in Node, StartRound(i) PROVE Bounds'
  <2>1. PICK sample \in Samples(buffer[i]) : proposal' = [proposal EXCEPT ![i] = sample]
    BY <1>2 DEF StartRound
  <2>2. IsFiniteSet(buffer[i])
    BY RequestAssumption, FS_Subset DEF Types
  <2>3. Cardinality(sample) <= BatchSize
    BY <2>2, SamplesBounded
  <2>4. agreed' = agreed
    BY <1>2 DEF StartRound
  <2> QED
    BY <2>1, <2>3, <2>4 DEF Types, Bounds
<1>3. CASE Agree
  <2>1. PICK S \in SUBSET Proposers(Len(agreed)) : agreed' = Append(agreed, {Txn[q] : q \in UNION {proposal[i] : i \in S}})
    BY <1>3 DEF Agree
  <2>2. Len(agreed) <= MaxRound /\ proposal' = proposal
    BY <1>3 DEF Agree
  <2>3. Len(agreed') = Len(agreed) + 1
    BY <2>1 DEF Types
  <2>4. Len(agreed) \in Nat /\ MaxRound \in Nat
    BY RoundAssumption DEF Types
  <2> QED
    BY <2>2, <2>3, <2>4 DEF Bounds
<1>4. ASSUME NEW i \in Node, Validate(i) PROVE Bounds'
  <2>1. proposal' = [proposal EXCEPT ![i] = {}] /\ agreed' = agreed
    BY <1>4 DEF Validate
  <2> QED
    BY <1>1, <2>1 DEF Types, Bounds
<1>5. CASE UNCHANGED <<proposal, agreed>>
  BY <1>5 DEF Bounds
<1> QED
  BY <1>2, <1>3, <1>4, <1>5 DEF Next, vars, Submit, SaveNext

\* The state of the nodes has the types of the code: rounds and proposals are
\* bounded, and what is agreed on and saved are transactions of users.
THEOREM TypeOKTheorem == Spec => []TypeOK
<1>1. Init => Bounds
  <2> SUFFICES ASSUME Init PROVE Bounds
    OBVIOUS
  <2>1. Cardinality({}) = 0 /\ BatchSize \in Nat /\ MaxRound \in Nat
    BY FS_EmptySet, BatchAssumption, RoundAssumption
  <2>2. agreed = <<>> /\ proposal = [i \in Node |-> {}]
    BY DEF Init
  <2> QED
    BY <2>1, <2>2 DEF Bounds
<1>2. Types /\ FileTypes /\ Bounds => TypeOK
  <2> SUFFICES ASSUME Types, FileTypes, Bounds PROVE TypeOK
    OBVIOUS
  <2>1. Len(agreed) \in Nat /\ MaxRound \in Nat
    BY RoundAssumption DEF Types
  <2>2. round \in [Node -> 0 .. MaxRound + 1]
    BY <2>1 DEF Types, Bounds
  <2>3. proposal \in [Node -> {S \in SUBSET Request : Cardinality(S) <= BatchSize}]
    BY DEF Types, Bounds
  <2>4. \A q \in Seq(Tx) : ToSet(q) \subseteq Tx
    BY DEF ToSet
  <2>5. \A i \in Node : saving[i] \in Seq(Tx) /\ Lines(i) \in Seq(Tx)
    BY Pieces DEF FileTypes, Lines, LinesOf
  <2>6. \A r \in DOMAIN agreed : agreed[r] \subseteq Tx
    BY DEF Types
  <2> QED
    BY <2>2, <2>3, <2>4, <2>5, <2>6 DEF TypeOK, Types, Saved
<1> QED
  BY <1>1, <1>2, BoundsStay, FilesInvariance, PTL DEF Spec

-----------------------------------------------------------------------------
(* The ledger.                                                             *)

\* A node has no lines and nothing to save when it starts.
NothingYet(i) == Lines(i) \o saving[i] = <<>>
LEMMA NothingAtFirst == Init => \A i \in Node : NothingYet(i)
<1> SUFFICES ASSUME Init, NEW i \in Node PROVE NothingYet(i)
  OBVIOUS
<1>1. files[i] = <<>> /\ saving[i] = <<>>
  BY DEF Init
<1>2. Lines(i) = <<>>
  <2>1. [k \in DOMAIN files[i] |-> files[i][k].txs] = <<>>
    BY <1>1
  <2> QED
    BY <2>1 DEF Lines, FlattenSeq
<1> QED
  BY <1>1, <1>2 DEF NothingYet

\* Both accounts of a payment that is saved, or valid and still to be saved, are
\* registered above it.
PairedInv == \A i \in Node : Paired(Lines(i) \o saving[i])

\* Every step keeps the payments below the registrations.
LEMMA PairedStays ==
  ASSUME Positive(Tx)
  PROVE  Types /\ ChainInv /\ FileTypes /\ PairedInv /\ [Next]_vars => PairedInv'
<1> SUFFICES ASSUME Types, ChainInv, FileTypes, PairedInv, [Next]_vars,
                    NEW j \in Node
             PROVE  Paired((Lines(j) \o saving[j])')
  BY DEF PairedInv
<1>1. Lines(j) \in Seq(Tx) /\ saving[j] \in Seq(Tx)
  BY Pieces DEF FileTypes, Lines, LinesOf
<1>2. CASE UNCHANGED <<files, saving>>
  BY <1>2 DEF PairedInv, Lines
<1>3. ASSUME NEW i \in Node, SaveNext(i) PROVE Paired((Lines(j) \o saving[j])')
  <2>1. CASE i = j
    BY <1>3, <2>1, SaveAdds DEF PairedInv
  <2>2. CASE i # j
    <3>1. files'[j] = files[j] /\ saving'[j] = saving[j]
      BY <1>3, <2>2, SaveAdds DEF FileTypes
    <3>2. Lines(j)' = Lines(j)
      BY <3>1 DEF Lines
    <3> QED
      BY <3>1, <3>2 DEF PairedInv
  <2> QED
    BY <2>1, <2>2
<1>4. ASSUME NEW i \in Node, Validate(i) PROVE Paired((Lines(j) \o saving[j])')
  <2>1. PICK order \in Seq(NewTx(i)) : \E listed \in ListOrders(files[i]) :
          saving' = [saving EXCEPT ![i] = Valid(read_block(files[i], listed), NewTx(i), order)]
    BY <1>4, ValidateReads
  <2>2. PICK listed \in ListOrders(files[i]) :
          saving' = [saving EXCEPT ![i] = Valid(read_block(files[i], listed), NewTx(i), order)]
    BY <2>1
  <2> DEFINE new   == NewTx(i)
             lines == read_block(files[i], listed)
             valid == Valid(lines, new, order)
  <2>3. /\ new \subseteq Tx /\ saving[i] = <<>> /\ files' = files
        /\ lines \in Seq(Tx) /\ ToSet(lines) \subseteq ToSet(Lines(i))
    BY <1>4, ValidateReads
  <2>4. Lines(j)' = Lines(j) /\ saving'[j] = IF i = j THEN valid ELSE saving[j]
    BY <2>2, <2>3 DEF FileTypes, Lines
  <2>5. CASE i # j
    BY <2>4, <2>5 DEF PairedInv
  <2>6. CASE i = j
    <3>1. Lines(i) \in Seq(Tx) /\ Paired(Lines(i) \o saving[i])
      BY <1>1, <2>6 DEF PairedInv
    <3> DEFINE s == Lines(i)
    <3> HIDE DEF new, lines, s
    <3>2. Paired(s) /\ s \in Seq(Tx)
      <4>1. s \o <<>> = s
        BY <3>1 DEF s
      <4> QED
        BY <2>3, <3>1, <4>1 DEF s
    <3>3. new \in SUBSET Transaction /\ lines \in Seq(Transaction) /\ s \in Seq(Transaction)
      BY <2>3, <3>2, TxFacts, SeqOfMore
    <3>4. Positive(new) /\ order \in Seq(new) /\ ToSet(lines) \subseteq ToSet(s)
      BY <2>3 DEF Positive, new, s
    <3>5. Paired(s \o valid)
      BY <3>2, <3>3, <3>4, ValidPaired
    <3> HIDE DEF valid
    <3> QED
      BY <2>4, <2>6, <3>5 DEF s
  <2> QED
    BY <2>5, <2>6
<1> QED
  BY <1>2, <1>3, <1>4, OtherSteps

\* One of the first n of the batches registers account a.
RegisteredIn(batches, n, a) == \E r \in 1 .. n : \E t \in batches[r] : IsAccount(t) /\ t.acct = a

\* The accounts of a node are those registered in the rounds it has finished.
AccountsInv ==
  \A i \in Node, a \in Acct : Known(Lines(i) \o saving[i], a) <=> RegisteredIn(agreed, round[i], a)

\* A batch that has been validated adds the accounts that it registers.
LEMMA AccountsOfBatch ==
  ASSUME Positive(Tx), Types, ChainInv, FileTypes, PairedInv, AccountsInv,
         NEW i \in Node, Validate(i), NEW a \in Acct
  PROVE  Known(Lines(i) \o saving'[i], a) <=> RegisteredIn(agreed, round[i] + 1, a)
<1>1. PICK order \in SetToSeqs(NewTx(i)) : \E listed \in ListOrders(files[i]) :
        saving' = [saving EXCEPT ![i] = Valid(read_block(files[i], listed), NewTx(i), order)]
  BY DEF Validate
<1>2. PICK listed \in ListOrders(files[i]) :
        saving' = [saving EXCEPT ![i] = Valid(read_block(files[i], listed), NewTx(i), order)]
  BY <1>1
<1> DEFINE new   == NewTx(i)
           lines == read_block(files[i], listed)
           s     == Lines(i)
           valid == Valid(lines, new, order)
<1>3. /\ new \subseteq Tx /\ saving[i] = <<>>
      /\ lines \in Seq(Tx) /\ ToSet(lines) \subseteq ToSet(s)
  BY ValidateReads
<1>4. order \in Seq(new) /\ ToSet(order) = new
  <2>1. IsFiniteSet(new)
    BY <1>3, TxFacts, FS_Subset
  <2> QED
    BY <2>1, WholeOrder
<1>5. Paired(s) /\ s \in Seq(Tx) /\ (Known(s, a) <=> RegisteredIn(agreed, round[i], a))
  <2>1. /\ Lines(i) \in Seq(Tx) /\ Paired(Lines(i) \o saving[i])
        /\ (Known(Lines(i) \o saving[i], a) <=> RegisteredIn(agreed, round[i], a))
    BY Pieces DEF FileTypes, PairedInv, AccountsInv, Lines, LinesOf
  <2> HIDE DEF s
  <2>2. s \o <<>> = s
    BY <2>1 DEF s
  <2> QED
    BY <1>3, <2>1, <2>2 DEF s
<1>6. saving'[i] = valid
  BY <1>2 DEF FileTypes
<1>7. RegisteredIn(agreed, round[i] + 1, a) <=>
        RegisteredIn(agreed, round[i], a) \/ \E t \in new : IsAccount(t) /\ t.acct = a
  <2>1. round[i] \in Nat
    BY DEF Types
  <2>2. \A r \in 1 .. round[i] + 1 : r \in 1 .. round[i] \/ r = round[i] + 1
    BY <2>1
  <2>3. 1 .. round[i] \subseteq 1 .. round[i] + 1 /\ round[i] + 1 \in 1 .. round[i] + 1
    BY <2>1
  <2> QED
    BY <2>2, <2>3 DEF RegisteredIn, NewTx
<1> HIDE DEF new, lines, s
<1>8. new \in SUBSET Transaction /\ lines \in Seq(Transaction) /\ s \in Seq(Transaction)
  BY <1>3, <1>5, TxFacts, SeqOfMore
<1>9. valid \in Seq(new) /\ valid \in Seq(Transaction)
  <2>1. valid \in Seq(new)
    BY <1>4, <1>8, ValidTyped
  <2> HIDE DEF valid
  <2> QED
    BY <1>8, <2>1, SeqOfMore
<1>10. Positive(new)
  BY <1>3 DEF Positive
<1>11. \A t \in new : IsAccount(t) => Known(s \o valid, t.acct)
  BY <1>3, <1>4, <1>5, <1>8, <1>10, ValidRegisters
<1> HIDE DEF valid
<1>12. Known(s \o valid, a) <=> Known(s, a) \/ Known(valid, a)
  BY <1>8, <1>9, KnownConcat
<1>13. Known(valid, a) => \E t \in new : IsAccount(t) /\ t.acct = a
  <2>1. \A t \in ToSet(valid) : t \in new
    BY <1>9 DEF ToSet
  <2> QED
    BY <1>9, <2>1, KnownMembers
<1> QED
  BY <1>5, <1>6, <1>7, <1>11, <1>12, <1>13 DEF s

\* What has been agreed on stays as it is.
LEMMA AgreedGrows ==
  ASSUME Types, [Next]_vars
  PROVE  \A r \in 1 .. Len(agreed) : agreed'[r] = agreed[r]
<1>1. CASE Agree
  <2>1. PICK S \in SUBSET Proposers(Len(agreed)) : agreed' = Append(agreed, {Txn[q] : q \in UNION {proposal[i] : i \in S}})
    BY <1>1 DEF Agree
  <2> QED
    BY <2>1 DEF Types
<1>2. CASE UNCHANGED agreed
  BY <1>2
<1> QED
  BY <1>1, <1>2 DEF Next, vars, Submit, StartRound, Validate, SaveNext

\* What the rounds that a node has finished register stays as it is.
LEMMA RegistrationsStay ==
  ASSUME Types, [Next]_vars, NEW n \in 0 .. Len(agreed), NEW a
  PROVE  RegisteredIn(agreed', n, a) <=> RegisteredIn(agreed, n, a)
<1>1. Len(agreed) \in Nat /\ \A r \in 1 .. n : r \in 1 .. Len(agreed)
  BY DEF Types
<1>2. \A r \in 1 .. Len(agreed) : agreed'[r] = agreed[r]
  BY AgreedGrows
<1> QED
  BY <1>1, <1>2 DEF RegisteredIn

\* Every step keeps the accounts of the nodes those of their rounds.
LEMMA AccountsStay ==
  ASSUME Positive(Tx)
  PROVE  Types /\ ChainInv /\ FileTypes /\ PairedInv /\ AccountsInv /\ [Next]_vars => AccountsInv'
<1> SUFFICES ASSUME Types, ChainInv, FileTypes, PairedInv, AccountsInv, [Next]_vars,
                    NEW j \in Node, NEW a \in Acct
             PROVE  Known((Lines(j) \o saving[j])', a) <=> RegisteredIn(agreed', round'[j], a)
  BY DEF AccountsInv
<1>1. round[j] \in 0 .. Len(agreed)
  BY DEF Types
<1>2. /\ RegisteredIn(agreed', round[j], a) <=> RegisteredIn(agreed, round[j], a)
      /\ Known(Lines(j) \o saving[j], a) <=> RegisteredIn(agreed, round[j], a)
  BY <1>1, RegistrationsStay DEF AccountsInv
<1>3. ASSUME NEW i \in Node, Validate(i)
      PROVE  Known((Lines(j) \o saving[j])', a) <=> RegisteredIn(agreed', round'[j], a)
  <2>1. files' = files /\ agreed' = agreed
    BY <1>3 DEF Validate
  <2>2. Lines(j)' = Lines(j)
    BY <2>1 DEF Lines
  <2>3. CASE i = j
    <3>1. round'[j] = round[j] + 1
      BY <1>3, <2>3 DEF Validate, Types
    <3>2. Known(Lines(j) \o saving'[j], a) <=> RegisteredIn(agreed, round[j] + 1, a)
      BY <1>3, <2>3, AccountsOfBatch
    <3> QED
      BY <2>1, <2>2, <3>1, <3>2 DEF RegisteredIn
  <2>4. CASE i # j
    <3>1. round'[j] = round[j] /\ saving'[j] = saving[j]
      BY <1>3, <2>4 DEF Validate, Types, FileTypes
    <3> QED
      BY <1>2, <2>2, <3>1
  <2> QED
    BY <2>3, <2>4
<1>4. ASSUME round' = round, Lines(j)' \o saving'[j] = Lines(j) \o saving[j]
      PROVE  Known((Lines(j) \o saving[j])', a) <=> RegisteredIn(agreed', round'[j], a)
  BY <1>2, <1>4
<1>5. ASSUME NEW i \in Node, SaveNext(i)
      PROVE  Known((Lines(j) \o saving[j])', a) <=> RegisteredIn(agreed', round'[j], a)
  <2>1. round' = round
    BY <1>5 DEF SaveNext
  <2>2. CASE i = j
    BY <1>4, <1>5, <2>1, <2>2, SaveAdds
  <2>3. CASE i # j
    <3>1. files'[j] = files[j] /\ saving'[j] = saving[j]
      BY <1>5, <2>3, SaveAdds DEF FileTypes
    <3>2. Lines(j)' = Lines(j)
      BY <3>1 DEF Lines
    <3> QED
      BY <1>4, <2>1, <3>1, <3>2
  <2> QED
    BY <2>2, <2>3
<1>6. CASE UNCHANGED <<files, saving, round>>
  BY <1>4, <1>6 DEF Lines
<1> QED
  BY <1>3, <1>5, <1>6 DEF Next, vars, Submit, StartRound, Agree

\* The accounts of the nodes, with all that they depend on.
LEMMA AccountsInvariance ==
  ASSUME Positive(Tx)
  PROVE  Spec => [](Types /\ ChainInv /\ FileTypes /\ PairedInv /\ AccountsInv)
<1>1. Init => PairedInv /\ AccountsInv
  <2> SUFFICES ASSUME Init, NEW i \in Node
               PROVE  /\ Paired(Lines(i) \o saving[i])
                      /\ \A a \in Acct : Known(Lines(i) \o saving[i], a) <=> RegisteredIn(agreed, round[i], a)
    BY DEF PairedInv, AccountsInv
  <2>1. NothingYet(i)
    BY NothingAtFirst
  <2>2. round[i] = 0
    BY DEF Init
  <2>3. \A a : ~ Known(<<>>, a) /\ ~ RegisteredIn(agreed, 0, a)
    BY DEF Known, Named, RegisteredIn
  <2> QED
    BY <2>1, <2>2, <2>3 DEF NothingYet, Paired
<1>2. Types /\ ChainInv /\ FileTypes /\ PairedInv /\ [Next]_vars => PairedInv'
  BY PairedStays
<1>3. Types /\ ChainInv /\ FileTypes /\ PairedInv /\ AccountsInv /\ [Next]_vars => AccountsInv'
  BY AccountsStay
<1> QED
  BY <1>1, <1>2, <1>3, FilesInvariance, PTL DEF Spec

\* Nodes that have finished the same rounds list the same accounts, although their
\* balances may differ (SameBalances): in whatever order a batch is gone through,
\* each account that it registers is in the files afterwards.
SameAccounts ==
  \A i, j \in Node : round[i] = round[j] /\ saving[i] = <<>> /\ saving[j] = <<>> =>
    Registered(Lines(i)) = Registered(Lines(j))
THEOREM SameAccountsTheorem ==
  ASSUME Positive(Tx)
  PROVE  Spec => []SameAccounts
<1>1. FileTypes /\ AccountsInv => SameAccounts
  <2> SUFFICES ASSUME FileTypes, AccountsInv
               PROVE  \A i \in Node : saving[i] = <<>> =>
                        Registered(Lines(i)) = {a \in Acct : RegisteredIn(agreed, round[i], a)}
    BY DEF SameAccounts
  <2> SUFFICES ASSUME NEW i \in Node, saving[i] = <<>>
               PROVE  Registered(Lines(i)) = {a \in Acct : RegisteredIn(agreed, round[i], a)}
    OBVIOUS
  <2> DEFINE s == Lines(i)
  <2>1. s \in Seq(Tx)
    BY Pieces DEF FileTypes, Lines, LinesOf
  <2>2. \A a \in Acct : Known(s \o <<>>, a) <=> RegisteredIn(agreed, round[i], a)
    BY DEF AccountsInv
  <2> HIDE DEF s
  <2>3. s \o <<>> = s
    BY <2>1
  <2>4. \A k \in 1 .. Len(s) : IsAccount(s[k]) => s[k].acct \in Acct
    BY <2>1, TxFacts, Fields
  <2>5. Registered(s) = {a \in Acct : Known(s, a)}
    BY <2>1, <2>4 DEF Registered, Known, Named
  <2> QED
    BY <2>2, <2>3, <2>5 DEF s
<1> QED
  BY <1>1, AccountsInvariance, PTL

\* Both accounts of a payment in the files are registered above it, in whatever order
\* the files are listed and a batch is gone through, if no user submits a payment of
\* a negative amount: -1, the balance of an account that no file registers, would
\* allow it.
THEOREM PartiesRegisteredTheorem ==
  ASSUME Positive(Tx)
  PROVE  Spec => []PartiesRegistered
<1>1. FileTypes /\ PairedInv => PartiesRegistered
  <2> SUFFICES ASSUME FileTypes, PairedInv, NEW i \in Node, NEW k \in DOMAIN Lines(i),
                      ~ IsAccount(Lines(i)[k])
               PROVE  {Lines(i)[k].src, Lines(i)[k].dst} \subseteq
                        Registered(SubSeq(Lines(i), 1, k - 1))
    BY DEF PartiesRegistered
  <2>1. Lines(i) \in Seq(Tx) /\ saving[i] \in Seq(Tx) /\ Paired(Lines(i) \o saving[i])
    BY Pieces DEF FileTypes, PairedInv, Lines, LinesOf
  <2> DEFINE s == Lines(i)
  <2> HIDE DEF s
  <2>2. Paired(s) /\ s \in Seq(Tx)
    BY <2>1, PairedPrefix DEF s
  <2> QED
    BY <2>2, PairedRegistered DEF s
<1> QED
  BY <1>1, AccountsInvariance, PTL

\* The files are read in the order in which they were written.
ReadInOrder ==
  \A i \in Node : Validate(i) =>
    \E order \in SetToSeqs(NewTx(i)) :
      saving' = [saving EXCEPT ![i] = Valid(Lines(i), NewTx(i), order)]

\* No line that is saved, or valid and still to be saved, leaves an account below zero.
NonNegativeInv == \A i \in Node : NonNegative(Lines(i) \o saving[i])

\* Every step keeps the balances from below zero.
LEMMA NonNegativeStays ==
  ASSUME Regular(Tx)
  PROVE  Types /\ ChainInv /\ FileTypes /\ NonNegativeInv /\ [Next]_vars /\ [ReadInOrder]_vars =>
           NonNegativeInv'
<1> SUFFICES ASSUME Types, ChainInv, FileTypes, NonNegativeInv, [Next]_vars, [ReadInOrder]_vars,
                    NEW j \in Node
             PROVE  NonNegative((Lines(j) \o saving[j])')
  BY DEF NonNegativeInv
<1>1. Lines(j) \in Seq(Tx) /\ saving[j] \in Seq(Tx)
  BY Pieces DEF FileTypes, Lines, LinesOf
<1>2. CASE UNCHANGED <<files, saving>>
  BY <1>2 DEF NonNegativeInv, Lines
<1>3. ASSUME NEW i \in Node, SaveNext(i) PROVE NonNegative((Lines(j) \o saving[j])')
  <2>1. CASE i = j
    BY <1>3, <2>1, SaveAdds DEF NonNegativeInv
  <2>2. CASE i # j
    <3>1. files'[j] = files[j] /\ saving'[j] = saving[j]
      BY <1>3, <2>2, SaveAdds DEF FileTypes
    <3>2. Lines(j)' = Lines(j)
      BY <3>1 DEF Lines
    <3> QED
      BY <3>1, <3>2 DEF NonNegativeInv
  <2> QED
    BY <2>1, <2>2
<1>4. ASSUME NEW i \in Node, Validate(i) PROVE NonNegative((Lines(j) \o saving[j])')
  <2>1. CASE UNCHANGED vars
    BY <1>2, <2>1 DEF vars
  <2>2. CASE ReadInOrder
    <3> DEFINE new == NewTx(i)
               s   == Lines(i)
    <3>1. PICK order \in SetToSeqs(new) : saving' = [saving EXCEPT ![i] = Valid(s, new, order)]
      BY <1>4, <2>2 DEF ReadInOrder
    <3>2. /\ new \subseteq Tx /\ saving[i] = <<>> /\ files' = files
      BY <1>4, ValidateReads
    <3>3. order \in Seq(new)
      BY <1>4, <3>1, Batches DEF Validate
    <3> DEFINE valid == Valid(s, new, order)
    <3>4. Lines(j)' = Lines(j) /\ saving'[j] = IF i = j THEN valid ELSE saving[j]
      BY <3>1, <3>2 DEF FileTypes, Lines
    <3>5. CASE i # j
      BY <3>4, <3>5 DEF NonNegativeInv
    <3>6. CASE i = j
      <4>1. s \in Seq(Tx) /\ NonNegative(s)
        <5>1. Lines(i) \in Seq(Tx) /\ NonNegative(Lines(i) \o saving[i])
          BY <1>1, <3>6 DEF NonNegativeInv
        <5> HIDE DEF s
        <5>2. s \o <<>> = s
          BY <5>1 DEF s
        <5> QED
          BY <3>2, <5>1, <5>2 DEF s
      <4>2. Tx \in SUBSET Transaction
        BY TxFacts
      <4> HIDE DEF s, new
      <4>3. NonNegative(s \o valid)
        BY <3>2, <3>3, <4>1, <4>2, ValidNonNegative
      <4> HIDE DEF valid
      <4> QED
        BY <3>4, <3>6, <4>3 DEF s
    <3> QED
      BY <3>5, <3>6
  <2> QED
    BY <2>1, <2>2
<1> QED
  BY <1>2, <1>3, <1>4, OtherSteps

\* Files that are read in the order of writing overdraw nothing. The code does not
\* read them so (os.listdir, in any order); where it cannot help doing so is the
\* theorem below.
LEMMA NoOverdraftInOrder ==
  ASSUME Regular(Tx)
  PROVE  Spec /\ [][ReadInOrder]_vars => []NoOverdraft
<1>1. Init => NonNegativeInv
  <2> SUFFICES ASSUME Init, NEW i \in Node PROVE NonNegative(Lines(i) \o saving[i])
    BY DEF NonNegativeInv
  <2>3. Lines(i) \o saving[i] = <<>>
    BY NothingAtFirst DEF NothingYet
  <2> DEFINE s == Lines(i) \o saving[i]
  <2>4. s \in Seq(Transaction) /\ Len(s) = 0
    BY <2>3
  <2> HIDE DEF s
  <2>5. \A a \in Acct : Counted(s, a)[0] = 0
    BY <2>4, Counting
  <2>6. NonNegative(s)
    BY <2>4, <2>5 DEF NonNegative
  <2> QED
    BY <2>6 DEF s
<1>2. FileTypes /\ NonNegativeInv => NoOverdraft
  <2> SUFFICES ASSUME FileTypes, NonNegativeInv, NEW i \in Node, NEW a \in Acct,
                      NEW k \in 0 .. Len(Lines(i))
               PROVE  get_balance(SubSeq(Lines(i), 1, k), a) >= 0
    BY DEF NoOverdraft
  <2>1. Lines(i) \in Seq(Tx) /\ saving[i] \in Seq(Tx) /\ NonNegative(Lines(i) \o saving[i])
    BY Pieces DEF FileTypes, NonNegativeInv, Lines, LinesOf
  <2> DEFINE s == Lines(i)
  <2> HIDE DEF s
  <2>2. s \in Seq(Transaction) /\ saving[i] \in Seq(Transaction)
    BY <2>1, TxFacts, SeqOfMore DEF s
  <2>3. NonNegative(s)
    BY <2>1, <2>2, NonNegativePrefix DEF s
  <2>4. k \in 0 .. Len(s)
    BY DEF s
  <2>5. get_balance(SubSeq(s, 1, k), a) = Counted(s, a)[k]
    BY <2>2, <2>4, BalanceOfFirst
  <2> QED
    BY <2>3, <2>4, <2>5 DEF NonNegative, s
<1>3. Types /\ ChainInv /\ FileTypes /\ NonNegativeInv /\ [Next]_vars /\ [ReadInOrder]_vars =>
        NonNegativeInv'
  BY NonNegativeStays
<1> QED
  BY <1>1, <1>2, <1>3, FilesInvariance, PTL DEF Spec

\* As long as the transactions of a node fit into one file, there is no other order
\* to read them in, and no line takes an account below zero, if no balance or amount
\* is negative and no account pays itself: the user service accepts either, and the
\* balances are then wrong in one file as well.
OneFile == \A i \in Node : Len(files[i]) <= 1
THEOREM NoOverdraftInOneFile ==
  ASSUME Regular(Tx)
  PROVE  Spec /\ []OneFile => []NoOverdraft
<1>1. FileTypes /\ OneFile => ReadInOrder
  <2> SUFFICES ASSUME FileTypes, OneFile, NEW i \in Node, Validate(i)
               PROVE  \E order \in SetToSeqs(NewTx(i)) :
                        saving' = [saving EXCEPT ![i] = Valid(Lines(i), NewTx(i), order)]
    BY DEF ReadInOrder
  <2>1. \E order \in SetToSeqs(NewTx(i)), listed \in ListOrders(files[i]) :
          saving' = [saving EXCEPT ![i] = Valid(read_block(files[i], listed), NewTx(i), order)]
    BY DEF Validate
  <2>2. \A listed \in ListOrders(files[i]) : read_block(files[i], listed) = LinesOf(files[i])
    BY OrderedRead DEF FileTypes, OneFile
  <2>3. LinesOf(files[i]) = Lines(i)
    BY DEF LinesOf, Lines
  <2> QED
    BY <2>1, <2>2, <2>3
<1>2. FileTypes /\ OneFile => [ReadInOrder]_vars
  BY <1>1
<1> QED
  BY <1>2, NoOverdraftInOrder, FilesInvariance, PTL

-----------------------------------------------------------------------------
(* The user service watches the nodes.                                     *)

\* A step of the service, the client or the nodes is one of the nodes or none.
LEMMA ServiceSteps == [ServiceNext]_allVars => [Next]_vars
BY DEF ServiceNext, allVars, Send, ListFiles, Answer, ReadFile, Next

\* The user service and its client only watch: the nodes behind them behave as they
\* do by themselves, so that what holds of the nodes holds with the service.
THEOREM ServiceWatches == ServiceSpec => Spec
<1>1. ServiceInit => Init
  BY DEF ServiceInit
<1> QED
  BY <1>1, ServiceSteps, PTL DEF ServiceSpec, Spec

\* A call that has listed the first n files has read all the lines of those it has
\* taken, but for the last of them, which may have grown: of each a beginning.
Reading(n) ==
  /\ n \in 1 .. Len(Written)
  /\ unread \subseteq 1 .. n
  /\ heard \subseteq (1 .. n) \X Nat
  /\ \A q \in heard : \A m \in 1 .. q[2] : <<q[1], m>> \in heard
  /\ \A k \in (1 .. n) \ unread : k < n => \A m \in DOMAIN Written[k].txs : <<k, m>> \in heard
ReadInv == reading => \E n \in Nat : Reading(n)

\* The files may grow while a call reads them.
LEMMA ReadingStays ==
  ASSUME ChainInv, NEW n \in Nat, Reading(n), NEW i \in Node, SaveNext(i), UNCHANGED readVars
  PROVE  Reading(n)'
<1> DEFINE t == Head(saving[i])
           more == save_block(Written, t)
<1>1. files' = [files EXCEPT ![i] = save_block(files[i], t)]
  BY DEF SaveNext
<1>2. Written' = IF i = server_id THEN more ELSE Written
  BY <1>1, ServerAssumption DEF ChainInv, Written
<1>3. WellMade(Written)
  BY ServerAssumption DEF ChainInv, Written
<1>4. /\ Len(Written) \in Nat /\ Len(more) \in Nat /\ Len(more) >= Len(Written)
      /\ \A k \in 1 .. Len(Written) - 1 : more[k] = Written[k]
  BY <1>3, SaveKeepsOld
<1> HIDE DEF more
<1>5. n \in 1 .. Len(Written')
  BY <1>2, <1>4 DEF Reading
<1>6. \A k \in 1 .. n : k < n => Written'[k] = Written[k]
  BY <1>2, <1>4 DEF Reading
<1>7. unread' = unread /\ heard' = heard
  BY DEF readVars
<1> QED
  BY <1>5, <1>6, <1>7 DEF Reading

\* Every step of the nodes, of the client and of the call keeps what it has read.
LEMMA ReadInductive == ChainInv /\ ReadInv /\ [ServiceNext]_allVars => ReadInv'
<1> SUFFICES ASSUME ChainInv, ReadInv, [ServiceNext]_allVars PROVE ReadInv'
  OBVIOUS
<1>1. /\ WellMade(Written) /\ Len(Written) \in Nat /\ DOMAIN Written = 1 .. Len(Written)
      /\ (Written # <<>> => Len(Written) # 0)
  <2>1. WellMade(Written)
    BY ServerAssumption DEF ChainInv, Written
  <2>2. PICK S : Written \in Seq(S)
    BY <2>1 DEF WellMade, Files
  <2> QED
    BY <2>1, <2>2
<1>2. CASE ListFiles
  <2>1. /\ unread' = 1 .. Len(Written) /\ heard' = {} /\ Written # <<>> /\ files' = files
    BY <1>1, <1>2 DEF ListFiles, vars
  <2>2. Len(Written) \in 1 .. Len(Written)
    BY <1>1, <2>1
  <2>3. Reading(Len(Written))'
    BY <2>1, <2>2 DEF Reading, Written
  <2> QED
    BY <1>1, <2>3 DEF ReadInv
<1>3. ASSUME NEW k \in DOMAIN Written, ReadFile(k) PROVE ReadInv'
  <2>1. /\ k \in unread /\ unread' = unread \ {k} /\ Written' = Written /\ reading' = reading
        /\ heard' = heard \cup {<<k, m>> : m \in DOMAIN Written[k].txs}
    BY <1>3 DEF ReadFile, vars, Written
  <2>2. DOMAIN Written[k].txs = 1 .. Len(Written[k].txs) /\ Len(Written[k].txs) \in Nat
    BY <1>1, LinesOfFile
  <2>3. ASSUME NEW n \in Nat, Reading(n) PROVE Reading(n)'
    <3>1. /\ unread' \subseteq 1 .. n /\ k \in 1 .. n
      BY <2>1, <2>3 DEF Reading
    <3>2. heard' \subseteq (1 .. n) \X Nat
      BY <2>1, <2>2, <2>3, <3>1 DEF Reading
    <3>3. ASSUME NEW q \in heard', NEW m \in 1 .. q[2] PROVE <<q[1], m>> \in heard'
      <4>1. CASE q \in heard
        BY <2>1, <2>3, <3>3, <4>1 DEF Reading
      <4>2. ASSUME NEW l \in DOMAIN Written[k].txs, q = <<k, l>> PROVE <<q[1], m>> \in heard'
        <5>1. m \in 1 .. l /\ q[1] = k
          BY <3>3, <4>2
        <5>2. m \in DOMAIN Written[k].txs
          BY <2>2, <5>1
        <5> QED
          BY <2>1, <5>1, <5>2
      <4> QED
        BY <2>1, <4>1, <4>2
    <3>4. ASSUME NEW l \in (1 .. n) \ unread', l < n, NEW m \in DOMAIN Written[l].txs
          PROVE  <<l, m>> \in heard'
      <4>1. CASE l = k
        BY <2>1, <3>4, <4>1
      <4>2. CASE l # k
        BY <2>1, <2>3, <3>4, <4>2 DEF Reading
      <4> QED
        BY <4>1, <4>2
    <3> QED
      BY <2>1, <2>3, <3>1, <3>2, <3>3, <3>4 DEF Reading
  <2> QED
    BY <2>1, <2>3 DEF ReadInv
<1>4. CASE Answer
  BY <1>4 DEF Answer, ReadInv
<1>5. ASSUME NEW i \in Node, SaveNext(i), UNCHANGED readVars PROVE ReadInv'
  BY <1>5, ReadingStays DEF ReadInv, readVars
<1>6. CASE UNCHANGED files /\ UNCHANGED readVars
  <2>1. UNCHANGED Written
    BY <1>6 DEF Written
  <2>2. \A n \in Nat : Reading(n) => Reading(n)'
    BY <1>6, <2>1 DEF Reading, readVars
  <2> QED
    BY <1>6, <2>2 DEF ReadInv, readVars
<1>7. \/ \E i \in Node : SaveNext(i) /\ UNCHANGED readVars
      \/ \E k \in DOMAIN Written : ReadFile(k)
      \/ ListFiles \/ Answer \/ (UNCHANGED files /\ UNCHANGED readVars)
  BY DEF ServiceNext, allVars, vars, Send, Submit, StartRound, Agree, Validate
<1> QED
  BY <1>2, <1>3, <1>4, <1>5, <1>6, <1>7

\* What a call tells a client is what the files held at some moment, although the
\* node goes on writing while the call reads them one by one.
THEOREM ReadsAPrefixTheorem == ServiceSpec => []ReadsAPrefix
<1>1. ServiceInit => ReadInv
  BY DEF ServiceInit, ReadInv
<1>2. ChainInv /\ ReadInv => ReadsAPrefix
  <2> SUFFICES ASSUME ChainInv, ReadInv, reading, unread = {},
                      NEW q \in heard, NEW p \in Places, Before(p, q)
               PROVE  p \in heard
    BY DEF ReadsAPrefix
  <2>1. PICK n \in Nat : Reading(n)
    BY DEF ReadInv
  <2>2. WellMade(Written)
    BY ServerAssumption DEF ChainInv, Written
  <2>3. PICK k \in DOMAIN Written : \E m \in DOMAIN Written[k].txs : p = <<k, m>>
    BY DEF Places
  <2>4. PICK m \in DOMAIN Written[k].txs : p = <<k, m>>
    BY <2>3
  <2>5. /\ m \in 1 .. Len(Written[k].txs) /\ Len(Written[k].txs) \in Nat
        /\ k \in Nat /\ k >= 1
    <3>1. PICK S : Written \in Seq(S)
      BY <2>2 DEF WellMade, Files
    <3> QED
      BY <2>2, <2>3, <3>1, LinesOfFile
  <2>6. q[1] \in 1 .. n /\ q[2] \in Nat
    BY <2>1 DEF Reading
  <2>7. p[1] = k /\ p[2] = m
    BY <2>4
  <2>8. CASE k < q[1]
    <3>1. k \in (1 .. n) \ unread /\ k < n
      BY <2>5, <2>6, <2>8
    <3> QED
      BY <2>1, <2>4, <3>1 DEF Reading
  <2>9. CASE k = q[1] /\ m < q[2]
    <3>1. m \in 1 .. q[2]
      BY <2>5, <2>6, <2>9
    <3> QED
      BY <2>1, <2>9, <2>4, <3>1 DEF Reading
  <2> QED
    BY <2>7, <2>8, <2>9 DEF Before
<1>3. ServiceSpec => []ChainInv
  <2>1. Init => ChainInv
    BY ChainAtFirst
  <2> QED
    BY <2>1, ChainInductive, ServiceWatches, PTL DEF Spec
<1> QED
  BY <1>1, <1>2, <1>3, ReadInductive, PTL DEF ServiceSpec

-----------------------------------------------------------------------------
(* The accounts that a client has been shown.                              *)

\* A file that is written to keeps the places it had.
LEMMA SaveKeepsPlaces ==
  ASSUME NEW fs, NEW T, Holds(fs, T), NEW t \in T, NEW k \in DOMAIN fs
  PROVE  /\ k \in DOMAIN save_block(fs, t)
         /\ DOMAIN fs[k].txs \subseteq DOMAIN save_block(fs, t)[k].txs
<1>1. PICK S : fs \in Seq([prev : S, txs : Seq(S)])
  BY DEF Holds, WellMade, Files
<1>2. /\ Len(fs) \in Nat /\ DOMAIN fs = 1 .. Len(fs) /\ fs[k].txs \in Seq(T)
      /\ Last(fs) = fs[Len(fs)]
  BY <1>1 DEF Holds, Last
<1>3. CASE fs # <<>> /\ Len(Last(fs).txs) < BlockSize
  <2>1. save_block(fs, t) = [fs EXCEPT ![Len(fs)].txs = Append(@, t)]
    BY <1>3 DEF save_block
  <2>2. CASE k = Len(fs)
    <3> DEFINE x == Append(fs[k].txs, t)
    <3>1. save_block(fs, t)[k] = [fs[k] EXCEPT !.txs = x]
      BY <1>2, <2>1, <2>2
    <3>2. fs[k] \in [prev : S, txs : Seq(S)]
      <4> DEFINE Q == [prev : S, txs : Seq(S)]
      <4>1. fs \in Seq(Q)
        BY <1>1
      <4> HIDE DEF Q
      <4>2. fs[k] \in Q
        BY <4>1
      <4> QED
        BY <4>2 DEF Q
    <3>3. save_block(fs, t)[k].txs = x
      <4> HIDE DEF x
      <4>1. [fs[k] EXCEPT !.txs = x] = [prev |-> fs[k].prev, txs |-> x]
        BY <3>2, NewTxs
      <4> QED
        BY <3>1, <4>1
    <3> QED
      BY <1>2, <2>1, <3>3
  <2>3. CASE k # Len(fs)
    BY <1>2, <2>1, <2>3
  <2> QED
    BY <2>2, <2>3
<1>4. CASE ~ (fs # <<>> /\ Len(Last(fs).txs) < BlockSize)
  <2> DEFINE file == [prev |-> IF fs = <<>> THEN Genesis ELSE Last(fs), txs |-> <<t>>]
  <2>1. save_block(fs, t) = Append(fs, file)
    BY <1>4 DEF save_block
  <2> HIDE DEF file
  <2>2. k \in DOMAIN Append(fs, file) /\ Append(fs, file)[k] = fs[k]
    BY <1>1, <1>2
  <2> QED
    BY <2>1, <2>2
<1> QED
  BY <1>3, <1>4

\* What a call has read is in the files.
HeardInv == heard \subseteq Places

\* Every step keeps what has been read in the files.
LEMMA HeardStays == ChainInv /\ FileTypes /\ HeardInv /\ [ServiceNext]_allVars => HeardInv'
<1> SUFFICES ASSUME ChainInv, FileTypes, HeardInv, [ServiceNext]_allVars PROVE HeardInv'
  OBVIOUS
<1>1. ASSUME NEW k \in DOMAIN Written, ReadFile(k) PROVE HeardInv'
  <2>1. /\ heard' = heard \cup {<<k, n>> : n \in DOMAIN Written[k].txs} /\ Written' = Written
    BY <1>1 DEF ReadFile, vars, Written
  <2>2. Places' = Places
    BY <2>1 DEF Places
  <2> QED
    BY <2>1, <2>2 DEF HeardInv, Places
<1>2. CASE ListFiles \/ Answer
  BY <1>2 DEF ListFiles, Answer, HeardInv
<1>3. ASSUME NEW i \in Node, SaveNext(i), UNCHANGED readVars PROVE HeardInv'
  <2> DEFINE t == Head(saving[i])
  <2>1. /\ saving[i] # <<>> /\ saving[i] \in Seq(Tx)
        /\ files' = [files EXCEPT ![i] = save_block(files[i], t)] /\ heard' = heard
    BY <1>3 DEF SaveNext, FileTypes, readVars
  <2>2. t \in Tx
    BY <2>1
  <2> HIDE DEF t
  <2>3. Holds(Written, Tx)
    BY ServerAssumption DEF FileTypes, Written
  <2>4. Written' = IF i = server_id THEN save_block(Written, t) ELSE Written
    BY <2>1, ServerAssumption DEF ChainInv, Written
  <2>5. \A k \in DOMAIN Written : k \in DOMAIN Written' /\ DOMAIN Written[k].txs \subseteq DOMAIN Written'[k].txs
    BY <2>2, <2>3, <2>4, SaveKeepsPlaces
  <2>6. Places \subseteq Places'
    BY <2>5 DEF Places
  <2> QED
    BY <2>1, <2>6 DEF HeardInv
<1>4. CASE UNCHANGED files /\ UNCHANGED heard
  BY <1>4 DEF HeardInv, Places, Written
<1>5. \/ \E i \in Node : SaveNext(i) /\ UNCHANGED readVars
      \/ \E k \in DOMAIN Written : ReadFile(k)
      \/ ListFiles \/ Answer \/ (UNCHANGED files /\ UNCHANGED heard)
  BY DEF ServiceNext, allVars, vars, readVars, Send, Submit, StartRound, Agree, Validate
<1> QED
  BY <1>1, <1>2, <1>3, <1>4, <1>5

\* Both accounts of a payment t are registered by the first n of the batches.
PartiesIn(batches, n, t) ==
  ~ IsAccount(t) => RegisteredIn(batches, n, t.src) /\ RegisteredIn(batches, n, t.dst)

\* Accounts that are shown, and those of payments that are on their way, have been
\* agreed on; those of a payment that is agreed on, in an earlier round.
RequestInv ==
  /\ \A a \in accts : RegisteredIn(agreed, Len(agreed), a)
  /\ \A q \in Request \ unsent : PartiesIn(agreed, Len(agreed), Txn[q])
  /\ \A r \in 1 .. Len(agreed) : \A t \in agreed[r] : PartiesIn(agreed, r - 1, t)

\* More batches register no fewer accounts.
LEMMA MoreRegistered ==
  ASSUME NEW batches, NEW more, NEW n \in Nat, NEW m \in Nat, n <= m,
         \A r \in 1 .. n : more[r] = batches[r]
  PROVE  /\ \A a : RegisteredIn(batches, n, a) => RegisteredIn(more, m, a)
         /\ \A t : PartiesIn(batches, n, t) => PartiesIn(more, m, t)
<1>1. 1 .. n \subseteq 1 .. m
  OBVIOUS
<1>2. \A a : RegisteredIn(batches, n, a) => RegisteredIn(more, m, a)
  BY <1>1 DEF RegisteredIn
<1> QED
  BY <1>2 DEF PartiesIn

\* What a call has read registers accounts that have been agreed on.
LEMMA ShownRegistered ==
  ASSUME Types, FileTypes, AccountsInv, HeardInv, NEW a \in Shown
  PROVE  RegisteredIn(agreed, Len(agreed), a)
<1> DEFINE s == Lines(server_id)
<1>1. PICK q \in heard : IsAccount(LineAt(q)) /\ a = LineAt(q).acct
  BY DEF Shown
<1>2. Holds(Written, Tx)
  BY ServerAssumption DEF FileTypes, Written
<1>3. s = LinesOf(Written) /\ s \in Seq(Tx) /\ saving[server_id] \in Seq(Tx)
  BY <1>2, ServerAssumption, Pieces DEF FileTypes, Lines, LinesOf, Written
<1>4. PICK k \in DOMAIN Written : \E n \in DOMAIN Written[k].txs : q = <<k, n>>
  BY DEF HeardInv, Places
<1>5. PICK n \in DOMAIN Written[k].txs : q = <<k, n>>
  BY <1>4
<1> DEFINE pieces == [j \in DOMAIN Written |-> Written[j].txs]
<1>6. LineAt(q) \in ToSet(pieces[k])
  BY <1>5 DEF LineAt, ToSet
<1>7. /\ pieces \in Seq(Seq(Tx)) /\ Len(pieces) = Len(Written)
      /\ DOMAIN Written = 1 .. Len(Written)
  BY <1>2, Pieces
<1>8. s = FlattenSeq(pieces)
  BY <1>3 DEF LinesOf
<1> HIDE DEF pieces, s
<1>9. LineAt(q) \in ToSet(s)
  <2>1. ToSet(FlattenSeq(pieces)) = UNION {ToSet(pieces[j]) : j \in 1 .. Len(pieces)}
    BY <1>7, FlattenMembers
  <2> QED
    BY <1>6, <1>7, <1>8, <2>1
<1>10. Known(s, a)
  BY <1>1, <1>3, <1>9, KnownMembers
<1>11. a \in Acct
  <2>1. LineAt(q) \in Tx
    BY <1>3, <1>9 DEF ToSet
  <2> QED
    BY <1>1, <2>1, TxFacts, Fields
<1>12. RegisteredIn(agreed, round[server_id], a)
  <2>1. Known(s \o saving[server_id], a)
    BY <1>3, <1>10, KnownConcat
  <2> QED
    BY <1>11, <2>1, ServerAssumption DEF AccountsInv, s
<1>13. round[server_id] \in Nat /\ Len(agreed) \in Nat /\ round[server_id] <= Len(agreed)
  BY ServerAssumption DEF Types
<1> QED
  BY <1>12, <1>13, MoreRegistered

\* Every step keeps the registrations before the payments.
LEMMA RequestsStay ==
  IndInv /\ FileTypes /\ AccountsInv /\ HeardInv /\ RequestInv /\ [ServiceNext]_allVars => RequestInv'
<1> SUFFICES ASSUME IndInv, FileTypes, AccountsInv, HeardInv, RequestInv, [ServiceNext]_allVars
             PROVE  RequestInv'
  OBVIOUS
<1>1. Types /\ Len(agreed) \in Nat
  BY DEF IndInv, Types
<1>2. ASSUME UNCHANGED agreed,
             \A a \in accts' : RegisteredIn(agreed, Len(agreed), a),
             \A q \in Request \ unsent' : PartiesIn(agreed, Len(agreed), Txn[q])
      PROVE  RequestInv'
  BY <1>2 DEF RequestInv
<1>3. ASSUME NEW q \in Request, Send(q) PROVE RequestInv'
  <2>1. /\ unsent' = unsent \ {q} /\ agreed' = agreed /\ accts' = accts
        /\ ~ IsAccount(Txn[q]) => {Txn[q].src, Txn[q].dst} \subseteq accts
    BY <1>3 DEF Send, Submit, readVars
  <2>2. PartiesIn(agreed, Len(agreed), Txn[q])
    BY <2>1 DEF RequestInv, PartiesIn
  <2> QED
    BY <1>2, <2>1, <2>2 DEF RequestInv
<1>4. CASE Answer
  BY <1>1, <1>2, <1>4, ShownRegistered DEF Answer, vars, RequestInv
<1>5. CASE Agree /\ UNCHANGED readVars
  <2> DEFINE R == Len(agreed)
  <2>1. PICK S \in SUBSET Proposers(R) : agreed' = Append(agreed, {Txn[q] : q \in UNION {proposal[i] : i \in S}})
    BY <1>5 DEF Agree
  <2> DEFINE new == {Txn[q] : q \in UNION {proposal[i] : i \in S}}
  <2>2. unsent' = unsent /\ accts' = accts
    BY <1>5 DEF Agree, readVars
  <2>3. \A t \in new : t \in Tx /\ \E q \in Request, i \in Node : q \in proposal[i] /\ t = Txn[q]
    BY <1>1 DEF Types, Proposers, Tx
  <2>4. \A t \in new : PartiesIn(agreed, R, t)
    <3> SUFFICES ASSUME NEW t \in new PROVE PartiesIn(agreed, R, t)
      OBVIOUS
    <3>1. PICK q \in Request, i \in Node : q \in proposal[i] /\ t = Txn[q]
      BY <2>3
    <3>2. q \notin unsent
      BY <3>1 DEF IndInv, InOnePlace
    <3> QED
      BY <3>1, <3>2 DEF RequestInv
  <2>5. new \in SUBSET Tx
    BY <2>3
  <2> HIDE DEF new
  <2>6. /\ Len(agreed') = R + 1 /\ agreed'[R + 1] = new
        /\ \A r \in 1 .. R : agreed'[r] = agreed[r]
    BY <1>1, <2>1, <2>5 DEF Types, new
  <2>7. \A n \in 0 .. R : \A m \in n .. R + 1 :
          /\ \A a : RegisteredIn(agreed, n, a) => RegisteredIn(agreed', m, a)
          /\ \A t : PartiesIn(agreed, n, t) => PartiesIn(agreed', m, t)
    <3> SUFFICES ASSUME NEW n \in 0 .. R, NEW m \in n .. R + 1
                 PROVE  /\ \A a : RegisteredIn(agreed, n, a) => RegisteredIn(agreed', m, a)
                        /\ \A t : PartiesIn(agreed, n, t) => PartiesIn(agreed', m, t)
      OBVIOUS
    <3>1. n \in Nat /\ m \in Nat /\ n <= m /\ \A r \in 1 .. n : agreed'[r] = agreed[r]
      BY <1>1, <2>6
    <3> QED
      BY <3>1, MoreRegistered
  <2>8. R \in 0 .. R /\ R + 1 \in R .. R + 1 /\ R \in R .. R + 1
    BY <1>1
  <2>9. \A a \in accts' : RegisteredIn(agreed', Len(agreed'), a)
    BY <2>2, <2>6, <2>7, <2>8 DEF RequestInv
  <2>10. \A q \in Request \ unsent' : PartiesIn(agreed', Len(agreed'), Txn[q])
    BY <2>2, <2>6, <2>7, <2>8 DEF RequestInv
  <2>11. \A r \in 1 .. Len(agreed') : \A t \in agreed'[r] : PartiesIn(agreed', r - 1, t)
    <3> SUFFICES ASSUME NEW r \in 1 .. R + 1, NEW t \in agreed'[r] PROVE PartiesIn(agreed', r - 1, t)
      BY <2>6
    <3>1. CASE r = R + 1
      <4>1. PartiesIn(agreed, R, t) /\ r - 1 = R
        BY <1>1, <2>4, <2>6, <3>1
      <4> QED
        BY <2>7, <2>8, <4>1
    <3>2. CASE r # R + 1
      <4>1. r \in 1 .. R /\ r - 1 \in 0 .. R /\ r - 1 \in r - 1 .. R + 1
        BY <1>1, <3>2
      <4>2. PartiesIn(agreed, r - 1, t)
        BY <2>6, <4>1 DEF RequestInv
      <4> QED
        BY <2>7, <4>1, <4>2
    <3> QED
      BY <3>1, <3>2
  <2> QED
    BY <2>9, <2>10, <2>11 DEF RequestInv
<1>6. CASE UNCHANGED <<agreed, accts, unsent>>
  BY <1>2, <1>6 DEF RequestInv
<1>7. \/ \E q \in Request : Send(q)
      \/ Answer
      \/ Agree /\ UNCHANGED readVars
      \/ UNCHANGED <<agreed, accts, unsent>>
  BY DEF ServiceNext, allVars, vars, readVars, ListFiles, ReadFile, StartRound, Validate, SaveNext
<1> QED
  BY <1>3, <1>4, <1>5, <1>6, <1>7

\* All that is known of the service and of the nodes behind it.
LEMMA ServiceInvariance ==
  ASSUME Positive(Tx)
  PROVE  ServiceSpec => [](IndInv /\ ChainInv /\ FileTypes /\ AccountsInv /\ RequestInv)
<1>1. ServiceInit => HeardInv /\ RequestInv
  <2> SUFFICES ASSUME ServiceInit PROVE HeardInv /\ RequestInv
    OBVIOUS
  <2>1. heard = {} /\ accts = {} /\ agreed = <<>> /\ unsent = Request
    BY DEF ServiceInit, Init
  <2>2. Request \ unsent = {}
    BY <2>1
  <2> QED
    BY <2>1, <2>2 DEF HeardInv, RequestInv
<1>2. Spec => [](Types /\ ChainInv /\ FileTypes /\ PairedInv /\ AccountsInv)
  BY AccountsInvariance
<1> QED
  BY <1>1, <1>2, Invariance, ServiceWatches, HeardStays, RequestsStay, PTL DEF ServiceSpec

\* When a node is about to validate a batch, its files register both accounts of
\* every payment in it, whatever node the client has sent it to and however far the
\* node is behind the one that the client was shown.
PartiesKnown ==
  \A i \in Node : Returned(i) => \A t \in NewTx(i) : ~ IsAccount(t) =>
    {t.src, t.dst} \subseteq Registered(Lines(i))

\* The accounts of a batch that a node gets are in the node's files.
LEMMA BatchKnown ==
  ASSUME IndInv, FileTypes, AccountsInv, RequestInv, NEW i \in Node, Returned(i),
         NEW t \in NewTx(i), ~ IsAccount(t)
  PROVE  /\ Lines(i) \in Seq(Tx) /\ saving[i] = <<>> /\ t.src \in Acct /\ t.dst \in Acct
         /\ Known(Lines(i), t.src) /\ Known(Lines(i), t.dst)
<1>1. Types /\ round[i] \in Nat /\ round[i] + 1 \in 1 .. Len(agreed)
  BY DEF IndInv, Types, Returned
<1>2. t \in Tx /\ t \in agreed[round[i] + 1]
  BY <1>1 DEF Types, NewTx
<1>3. PartiesIn(agreed, round[i], t)
  BY <1>1, <1>2 DEF RequestInv
<1>4. t.src \in Acct /\ t.dst \in Acct
  BY <1>2, TxFacts, Fields
<1>5. saving[i] = <<>> /\ Lines(i) \in Seq(Tx)
  BY Pieces DEF FileTypes, Returned, Lines, LinesOf
<1> DEFINE s == Lines(i)
<1>6. Known(s \o saving[i], t.src) /\ Known(s \o saving[i], t.dst)
  BY <1>3, <1>4 DEF AccountsInv, PartiesIn
<1> HIDE DEF s
<1>7. s \o <<>> = s
  BY <1>5 DEF s
<1> QED
  BY <1>4, <1>5, <1>6, <1>7 DEF s

\* Every node knows the accounts of a payment by the time it validates it.
THEOREM PartiesKnownTheorem ==
  ASSUME Positive(Tx)
  PROVE  ServiceSpec => []PartiesKnown
<1>1. IndInv /\ FileTypes /\ AccountsInv /\ RequestInv => PartiesKnown
  <2> SUFFICES ASSUME IndInv, FileTypes, AccountsInv, RequestInv, NEW i \in Node, Returned(i),
                      NEW t \in NewTx(i), ~ IsAccount(t)
               PROVE  {t.src, t.dst} \subseteq Registered(Lines(i))
    BY DEF PartiesKnown
  <2> DEFINE s == Lines(i)
  <2>1. s \in Seq(Tx) /\ Known(s, t.src) /\ Known(s, t.dst)
    BY BatchKnown
  <2> HIDE DEF s
  <2>2. \A a : Known(s, a) => a \in Registered(s)
    BY <2>1 DEF Known, Named, Registered
  <2> QED
    BY <2>1, <2>2 DEF s
<1> QED
  BY <1>1, ServiceInvariance, PTL

\* In whatever order a batch that is back is gone through and the files are listed,
\* the payer of each payment has the amount when its turn comes.
Funds ==
  \A i \in Node : Returned(i) =>
    \A order \in SetToSeqs(NewTx(i)), listed \in ListOrders(files[i]) :
      Funded(read_block(files[i], listed), NewTx(i), order)

\* The payments of the rounds that a node has finished are in its files, or valid
\* and still to be saved.
PaidInv ==
  \A i \in Node : \A r \in 1 .. round[i] : \A t \in agreed[r] :
    ~ IsAccount(t) => t \in ToSet(Lines(i) \o saving[i])

\* A node saves the payments of a batch if their payers have the amounts.
LEMMA BatchPaid ==
  ASSUME IndInv, FileTypes, AccountsInv, RequestInv, Funds, NEW i \in Node, Validate(i),
         NEW t \in NewTx(i), ~ IsAccount(t)
  PROVE  t \in ToSet(saving'[i])
<1>1. Types /\ Returned(i)
  BY DEF IndInv, Validate
<1>2. PICK order \in SetToSeqs(NewTx(i)) : \E listed \in ListOrders(files[i]) :
        saving' = [saving EXCEPT ![i] = Valid(read_block(files[i], listed), NewTx(i), order)]
  BY DEF Validate
<1>3. PICK listed \in ListOrders(files[i]) :
        saving' = [saving EXCEPT ![i] = Valid(read_block(files[i], listed), NewTx(i), order)]
  BY <1>2
<1> DEFINE new   == NewTx(i)
           lines == read_block(files[i], listed)
           valid == Valid(lines, new, order)
<1>4. /\ new \subseteq Tx /\ Funded(lines, new, order)
      /\ lines \in Seq(Tx) /\ ToSet(lines) = ToSet(LinesOf(files[i]))
  BY <1>1, Batches, ReadLines DEF Funds, FileTypes
<1>5. LinesOf(files[i]) = Lines(i) /\ Lines(i) \in Seq(Tx) /\ Known(Lines(i), t.dst)
  BY <1>1, BatchKnown DEF LinesOf, Lines
<1>6. saving'[i] = valid
  BY <1>3 DEF FileTypes
<1> HIDE DEF new, lines
<1>7. new \in SUBSET Transaction /\ lines \in Seq(Transaction)
  BY <1>4, TxFacts, SeqOfMore
<1>8. order \in Seq(new) /\ ToSet(order) = new
  <2>1. IsFiniteSet(new)
    BY <1>4, TxFacts, FS_Subset
  <2> QED
    BY <2>1, WholeOrder DEF new
<1>9. Known(lines, t.dst)
  <2> DEFINE s == Lines(i)
  <2>1. s \in Seq(Tx) /\ Known(s, t.dst) /\ ToSet(lines) = ToSet(s)
    BY <1>4, <1>5
  <2> HIDE DEF s
  <2>2. Known(s, t.dst) <=> \E u \in ToSet(s) : IsAccount(u) /\ u.acct = t.dst
    BY <2>1, KnownMembers
  <2>3. Known(lines, t.dst) <=> \E u \in ToSet(lines) : IsAccount(u) /\ u.acct = t.dst
    BY <1>7, KnownMembers
  <2> QED
    BY <2>1, <2>2, <2>3
<1>10. t \in ToSet(order)
  BY <1>8 DEF new
<1>11. t \in ToSet(valid)
  BY <1>4, <1>7, <1>8, <1>9, <1>10, ValidPays
<1> QED
  BY <1>6, <1>11

\* Every step keeps what is paid.
LEMMA PaidStays ==
  IndInv /\ ChainInv /\ FileTypes /\ AccountsInv /\ RequestInv /\ Funds /\ PaidInv /\ [Next]_vars
    => PaidInv'
<1> SUFFICES ASSUME IndInv, ChainInv, FileTypes, AccountsInv, RequestInv, Funds, PaidInv,
                    [Next]_vars, NEW j \in Node, NEW r \in 1 .. round'[j], NEW t \in agreed'[r],
                    ~ IsAccount(t)
             PROVE  t \in ToSet(Lines(j)' \o saving'[j])
  BY DEF PaidInv
<1>1. /\ Types /\ round[j] \in Nat /\ Len(agreed) \in Nat /\ round[j] <= Len(agreed)
      /\ \A i \in Node : round[i] \in Nat
  BY DEF IndInv, Types
<1>2. ASSUME r \in 1 .. round[j], agreed'[r] = agreed[r],
             Lines(j)' \o saving'[j] = Lines(j) \o saving[j]
      PROVE  t \in ToSet(Lines(j)' \o saving'[j])
  BY <1>2 DEF PaidInv
<1>3. ASSUME NEW i \in Node, Validate(i) PROVE t \in ToSet(Lines(j)' \o saving'[j])
  <2>1. agreed' = agreed /\ files' = files
    BY <1>3 DEF Validate
  <2>2. Lines(j)' = Lines(j)
    BY <2>1 DEF Lines
  <2>3. CASE i # j
    <3>1. round'[j] = round[j] /\ saving'[j] = saving[j]
      BY <1>1, <1>3, <2>3 DEF Validate, Types, FileTypes
    <3> QED
      BY <1>2, <2>1, <2>2, <3>1
  <2>4. CASE i = j
    <3>1. round'[j] = round[j] + 1 /\ saving[j] = <<>>
      BY <1>1, <1>3, <2>4 DEF Validate, Returned, Types, FileTypes
    <3> DEFINE s == Lines(j)
               v == saving'[j]
    <3>2. s \in Seq(Tx) /\ v \in Seq(Tx)
      <4>1. FileTypes'
        BY <1>1, FileTypesStay
      <4> QED
        BY <4>1, Pieces DEF FileTypes, Lines, LinesOf
    <3> HIDE DEF s, v
    <3>3. ToSet(s \o v) = ToSet(s) \cup ToSet(v)
      BY <3>2, ConcatSet
    <3>4. CASE r = round[j] + 1
      <4>1. t \in ToSet(v)
        BY <1>3, <2>1, <2>4, <3>4, BatchPaid DEF NewTx, v
      <4> QED
        BY <2>2, <3>3, <4>1 DEF s, v
    <3>5. CASE r # round[j] + 1
      <4>1. r \in 1 .. round[j]
        BY <1>1, <3>1, <3>5
      <4>2. t \in ToSet(s \o <<>>)
        BY <2>1, <3>1, <4>1 DEF PaidInv, s
      <4>3. s \o <<>> = s
        BY <3>2
      <4> QED
        BY <2>2, <3>3, <4>2, <4>3 DEF s, v
    <3> QED
      BY <3>4, <3>5
  <2> QED
    BY <2>3, <2>4
<1>4. ASSUME NEW i \in Node, SaveNext(i) PROVE t \in ToSet(Lines(j)' \o saving'[j])
  <2>1. round' = round /\ agreed' = agreed
    BY <1>4 DEF SaveNext
  <2>2. CASE i = j
    BY <1>2, <1>4, <2>1, <2>2, SaveAdds
  <2>3. CASE i # j
    <3>1. files'[j] = files[j] /\ saving'[j] = saving[j]
      BY <1>4, <2>3, SaveAdds DEF FileTypes
    <3>2. Lines(j)' = Lines(j)
      BY <3>1 DEF Lines
    <3> QED
      BY <1>2, <2>1, <3>1, <3>2
  <2> QED
    BY <2>2, <2>3
<1>5. CASE UNCHANGED <<files, saving, round>>
  <2>1. Lines(j)' \o saving'[j] = Lines(j) \o saving[j]
    BY <1>5 DEF Lines
  <2>2. \A k \in 1 .. Len(agreed) : agreed'[k] = agreed[k]
    BY <1>1, AgreedGrows
  <2>3. r \in 1 .. round[j] /\ r \in 1 .. Len(agreed)
    BY <1>1, <1>5
  <2> QED
    BY <1>2, <2>1, <2>2, <2>3
<1> QED
  BY <1>3, <1>4, <1>5 DEF Next, vars, Submit, StartRound, Agree

\* A payment between accounts that the client has been shown is saved by every node
\* that gets through the round with it, if the payer can afford it wherever it is
\* validated: that no node misses a registration is not an assumption.
THEOREM ShownAccountsCanPayTheorem ==
  ASSUME Positive(Tx)
  PROVE  ServiceSpec /\ []Funds => []ShownAccountsCanPay
<1>1. ServiceInit => PaidInv
  <2> SUFFICES ASSUME ServiceInit, NEW i \in Node PROVE round[i] = 0
    BY DEF PaidInv
  <2> QED
    BY DEF ServiceInit, Init
<1>2. FileTypes /\ PaidInv => ShownAccountsCanPay
  <2> SUFFICES ASSUME FileTypes, PaidInv, NEW i \in Node, NEW r \in 1 .. round[i],
                      NEW t \in agreed[r], ~ IsAccount(t), saving[i] = <<>>
               PROVE  t \in Saved(i)
    BY DEF ShownAccountsCanPay
  <2> DEFINE s == Lines(i)
  <2>1. s \in Seq(Tx) /\ t \in ToSet(s \o <<>>)
    BY Pieces DEF FileTypes, PaidInv, Lines, LinesOf
  <2> HIDE DEF s
  <2>2. s \o <<>> = s
    BY <2>1
  <2> QED
    BY <2>1, <2>2 DEF s, Saved
<1>3. [ServiceNext]_allVars => [Next]_vars
  BY ServiceSteps
<1> QED
  BY <1>1, <1>2, <1>3, PaidStays, ServiceInvariance, PTL DEF ServiceSpec
=============================================================================
