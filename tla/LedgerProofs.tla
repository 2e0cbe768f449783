---------------------------- MODULE LedgerProofs ----------------------------
(***************************************************************************)
(* Proofs about Ledger, for any files, lines and batches: what read_block  *)
(* returns, what save_block adds to it, and what the balances that         *)
(* get_balance, the replay and the validation compute have to do with each *)
(* other.                                                                  *)
(***************************************************************************)
EXTENDS Ledger, Foundations, SequenceTheorems

-----------------------------------------------------------------------------
(* FlattenSeq.                                                             *)

\* What is in one sequence after another is in one of the two.
LEMMA ConcatSet ==
  ASSUME NEW T, NEW s \in Seq(T), NEW t \in Seq(T)
  PROVE  ToSet(s \o t) = ToSet(s) \cup ToSet(t)
<1>1. ToSet(s \o t) \subseteq ToSet(s) \cup ToSet(t)
  BY DEF ToSet
<1>2. ToSet(s) \subseteq ToSet(s \o t)
  BY DEF ToSet
<1>3. ASSUME NEW k \in 1 .. Len(t) PROVE t[k] \in ToSet(s \o t)
  <2>1. Len(s) + k \in DOMAIN (s \o t) /\ (s \o t)[Len(s) + k] = t[k]
    OBVIOUS
  <2> QED
    BY <2>1 DEF ToSet
<1> QED
  BY <1>1, <1>2, <1>3 DEF ToSet

\* The beginnings of a flattened sequence of sequences, one longer at a time.
LEMMA Flattened ==
  ASSUME NEW T, NEW seqs \in Seq(Seq(T))
  PROVE  \E g \in [0 .. Len(seqs) -> Seq(T)] :
           /\ g[0] = <<>>
           /\ \A n \in 1 .. Len(seqs) : g[n] = g[n - 1] \o seqs[n]
           /\ FlattenSeq(seqs) = g[Len(seqs)]
<1> DEFINE L == Len(seqs)
           S == Seq(T)
           step == [n \in 1 .. L |-> [s \in S |-> s \o seqs[n]]]
<1>1. L \in Nat /\ \A k \in 1 .. L : seqs[k] \in S
  OBVIOUS
<1>2. <<>> \in S /\ (\A s, t \in S : s \o t \in S) /\ \A s \in S : <<>> \o s = s
  OBVIOUS
<1>9. L = 0 => seqs = <<>>
  OBVIOUS
<1>10. FlattenSeq(seqs) =
         IF L = 0 THEN seqs
         ELSE (CHOOSE h : h = [i \in 1 .. L |-> IF i = 1 THEN seqs[i] ELSE h[i - 1] \o seqs[i]])[L]
  BY DEF FlattenSeq
<1> HIDE DEF L, S
<1>4. \A n \in 1 .. L : \A s \in S : step[n][s] = s \o seqs[n]
  OBVIOUS
<1>3. \A n \in 1 .. L : \A s \in S : step[n][s] \in S
  BY <1>1, <1>2, <1>4
<1> HIDE DEF step
<1>5. PICK g \in [0 .. L -> S] :
        g[0] = <<>> /\ \A n \in 1 .. L : g[n] = step[n][g[n - 1]]
  <2>1. Runs(S, L, <<>>, step) # {}
    BY <1>1, <1>2, <1>3, Built
  <2>2. PICK g : g \in Runs(S, L, <<>>, step)
    BY <2>1
  <2>3. g \in [0 .. L -> S] /\ g[0] = <<>>
    BY <2>2 DEF Runs
  <2>4. \A n \in 1 .. L : g[n] = step[n][g[n - 1]]
    BY <2>2 DEF Runs
  <2> QED
    BY <2>3, <2>4
<1>6. \A n \in 1 .. L : n - 1 \in 0 .. L /\ g[n - 1] \in S
  <2>1. \A n \in 1 .. L : n - 1 \in 0 .. L
    BY <1>1
  <2>2. \A m \in 0 .. L : g[m] \in S
    OBVIOUS
  <2> QED
    BY <2>1, <2>2
<1>7. \A n \in 1 .. L : g[n] = g[n - 1] \o seqs[n]
  BY <1>4, <1>5, <1>6
<1>8. FlattenSeq(seqs) = g[L]
  <2>1. CASE L = 0
    BY <1>5, <1>9, <1>10, <2>1
  <2>2. CASE L # 0
    <3> DEFINE Is(h) == h = [i \in 1 .. L |-> IF i = 1 THEN seqs[i] ELSE h[i - 1] \o seqs[i]]
               flat  == CHOOSE h : Is(h)
               some  == [i \in 1 .. L |-> g[i]]
    <3>1. g[1] = seqs[1]
      <4>1. 1 \in 1 .. L /\ 1 - 1 = 0
        BY <1>1, <2>2
      <4>2. g[1] = g[0] \o seqs[1]
        BY <1>7, <4>1
      <4> QED
        BY <1>1, <1>2, <1>5, <4>1, <4>2
    <3>2. Is(some)
      <4>1. \A i \in 1 .. L : i # 1 => i - 1 \in 1 .. L
        BY <1>1
      <4>2. \A i \in 1 .. L : some[i] = IF i = 1 THEN seqs[i] ELSE some[i - 1] \o seqs[i]
        BY <1>7, <3>1, <4>1
      <4> QED
        BY <4>2
    <3> HIDE DEF some
    <3>3. Is(flat)
      BY <3>2
    <3>4. FlattenSeq(seqs) = flat[L]
      BY <1>10, <2>2
    <3> HIDE DEF flat
    <3>5. \A i \in 1 .. L : flat[i] = IF i = 1 THEN seqs[i] ELSE flat[i - 1] \o seqs[i]
      BY <3>3
    <3> DEFINE P == {n \in 0 .. L : n # 0 => flat[n] = g[n]}
    <3>6. 0 \in P
      BY <1>1
    <3>7. ASSUME NEW n \in 1 .. L, n - 1 \in P PROVE n \in P
      <4>1. CASE n = 1
        BY <3>1, <3>5, <4>1
      <4>2. CASE n # 1
        <5>1. n - 1 # 0 /\ flat[n - 1] = g[n - 1]
          BY <1>1, <3>7, <4>2
        <5>2. flat[n] = g[n]
          BY <1>7, <3>5, <4>2, <5>1
        <5> QED
          BY <1>1, <5>2
      <4> QED
        BY <4>1, <4>2
    <3> HIDE DEF P
    <3>8. 0 .. L \subseteq P
      BY <1>1, <3>6, <3>7, UpTo
    <3>9. L \in P
      BY <1>1, <3>8
    <3> QED
      BY <2>2, <3>4, <3>9 DEF P
  <2> QED
    BY <2>1, <2>2
<1> QED
  BY <1>5, <1>7, <1>8 DEF L, S

\* One more sequence at the end is one more piece.
LEMMA FlattenAppend ==
  ASSUME NEW T, NEW seqs \in Seq(Seq(T)), NEW x \in Seq(T)
  PROVE  /\ FlattenSeq(seqs) \in Seq(T)
         /\ FlattenSeq(Append(seqs, x)) = FlattenSeq(seqs) \o x
<1> DEFINE L    == Len(seqs)
           more == Append(seqs, x)
<1>1. /\ more \in Seq(Seq(T)) /\ Len(more) = L + 1 /\ L \in Nat
      /\ \A k \in 1 .. L : more[k] = seqs[k]
      /\ more[L + 1] = x
  OBVIOUS
<1>2. PICK g \in [0 .. L -> Seq(T)] :
        /\ g[0] = <<>>
        /\ \A n \in 1 .. L : g[n] = g[n - 1] \o seqs[n]
        /\ FlattenSeq(seqs) = g[L]
  BY Flattened
<1> HIDE DEF more
<1>3. PICK h \in [0 .. L + 1 -> Seq(T)] :
        /\ h[0] = <<>>
        /\ \A n \in 1 .. L + 1 : h[n] = h[n - 1] \o more[n]
        /\ FlattenSeq(more) = h[L + 1]
  <2>1. PICK h \in [0 .. Len(more) -> Seq(T)] :
          /\ h[0] = <<>>
          /\ \A n \in 1 .. Len(more) : h[n] = h[n - 1] \o more[n]
          /\ FlattenSeq(more) = h[Len(more)]
    BY <1>1, Flattened
  <2> QED
    BY <1>1, <2>1
<1> HIDE DEF L
<1> DEFINE P == {n \in 0 .. L : h[n] = g[n]}
<1>4. 0 \in P
  BY <1>1, <1>2, <1>3
<1>5. ASSUME NEW n \in 1 .. L, n - 1 \in P PROVE n \in P
  <2>1. n \in 1 .. L + 1 /\ n \in 0 .. L
    BY <1>1
  <2>2. h[n] = h[n - 1] \o more[n] /\ h[n - 1] = g[n - 1] /\ more[n] = seqs[n]
    BY <1>1, <1>3, <1>5, <2>1
  <2>3. h[n] = g[n]
    BY <1>2, <2>2
  <2> QED
    BY <2>1, <2>3
<1> HIDE DEF P
<1>6. 0 .. L \subseteq P
  BY <1>1, <1>4, <1>5, UpTo
<1>7. L \in P
  BY <1>1, <1>6
<1>8. L + 1 \in 1 .. L + 1 /\ (L + 1) - 1 = L
  BY <1>1
<1>9. h[L + 1] = h[L] \o more[L + 1]
  BY <1>3, <1>8
<1>10. h[L] = g[L]
  BY <1>7 DEF P
<1> QED
  BY <1>1, <1>2, <1>3, <1>9, <1>10 DEF more, L

\* What is in a flattened sequence is in one of its pieces.
LEMMA FlattenMembers ==
  ASSUME NEW T, NEW seqs \in Seq(Seq(T))
  PROVE  ToSet(FlattenSeq(seqs)) = UNION {ToSet(seqs[k]) : k \in 1 .. Len(seqs)}
<1> DEFINE L == Len(seqs)
<1>1. L \in Nat /\ \A k \in 1 .. L : seqs[k] \in Seq(T)
  OBVIOUS
<1>2. PICK g \in [0 .. L -> Seq(T)] :
        /\ g[0] = <<>>
        /\ \A n \in 1 .. L : g[n] = g[n - 1] \o seqs[n]
        /\ FlattenSeq(seqs) = g[L]
  BY Flattened
<1> DEFINE P == {n \in 0 .. L : ToSet(g[n]) = UNION {ToSet(seqs[k]) : k \in 1 .. n}}
<1>3. 0 \in P
  BY <1>1, <1>2 DEF ToSet
<1>4. ASSUME NEW n \in 1 .. L, n - 1 \in P PROVE n \in P
  <2>1. g[n - 1] \in Seq(T) /\ seqs[n] \in Seq(T) /\ g[n] = g[n - 1] \o seqs[n]
    <3>1. n - 1 \in 0 .. L
      BY <1>1
    <3> QED
      BY <1>1, <1>2, <3>1
  <2>2. ToSet(g[n]) = ToSet(g[n - 1]) \cup ToSet(seqs[n])
    BY <2>1, ConcatSet
  <2>3. \A k : k \in 1 .. n <=> k \in 1 .. n - 1 \/ k = n
    BY <1>1
  <2>4. ToSet(g[n - 1]) = UNION {ToSet(seqs[k]) : k \in 1 .. n - 1}
    BY <1>4
  <2>5. ToSet(g[n]) = UNION {ToSet(seqs[k]) : k \in 1 .. n}
    BY <2>2, <2>3, <2>4
  <2>6. n \in 0 .. L
    BY <1>1
  <2> QED
    BY <2>5, <2>6
<1> HIDE DEF P
<1>5. 0 .. L \subseteq P
  BY <1>1, <1>3, <1>4, UpTo
<1>6. L \in P
  BY <1>1, <1>5
<1> QED
  BY <1>2, <1>6 DEF P

-----------------------------------------------------------------------------
(* The fields of transactions.                                             *)

\* A registration has an account and a balance, a payment two accounts and an
\* amount.
LEMMA Fields ==
  ASSUME NEW t \in Transaction
  PROVE  /\ IsAccount(t) => t.acct \in Acct /\ t.balance \in Int
         /\ ~ IsAccount(t) => t.src \in Acct /\ t.dst \in Acct /\ t.amount \in Int
BY DEF Transaction, IsAccount

-----------------------------------------------------------------------------
(* What the recursions of Ledger compute.                                  *)

\* get_balance counts the lines one by one.
LEMMA Counting ==
  ASSUME NEW lines \in Seq(Transaction), NEW a
  PROVE  /\ \A n \in 0 .. Len(lines) : Counted(lines, a)[n] \in Int
         /\ Counted(lines, a)[0] = 0
         /\ \A n \in 1 .. Len(lines) :
              Counted(lines, a)[n] = CountFor(a, Counted(lines, a)[n - 1], lines[n])
<1> DEFINE L == Len(lines)
           step == [n \in 1 .. L |-> [b \in Int |-> CountFor(a, b, lines[n])]]
           Is(h) == h = [n \in 0 .. L |-> IF n = 0 THEN 0 ELSE CountFor(a, h[n - 1], lines[n])]
           all == CHOOSE h : Is(h)
<1>1. L \in Nat /\ \A n \in 1 .. L : lines[n] \in Transaction
  OBVIOUS
<1>2. \A b \in Int, t \in Transaction : CountFor(a, b, t) \in Int
  BY Fields DEF CountFor
<1>3. Counted(lines, a) = all
  BY DEF Counted
<1> HIDE DEF L
<1>4. PICK g : g \in Runs(Int, L, 0, step)
  <2>1. \A n \in 1 .. L : \A b \in Int : step[n][b] \in Int
    BY <1>1, <1>2
  <2> HIDE DEF step
  <2> QED
    BY <1>1, <2>1, Built
<1>5. /\ g \in [0 .. L -> Int] /\ g[0] = 0
      /\ \A n \in 1 .. L : n - 1 \in 0 .. L /\ g[n - 1] \in Int /\ g[n] = step[n][g[n - 1]]
  BY <1>1, <1>4 DEF Runs
<1>6. Is(g)
  <2>1. \A n \in 1 .. L : \A b \in Int : step[n][b] = CountFor(a, b, lines[n])
    OBVIOUS
  <2> HIDE DEF step
  <2>2. \A n \in 1 .. L : g[n] = CountFor(a, g[n - 1], lines[n])
    BY <1>5, <2>1
  <2>3. \A n \in 0 .. L : g[n] = IF n = 0 THEN 0 ELSE CountFor(a, g[n - 1], lines[n])
    BY <1>1, <1>5, <2>2
  <2> QED
    BY <1>5, <2>3
<1>7. Is(all)
  BY <1>6
<1> HIDE DEF all
<1>8. all[0] = 0 /\ \A n \in 1 .. L : all[n] = CountFor(a, all[n - 1], lines[n])
  BY <1>1, <1>7
<1> DEFINE P == {n \in 0 .. L : all[n] \in Int}
<1>9. 0 \in P
  BY <1>1, <1>8
<1>10. \A n \in 1 .. L : n - 1 \in P => n \in P
  BY <1>1, <1>2, <1>8
<1> HIDE DEF P
<1>11. 0 .. L \subseteq P
  BY <1>1, <1>9, <1>10, UpTo
<1> QED
  BY <1>3, <1>8, <1>11 DEF P, L

\* The states of a replay and of a validation of the set new.
ReplayStates(new) == [balances : [Sources(new) -> Int], wrong_dst : SUBSET Targets(new)]
States(new) ==
  [valid : Seq(new), balances : [Sources(new) -> Int], wrong_dst : SUBSET Targets(new)]

\* The lines of the files are replayed one by one.
LEMMA Replaying ==
  ASSUME NEW lines \in Seq(Transaction), NEW new \in SUBSET Transaction
  PROVE  /\ \A n \in 0 .. Len(lines) : Replayed(lines, new)[n] \in ReplayStates(new)
         /\ Replayed(lines, new)[0] = Fresh(new)
         /\ \A n \in 1 .. Len(lines) :
              Replayed(lines, new)[n] = ReplayLine(Replayed(lines, new)[n - 1], lines[n])
<1> DEFINE L == Len(lines)
           S == ReplayStates(new)
           step == [n \in 1 .. L |-> [st \in S |-> ReplayLine(st, lines[n])]]
           Is(h) == h = [n \in 0 .. L |-> IF n = 0 THEN Fresh(new) ELSE ReplayLine(h[n - 1], lines[n])]
           all == CHOOSE h : Is(h)
<1>1. L \in Nat /\ \A n \in 1 .. L : lines[n] \in Transaction
  OBVIOUS
<1>2. ASSUME NEW st \in S, NEW t \in Transaction PROVE ReplayLine(st, t) \in S
  <2>1. st.balances \in [Sources(new) -> Int] /\ st.wrong_dst \in SUBSET Targets(new)
    BY DEF ReplayStates
  <2>2. CASE IsAccount(t)
    <3>1. ReplayLine(st, t).balances \in [Sources(new) -> Int]
      BY <2>1, <2>2, Fields DEF ReplayLine
    <3>2. ReplayLine(st, t).wrong_dst \in SUBSET Targets(new)
      BY <2>1 DEF ReplayLine
    <3> QED
      BY <3>1, <3>2 DEF ReplayLine, ReplayStates
  <2>3. CASE ~ IsAccount(t)
    <3>1. ReplayLine(st, t).balances \in [Sources(new) -> Int]
      BY <2>1, <2>3, Fields DEF ReplayLine
    <3>2. ReplayLine(st, t).wrong_dst \in SUBSET Targets(new)
      BY <2>1 DEF ReplayLine
    <3> QED
      BY <3>1, <3>2 DEF ReplayLine, ReplayStates
  <2> QED
    BY <2>2, <2>3
<1>3. Replayed(lines, new) = all
  BY DEF Replayed
<1>4. Fresh(new) \in S
  BY DEF Fresh, ReplayStates, Unknown
<1> HIDE DEF L, S
<1>5. PICK g : g \in Runs(S, L, Fresh(new), step)
  <2>1. \A n \in 1 .. L : \A st \in S : step[n][st] \in S
    BY <1>1, <1>2
  <2> HIDE DEF step
  <2> QED
    BY <1>1, <1>4, <2>1, Built
<1>6. /\ g \in [0 .. L -> S] /\ g[0] = Fresh(new)
      /\ \A n \in 1 .. L : n - 1 \in 0 .. L /\ g[n - 1] \in S /\ g[n] = step[n][g[n - 1]]
  BY <1>1, <1>5 DEF Runs
<1>7. Is(g)
  <2>1. \A n \in 1 .. L : \A st \in S : step[n][st] = ReplayLine(st, lines[n])
    OBVIOUS
  <2> HIDE DEF step
  <2>2. \A n \in 1 .. L : g[n] = ReplayLine(g[n - 1], lines[n])
    BY <1>6, <2>1
  <2>3. \A n \in 0 .. L : g[n] = IF n = 0 THEN Fresh(new) ELSE ReplayLine(g[n - 1], lines[n])
    BY <1>1, <1>6, <2>2
  <2> QED
    BY <1>6, <2>3
<1>8. Is(all)
  BY <1>7
<1> HIDE DEF all
<1>9. all[0] = Fresh(new) /\ \A n \in 1 .. L : all[n] = ReplayLine(all[n - 1], lines[n])
  BY <1>1, <1>8
<1> DEFINE P == {n \in 0 .. L : all[n] \in S}
<1>10. 0 \in P
  BY <1>1, <1>4, <1>9
<1>11. \A n \in 1 .. L : n - 1 \in P => n \in P
  BY <1>1, <1>2, <1>9
<1> HIDE DEF P
<1>12. 0 .. L \subseteq P
  BY <1>1, <1>10, <1>11, UpTo
<1> QED
  BY <1>3, <1>9, <1>12 DEF P, L, S

\* The sources and the targets of new are those of its members.
LEMMA OfMembers ==
  ASSUME NEW new, NEW t \in new
  PROVE  /\ IsAccount(t) => t.acct \in Sources(new)
         /\ ~ IsAccount(t) => t.src \in Sources(new) /\ t.dst \in Targets(new)
BY DEF Sources, Targets

\* The transactions of a batch are validated one by one.
LEMMA Validating ==
  ASSUME NEW new \in SUBSET Transaction, NEW st \in ReplayStates(new), NEW order \in Seq(new)
  PROVE  /\ \A n \in 0 .. Len(order) : Validated(st, order)[n] \in States(new)
         /\ Validated(st, order)[0] = AtStart(st)
         /\ \A n \in 1 .. Len(order) :
              Validated(st, order)[n] = ValidateLine(Validated(st, order)[n - 1], order[n])
<1> DEFINE L == Len(order)
           S == States(new)
           step == [n \in 1 .. L |-> [s \in S |-> ValidateLine(s, order[n])]]
           Is(h) == h = [n \in 0 .. L |-> IF n = 0 THEN AtStart(st) ELSE ValidateLine(h[n - 1], order[n])]
           all == CHOOSE h : Is(h)
<1>1. L \in Nat /\ \A n \in 1 .. L : order[n] \in new
  OBVIOUS
<1>2. ASSUME NEW s \in S, NEW t \in new PROVE ValidateLine(s, t) \in S
  <2>1. /\ s.valid \in Seq(new) /\ s.balances \in [Sources(new) -> Int]
        /\ s.wrong_dst \in SUBSET Targets(new)
        /\ s = [valid |-> s.valid, balances |-> s.balances, wrong_dst |-> s.wrong_dst]
    BY DEF States
  <2>2. Append(s.valid, t) \in Seq(new)
    BY <2>1
  <2>3. CASE IsAccount(t)
    <3>1. [s.balances EXCEPT ![t.acct] = t.balance] \in [Sources(new) -> Int]
      BY <2>1, <2>3, Fields
    <3>2. CASE s.balances[t.acct] # Unknown
      BY <2>3, <3>2 DEF ValidateLine
    <3>3. CASE s.balances[t.acct] = Unknown
      <4>1. ValidateLine(s, t) =
              [valid |-> Append(s.valid, t), balances |-> [s.balances EXCEPT ![t.acct] = t.balance],
               wrong_dst |-> s.wrong_dst]
        BY <2>1, <2>3, <3>3 DEF ValidateLine
      <4> QED
        BY <2>1, <2>2, <3>1, <4>1 DEF States
    <3> QED
      BY <3>2, <3>3
  <2>4. CASE ~ IsAccount(t)
    <3>1. Transfer(s.balances, t) \in [Sources(new) -> Int]
      <4> DEFINE paid == [s.balances EXCEPT ![t.src] = @ - t.amount]
      <4>1. t.amount \in Int /\ t.src \in Sources(new)
        BY <2>4, Fields, OfMembers
      <4>2. paid \in [Sources(new) -> Int]
        BY <2>1, <4>1
      <4> HIDE DEF paid
      <4>3. Transfer(s.balances, t) =
              IF t.dst \in DOMAIN paid THEN [paid EXCEPT ![t.dst] = @ + t.amount] ELSE paid
        BY DEF Transfer, paid
      <4> QED
        BY <4>1, <4>2, <4>3
    <3>2. CASE t.amount > s.balances[t.src] \/ t.dst \in s.wrong_dst
      BY <2>4, <3>2 DEF ValidateLine
    <3>3. CASE ~ (t.amount > s.balances[t.src] \/ t.dst \in s.wrong_dst)
      <4>1. ValidateLine(s, t) =
              [valid |-> Append(s.valid, t), balances |-> Transfer(s.balances, t),
               wrong_dst |-> s.wrong_dst]
        BY <2>1, <2>4, <3>3 DEF ValidateLine
      <4> QED
        BY <2>1, <2>2, <3>1, <4>1 DEF States
    <3> QED
      BY <3>2, <3>3
  <2> QED
    BY <2>3, <2>4
<1>3. Validated(st, order) = all
  BY DEF Validated
<1>4. AtStart(st) \in S
  BY DEF AtStart, ReplayStates, States
<1> HIDE DEF L, S
<1>5. PICK g : g \in Runs(S, L, AtStart(st), step)
  <2>1. \A n \in 1 .. L : \A s \in S : step[n][s] \in S
    BY <1>1, <1>2
  <2> HIDE DEF step
  <2> QED
    BY <1>1, <1>4, <2>1, Built
<1>6. /\ g \in [0 .. L -> S] /\ g[0] = AtStart(st)
      /\ \A n \in 1 .. L : n - 1 \in 0 .. L /\ g[n - 1] \in S /\ g[n] = step[n][g[n - 1]]
  BY <1>1, <1>5 DEF Runs
<1>7. Is(g)
  <2>1. \A n \in 0 .. L : g[n] = IF n = 0 THEN AtStart(st) ELSE ValidateLine(g[n - 1], order[n])
    BY <1>1, <1>6
  <2> QED
    BY <1>6, <2>1
<1>8. Is(all)
  BY <1>7
<1> HIDE DEF all
<1>9. all[0] = AtStart(st) /\ \A n \in 1 .. L : all[n] = ValidateLine(all[n - 1], order[n])
  BY <1>1, <1>8
<1> DEFINE P == {n \in 0 .. L : all[n] \in S}
<1>10. 0 \in P
  BY <1>1, <1>4, <1>9
<1>11. \A n \in 1 .. L : n - 1 \in P => n \in P
  BY <1>1, <1>2, <1>9
<1> HIDE DEF P
<1>12. 0 .. L \subseteq P
  BY <1>1, <1>10, <1>11, UpTo
<1> QED
  BY <1>3, <1>9, <1>12 DEF P, L, S

-----------------------------------------------------------------------------
(* The block files.                                                        *)

\* The files fs are sequences of records of some values, and chained.
Files(S)    == Seq([prev : S, txs : Seq(S)])
WellMade(fs) == \E S : fs \in Files(S)
Chain(fs) ==
  \A k \in DOMAIN fs :
    /\ fs[k].prev = IF k = 1 THEN Genesis ELSE fs[k - 1]
    /\ Len(fs[k].txs) \in 1 .. BlockSize
    /\ k < Len(fs) => Len(fs[k].txs) = BlockSize

\* A sequence of some values is one of more values.
LEMMA SeqOfMore ==
  ASSUME NEW A, NEW B, A \subseteq B, NEW q \in Seq(A)
  PROVE  q \in Seq(B)
OBVIOUS

\* Files of some values are files of more values.
LEMMA MoreValues ==
  ASSUME NEW S, NEW T, S \subseteq T, NEW fs \in Files(S)
  PROVE  fs \in Files(T)
<1>1. \A q \in Seq(S) : q \in Seq(T)
  OBVIOUS
<1> DEFINE A == [prev : S, txs : Seq(S)]
           B == [prev : T, txs : Seq(T)]
<1>2. A \subseteq B
  BY <1>1
<1>3. fs \in Seq(A)
  BY DEF Files
<1> HIDE DEF A, B
<1>4. fs \in Seq(B)
  BY <1>2, <1>3, SeqOfMore
<1> QED
  BY <1>4 DEF Files, B

\* Changing the second field of a file makes the file anew.
LEMMA NewTxs ==
  ASSUME NEW A, NEW B, NEW r \in [prev : A, txs : B], NEW x
  PROVE  [r EXCEPT !.txs = x] = [prev |-> r.prev, txs |-> x]
OBVIOUS

\* save_block writes to the last file only, and to no file that is full.
LEMMA SaveKeepsChain ==
  ASSUME NEW fs, NEW t, WellMade(fs), Chain(fs)
  PROVE  WellMade(save_block(fs, t)) /\ Chain(save_block(fs, t))
<1> DEFINE n == Len(fs)
<1>1. PICK S : fs \in Files(S)
  BY DEF WellMade
<1> DEFINE T == S \cup {t, Genesis, fs[n]}
<1>2. /\ fs \in Files(T) /\ n \in Nat /\ DOMAIN fs = 1 .. n
      /\ t \in T /\ Genesis \in T /\ fs[n] \in T
  BY <1>1, MoreValues DEF Files
<1> HIDE DEF T
<1>3. BlockSize \in Nat \ {0}
  BY BlockAssumption
<1>4. CASE fs # <<>> /\ Len(fs[n].txs) < BlockSize
  <2> DEFINE more == [fs EXCEPT ![n].txs = Append(@, t)]
  <2>1. save_block(fs, t) = more
    BY <1>4 DEF save_block, Last
  <2>2. n \in DOMAIN fs /\ n >= 1
    <3>1. n = 0 <=> fs = <<>>
      BY <1>2 DEF Files
    <3> QED
      BY <1>2, <1>4, <3>1
  <2>3. fs[n] \in [prev : T, txs : Seq(T)]
    <3> DEFINE R == [prev : T, txs : Seq(T)]
    <3>1. fs \in Seq(R)
      BY <1>2 DEF Files
    <3> HIDE DEF R
    <3>2. fs[n] \in R
      BY <2>2, <3>1
    <3> QED
      BY <3>2 DEF R
  <2>4. /\ more \in Files(T) /\ Len(more) = n /\ DOMAIN more = 1 .. n
        /\ \A k \in 1 .. n - 1 : more[k] = fs[k]
        /\ more[n].prev = fs[n].prev
        /\ Len(more[n].txs) = Len(fs[n].txs) + 1
    <3> DEFINE txs  == Append(fs[n].txs, t)
               file == [prev |-> fs[n].prev, txs |-> txs]
    <3>1. /\ txs \in Seq(T)
          /\ Len(txs) = Len(fs[n].txs) + 1
      BY <1>2, <2>3
    <3>2. more = [fs EXCEPT ![n] = file]
      <4>1. [fs[n] EXCEPT !.txs = txs] = file
        BY <2>3, NewTxs
      <4>2. more = [fs EXCEPT ![n] = [fs[n] EXCEPT !.txs = txs]]
        OBVIOUS
      <4> QED
        BY <4>1, <4>2
    <3> HIDE DEF txs
    <3>3. file \in [prev : T, txs : Seq(T)]
      BY <2>3, <3>1
    <3>4. file.prev = fs[n].prev /\ file.txs = txs
      OBVIOUS
    <3> HIDE DEF file, more
    <3>5. /\ more \in Files(T) /\ Len(more) = n /\ DOMAIN more = 1 .. n
          /\ \A k \in 1 .. n - 1 : more[k] = fs[k]
          /\ more[n] = file
      BY <1>2, <2>2, <3>2, <3>3 DEF Files
    <3> QED
      BY <3>1, <3>4, <3>5
  <2> HIDE DEF more
  <2>5. Len(fs[n].txs) \in 1 .. BlockSize /\ Len(more[n].txs) \in 1 .. BlockSize
    BY <1>3, <1>4, <2>2, <2>4 DEF Chain
  <2>6. Chain(more)
    <3> SUFFICES ASSUME NEW k \in 1 .. n
                 PROVE  /\ more[k].prev = IF k = 1 THEN Genesis ELSE more[k - 1]
                        /\ Len(more[k].txs) \in 1 .. BlockSize
                        /\ k < n => Len(more[k].txs) = BlockSize
      BY <2>4 DEF Chain
    <3>1. /\ fs[k].prev = IF k = 1 THEN Genesis ELSE fs[k - 1]
          /\ Len(fs[k].txs) \in 1 .. BlockSize
          /\ k < n => Len(fs[k].txs) = BlockSize
      BY <1>2 DEF Chain
    <3>2. k # 1 => more[k - 1] = fs[k - 1]
      BY <1>2, <2>4
    <3> QED
      BY <1>2, <2>4, <2>5, <3>1, <3>2
  <2> QED
    BY <2>1, <2>4, <2>6 DEF WellMade
<1>5. CASE ~ (fs # <<>> /\ Len(fs[n].txs) < BlockSize)
  <2> DEFINE file == [prev |-> IF fs = <<>> THEN Genesis ELSE fs[n], txs |-> <<t>>]
             more == Append(fs, file)
  <2>1. save_block(fs, t) = more
    BY <1>5 DEF save_block, Last
  <2>2. file \in [prev : T, txs : Seq(T)] /\ Len(file.txs) = 1
    BY <1>2
  <2>3. /\ more \in Files(T) /\ Len(more) = n + 1 /\ DOMAIN more = 1 .. n + 1
        /\ \A k \in 1 .. n : more[k] = fs[k]
        /\ more[n + 1] = file
    BY <1>2, <2>2 DEF Files
  <2>4. n = 0 <=> fs = <<>>
    BY <1>2 DEF Files
  <2>5. n > 0 => Len(fs[n].txs) = BlockSize
    BY <1>2, <1>3, <1>5, <2>4 DEF Chain
  <2>6. more[n + 1].prev = IF n + 1 = 1 THEN Genesis ELSE fs[n]
    BY <1>2, <2>3, <2>4
  <2> HIDE DEF file, more
  <2>7. Chain(more)
    <3> SUFFICES ASSUME NEW k \in 1 .. n + 1
                 PROVE  /\ more[k].prev = IF k = 1 THEN Genesis ELSE more[k - 1]
                        /\ Len(more[k].txs) \in 1 .. BlockSize
                        /\ k < n + 1 => Len(more[k].txs) = BlockSize
      BY <2>3 DEF Chain
    <3>1. CASE k = n + 1
      <4>1. k - 1 = n /\ (k # 1 => more[k - 1] = fs[n])
        BY <1>2, <2>3, <3>1
      <4>2. more[k].prev = IF k = 1 THEN Genesis ELSE more[k - 1]
        BY <2>6, <3>1, <4>1
      <4>3. Len(more[k].txs) = 1
        BY <2>2, <2>3, <3>1
      <4> QED
        BY <1>2, <1>3, <3>1, <4>2, <4>3
    <3>2. CASE k \in 1 .. n
      <4>1. /\ fs[k].prev = IF k = 1 THEN Genesis ELSE fs[k - 1]
            /\ Len(fs[k].txs) \in 1 .. BlockSize
            /\ k < n => Len(fs[k].txs) = BlockSize
        BY <1>2, <3>2 DEF Chain
      <4>2. k # 1 => more[k - 1] = fs[k - 1]
        BY <1>2, <2>3, <3>2
      <4> QED
        BY <1>2, <2>3, <2>5, <3>2, <4>1, <4>2
    <3> QED
      BY <1>2, <3>1, <3>2
  <2> QED
    BY <2>1, <2>3, <2>7 DEF WellMade
<1> QED
  BY <1>4, <1>5

\* save_block leaves the files before the last one as they are.
LEMMA SaveKeepsOld ==
  ASSUME NEW fs, NEW t, WellMade(fs), NEW more, more = save_block(fs, t)
  PROVE  /\ Len(fs) \in Nat /\ Len(more) \in Nat /\ Len(more) >= Len(fs)
         /\ DOMAIN fs = 1 .. Len(fs) /\ DOMAIN more = 1 .. Len(more)
         /\ \A k \in 1 .. Len(fs) - 1 : more[k] = fs[k]
<1>1. PICK S : fs \in Seq(S)
  BY DEF WellMade, Files
<1>2. CASE fs # <<>> /\ Len(Last(fs).txs) < BlockSize
  <2> DEFINE x == [fs[Len(fs)] EXCEPT !.txs = Append(@, t)]
             T == S \cup {x}
  <2>1. more = [fs EXCEPT ![Len(fs)] = x]
    BY <1>2 DEF save_block, Last
  <2> HIDE DEF x
  <2>2. fs \in Seq(T) /\ x \in T
    BY <1>1, SeqOfMore
  <2> HIDE DEF T
  <2>3. Len(fs) \in 1 .. Len(fs)
    BY <1>1, <1>2
  <2>4. more \in Seq(T) /\ Len(more) = Len(fs)
    BY <2>1, <2>2, <2>3, ExceptSeq
  <2>5. \A k \in 1 .. Len(fs) - 1 : more[k] = fs[k]
    BY <1>1, <2>1
  <2> QED
    BY <1>1, <2>4, <2>5
<1>3. CASE ~ (fs # <<>> /\ Len(Last(fs).txs) < BlockSize)
  <2> DEFINE x == [prev |-> IF fs = <<>> THEN Genesis ELSE Last(fs), txs |-> <<t>>]
  <2>1. more = Append(fs, x)
    BY <1>3 DEF save_block
  <2> HIDE DEF x
  <2> QED
    BY <1>1, <2>1
<1> QED
  BY <1>2, <1>3

\* Each file of a chain has its lines.
LEMMA LinesOfFile ==
  ASSUME NEW fs, WellMade(fs), NEW k \in DOMAIN fs
  PROVE  DOMAIN fs[k].txs = 1 .. Len(fs[k].txs) /\ Len(fs[k].txs) \in Nat
<1>1. PICK S : fs \in Files(S)
  BY DEF WellMade
<1> DEFINE R == [prev : S, txs : Seq(S)]
<1>2. fs[k] \in R
  <2>1. fs \in Seq(R)
    BY <1>1 DEF Files
  <2> HIDE DEF R
  <2> QED
    BY <2>1
<1>3. fs[k].txs \in Seq(S)
  BY <1>2
<1> QED
  BY <1>3

\* The lines of the files fs, oldest file first, all of them in T.
LinesOf(fs)  == FlattenSeq([k \in DOMAIN fs |-> fs[k].txs])
Holds(fs, T) == WellMade(fs) /\ \A k \in DOMAIN fs : fs[k].txs \in Seq(T)

\* The lines of the files, one file after the other.
LEMMA Pieces ==
  ASSUME NEW fs, NEW T, Holds(fs, T)
  PROVE  /\ Len(fs) \in Nat /\ DOMAIN fs = 1 .. Len(fs)
         /\ [k \in DOMAIN fs |-> fs[k].txs] \in Seq(Seq(T))
         /\ Len([k \in DOMAIN fs |-> fs[k].txs]) = Len(fs)
         /\ LinesOf(fs) \in Seq(T)
<1> DEFINE pieces == [k \in DOMAIN fs |-> fs[k].txs]
           Q == Seq(T)
<1>1. Len(fs) \in Nat /\ DOMAIN fs = 1 .. Len(fs)
  <2>1. PICK S : fs \in Seq(S)
    BY DEF Holds, WellMade, Files
  <2> QED
    BY <2>1
<1>2. \A k \in DOMAIN fs : fs[k].txs \in Q
  BY DEF Holds
<1> HIDE DEF Q
<1>3. pieces \in Seq(Q) /\ Len(pieces) = Len(fs)
  BY <1>1, <1>2
<1>4. LinesOf(fs) \in Seq(T)
  <2>1. FlattenSeq(pieces) \in Seq(T)
    <3>1. pieces \in Seq(Seq(T)) /\ <<>> \in Seq(T)
      BY <1>3 DEF Q
    <3> HIDE DEF pieces
    <3> QED
      BY <3>1, FlattenAppend
  <2> QED
    BY <2>1 DEF LinesOf
<1> QED
  BY <1>1, <1>3, <1>4 DEF Q

\* A longer sequence has one more value, at its end.
LEMMA AppendIs ==
  ASSUME NEW Q, NEW q \in Seq(Q), NEW x \in Q
  PROVE  Append(q, x) = [k \in 1 .. Len(q) + 1 |-> IF k = Len(q) + 1 THEN x ELSE q[k]]
<1>1. /\ Append(q, x) \in Seq(Q) /\ Len(Append(q, x)) = Len(q) + 1 /\ Len(q) \in Nat
      /\ \A k \in 1 .. Len(q) : Append(q, x)[k] = q[k]
      /\ Append(q, x)[Len(q) + 1] = x
  OBVIOUS
<1> DEFINE n == Len(q)
           more == Append(q, x)
<1> HIDE DEF n, more
<1>2. more = [k \in 1 .. n + 1 |-> more[k]]
  <2>1. more \in Seq(Q) /\ Len(more) = n + 1
    BY <1>1 DEF more, n
  <2> QED
    BY <2>1
<1>3. \A k \in 1 .. n + 1 : k = n + 1 \/ k \in 1 .. n
  BY <1>1 DEF n
<1>4. \A k \in 1 .. n + 1 : more[k] = IF k = n + 1 THEN x ELSE q[k]
  BY <1>1, <1>3 DEF more, n
<1> QED
  BY <1>2, <1>4 DEF more, n

\* Adding to the second of two sequences adds to both.
LEMMA AppendConcat ==
  ASSUME NEW T, NEW s \in Seq(T), NEW q \in Seq(T), NEW t \in T
  PROVE  s \o Append(q, t) = Append(s \o q, t)
OBVIOUS

\* save_block adds the transaction as the last line.
LEMMA SaveAppends ==
  ASSUME NEW fs, NEW T, Holds(fs, T), NEW t \in T
  PROVE  /\ \A k \in DOMAIN save_block(fs, t) : save_block(fs, t)[k].txs \in Seq(T)
         /\ LinesOf(save_block(fs, t)) = Append(LinesOf(fs), t)
<1> DEFINE n == Len(fs)
           pieces == [k \in DOMAIN fs |-> fs[k].txs]
           more == save_block(fs, t)
           morePieces == [k \in DOMAIN more |-> more[k].txs]
<1>1. /\ n \in Nat /\ DOMAIN fs = 1 .. n /\ (fs # <<>> => n # 0)
      /\ pieces \in Seq(Seq(T)) /\ Len(pieces) = n
  <2>1. PICK S : fs \in Seq(S)
    BY DEF Holds, WellMade, Files
  <2>2. fs # <<>> => n # 0
    BY <2>1
  <2> QED
    BY <2>2, Pieces
<1>2. \A k \in 1 .. n : pieces[k] = fs[k].txs /\ pieces[k] \in Seq(T)
  BY <1>1
<1>3. LinesOf(fs) = FlattenSeq(pieces) /\ LinesOf(more) = FlattenSeq(morePieces)
  BY DEF LinesOf
<1>4. CASE fs # <<>> /\ Len(Last(fs).txs) < BlockSize
  <2> DEFINE file == [fs[n] EXCEPT !.txs = Append(@, t)]
             front == SubSeq(pieces, 1, n - 1)
  <2>1. more = [fs EXCEPT ![n] = file] /\ n \in 1 .. n
    BY <1>1, <1>4 DEF save_block, Last
  <2>2. file.txs = Append(pieces[n], t)
    <3>1. PICK S : fs \in Files(S)
      BY DEF Holds, WellMade
    <3> DEFINE R == [prev : S, txs : Seq(S)]
    <3>2. fs[n] \in R
      <4>1. fs \in Seq(R)
        BY <3>1 DEF Files
      <4> HIDE DEF R
      <4> QED
        BY <2>1, <4>1
    <3>3. file.txs = Append(fs[n].txs, t)
      BY <3>2
    <3> QED
      BY <1>2, <2>1, <3>3
  <2> HIDE DEF file, pieces, more
  <2>3. DOMAIN more = 1 .. n /\ \A k \in 1 .. n : more[k].txs = IF k = n THEN Append(pieces[n], t) ELSE pieces[k]
    BY <1>1, <1>2, <2>1, <2>2
  <2>4. front \in Seq(Seq(T)) /\ pieces[n] \in Seq(T) /\ Append(pieces[n], t) \in Seq(T)
    BY <1>1, <1>2, <2>1
  <2>5. pieces = Append(front, pieces[n])
    BY <1>1, <2>1
  <2>6. morePieces = Append(front, Append(pieces[n], t))
    <3> DEFINE last == Append(pieces[n], t)
    <3>1. Len(front) = n - 1 /\ \A k \in 1 .. n - 1 : front[k] = pieces[k]
      BY <1>1, <2>1
    <3>2. morePieces = [k \in 1 .. n |-> IF k = n THEN last ELSE pieces[k]]
      BY <2>3
    <3> DEFINE Q == Seq(T)
    <3>3. front \in Seq(Q) /\ last \in Q
      BY <2>4
    <3> HIDE DEF front, last, morePieces, Q
    <3>4. Append(front, last) = [k \in 1 .. Len(front) + 1 |-> IF k = Len(front) + 1 THEN last ELSE front[k]]
      BY <3>3, AppendIs
    <3>5. Len(front) + 1 = n
      BY <1>1, <3>1
    <3>6. \A k \in 1 .. n : k # n => front[k] = pieces[k]
      <4>2. n \in Nat
        BY <1>1
      <4>1. \A k \in 1 .. n : k # n => k \in 1 .. n - 1
        BY <4>2
      <4> QED
        BY <3>1, <4>1
    <3> QED
      BY <3>2, <3>4, <3>5, <3>6 DEF last
  <2>7. /\ FlattenSeq(front) \in Seq(T)
        /\ LinesOf(fs) = FlattenSeq(front) \o pieces[n]
        /\ LinesOf(more) = FlattenSeq(front) \o Append(pieces[n], t)
    BY <1>3, <2>4, <2>5, <2>6, FlattenAppend
  <2>8. LinesOf(more) = Append(LinesOf(fs), t)
    <3> DEFINE s == FlattenSeq(front)
               q == pieces[n]
    <3>1. s \in Seq(T) /\ q \in Seq(T) /\ LinesOf(fs) = s \o q /\ LinesOf(more) = s \o Append(q, t)
      BY <2>4, <2>7
    <3> HIDE DEF s, q
    <3>2. s \o Append(q, t) = Append(s \o q, t)
      BY <3>1, AppendConcat
    <3> QED
      BY <3>1, <3>2
  <2>9. \A k \in DOMAIN more : more[k].txs \in Seq(T)
    BY <1>2, <2>3, <2>4
  <2> QED
    BY <2>8, <2>9 DEF more
<1>5. CASE ~ (fs # <<>> /\ Len(Last(fs).txs) < BlockSize)
  <2> DEFINE file == [prev |-> IF fs = <<>> THEN Genesis ELSE Last(fs), txs |-> <<t>>]
  <2>1. more = Append(fs, file) /\ file.txs = <<t>> /\ <<t>> \in Seq(T)
    BY <1>5 DEF save_block
  <2> HIDE DEF file, more, pieces
  <2>2. PICK S : fs \in Seq(S)
    BY DEF Holds, WellMade, Files
  <2>3. DOMAIN more = 1 .. n + 1 /\ \A k \in 1 .. n + 1 : more[k] = IF k = n + 1 THEN file ELSE fs[k]
    BY <2>1, <2>2
  <2>4. \A k \in 1 .. n + 1 : more[k].txs = IF k = n + 1 THEN <<t>> ELSE pieces[k]
    BY <1>1, <1>2, <2>1, <2>3
  <2>5. morePieces = Append(pieces, <<t>>)
    BY <1>1, <2>3, <2>4
  <2> HIDE DEF morePieces
  <2>6. FlattenSeq(morePieces) = FlattenSeq(pieces) \o <<t>> /\ FlattenSeq(pieces) \in Seq(T)
    BY <1>1, <2>1, <2>5, FlattenAppend
  <2>7. LinesOf(more) = Append(LinesOf(fs), t)
    BY <1>3, <2>6
  <2>8. ASSUME NEW k \in DOMAIN more PROVE more[k].txs \in Seq(T)
    <3>1. CASE k = n + 1
      BY <2>1, <2>3, <2>4, <3>1
    <3>2. CASE k # n + 1
      <4>1. k \in 1 .. n
        BY <1>1, <2>3, <3>2
      <4> QED
        BY <1>2, <2>3, <2>4, <3>2, <4>1
    <3> QED
      BY <3>1, <3>2
  <2> QED
    BY <2>7, <2>8 DEF more
<1> QED
  BY <1>4, <1>5

\* There are n numbers up to n.
LEMMA CountUpTo == ASSUME NEW n \in Nat PROVE Cardinality(1 .. n) = n
BY 1 \in Int, n \in Int, FS_Interval

\* A set that is gone through in some order is gone through as a whole.
LEMMA WholeOrder ==
  ASSUME NEW S, IsFiniteSet(S), NEW order \in SetToSeqs(S)
  PROVE  /\ order \in [1 .. Cardinality(S) -> S] /\ order \in Seq(S) /\ ToSet(order) = S
<1> DEFINE n == Cardinality(S)
           D == 1 .. n
<1>1. n \in Nat
  BY FS_CardinalityType
<1>2. order \in [D -> S] /\ \A i, j \in D : i # j => order[i] # order[j]
  BY DEF SetToSeqs
<1>3. order \in Injection(D, S)
  BY <1>2 DEF Injection, IsInjective
<1>4. Cardinality(D) = n
  BY <1>1, CountUpTo
<1>5. order \in Surjection(D, S)
  BY <1>3, <1>4, FS_Injection
<1>6. \A t \in S : \E k \in D : order[k] = t
  BY <1>5 DEF Surjection
<1> HIDE DEF n
<1>7. order \in Seq(S)
  BY <1>1, <1>2
<1>8. ToSet(order) = S
  BY <1>2, <1>6 DEF ToSet
<1> QED
  BY <1>2, <1>7, <1>8 DEF n

\* read_block returns the lines of the files, whatever order the files are listed in.
LEMMA ReadLines ==
  ASSUME NEW fs, NEW T, Holds(fs, T), NEW listed \in ListOrders(fs)
  PROVE  read_block(fs, listed) \in Seq(T) /\ ToSet(read_block(fs, listed)) = ToSet(LinesOf(fs))
<1> DEFINE pieces == [k \in DOMAIN fs |-> fs[k].txs]
           taken == [k \in DOMAIN listed |-> fs[listed[k]].txs]
<1>1. /\ Len(fs) \in Nat /\ DOMAIN fs = 1 .. Len(fs)
      /\ pieces \in Seq(Seq(T)) /\ Len(pieces) = Len(fs)
  BY Pieces
<1>2. Cardinality(DOMAIN fs) = Len(fs)
  BY <1>1, CountUpTo
<1>3. listed \in [1 .. Len(fs) -> 1 .. Len(fs)]
  BY <1>1, <1>2 DEF ListOrders, SetToSeqs
<1>4. \A k \in 1 .. Len(fs) : listed[k] \in 1 .. Len(fs) /\ taken[k] = pieces[listed[k]]
  BY <1>1, <1>3
<1>5. taken \in Seq(Seq(T)) /\ Len(taken) = Len(fs)
  <2> DEFINE Q == Seq(T)
  <2> HIDE DEF Q
  <2>3. \A k \in 1 .. Len(fs) : pieces[k] \in Q
    <3> HIDE DEF pieces
    <3> QED
      BY <1>1 DEF Q
  <2>1. \A k \in 1 .. Len(fs) : taken[k] \in Q
    <3> HIDE DEF pieces, taken
    <3> QED
      BY <1>4, <2>3
  <2>2. taken \in Seq(Q) /\ Len(taken) = Len(fs)
    BY <1>1, <1>3, <2>1
  <2> QED
    BY <2>2 DEF Q
<1> HIDE DEF taken, pieces
<1>6. FlattenSeq(taken) \in Seq(T)
  BY <1>5, <<>> \in Seq(T), FlattenAppend
<1>7. ToSet(FlattenSeq(taken)) = UNION {ToSet(taken[k]) : k \in 1 .. Len(fs)}
  BY <1>5, FlattenMembers
<1>8. ToSet(FlattenSeq(pieces)) = UNION {ToSet(pieces[k]) : k \in 1 .. Len(fs)}
  BY <1>1, FlattenMembers
<1>9. \A k \in 1 .. Len(fs) : \E m \in 1 .. Len(fs) : listed[m] = k
  <2>1. IsFiniteSet(DOMAIN fs)
    BY <1>1, 1 \in Int, Len(fs) \in Int, FS_Interval
  <2>2. ToSet(listed) = DOMAIN fs
    BY <2>1, WholeOrder DEF ListOrders
  <2> QED
    BY <1>1, <1>3, <2>2 DEF ToSet
<1>10. ToSet(FlattenSeq(taken)) = ToSet(FlattenSeq(pieces))
  <2>1. \A k \in 1 .. Len(fs) : \E m \in 1 .. Len(fs) : taken[m] = pieces[k]
    BY <1>4, <1>9
  <2>2. ToSet(FlattenSeq(taken)) \subseteq ToSet(FlattenSeq(pieces))
    BY <1>4, <1>7, <1>8
  <2>3. ToSet(FlattenSeq(pieces)) \subseteq ToSet(FlattenSeq(taken))
    <3>1. \A k \in 1 .. Len(fs) : \E m \in 1 .. Len(fs) : ToSet(pieces[k]) = ToSet(taken[m])
      BY <2>1
    <3> QED
      BY <1>7, <1>8, <3>1
  <2> QED
    BY <2>2, <2>3
<1> QED
  BY <1>6, <1>10 DEF read_block, LinesOf, taken, pieces

\* Files read in the order in which they were written give their lines in order;
\* of one file there is no other order.
LEMMA OrderedRead ==
  ASSUME NEW fs, NEW T, Holds(fs, T)
  PROVE  /\ read_block(fs, [k \in DOMAIN fs |-> k]) = LinesOf(fs)
         /\ Len(fs) <= 1 => ListOrders(fs) = {[k \in DOMAIN fs |-> k]}
<1>1. Len(fs) \in Nat /\ DOMAIN fs = 1 .. Len(fs)
  BY Pieces
<1>2. read_block(fs, [k \in DOMAIN fs |-> k]) = LinesOf(fs)
  <2>1. [k \in DOMAIN [m \in DOMAIN fs |-> m] |-> fs[[m \in DOMAIN fs |-> m][k]].txs] = [k \in DOMAIN fs |-> fs[k].txs]
    OBVIOUS
  <2> QED
    BY <2>1 DEF read_block, LinesOf
<1>3. ASSUME Len(fs) <= 1 PROVE ListOrders(fs) = {[k \in DOMAIN fs |-> k]}
  <2>1. Cardinality(DOMAIN fs) = Len(fs)
    BY <1>1, CountUpTo
  <2> DEFINE D == 1 .. Len(fs)
             only == [k \in D |-> k]
  <2>2. ListOrders(fs) = {g \in [D -> D] : \A i, j \in D : i # j => g[i] # g[j]}
    BY <1>1, <2>1 DEF ListOrders, SetToSeqs
  <2>3. \A k \in D : k = 1
    BY <1>1, <1>3
  <2>4. \A g \in [D -> D] : g = only
    BY <2>3
  <2>5. only \in [D -> D] /\ \A i, j \in D : i = j
    BY <2>3
  <2> HIDE DEF D, only
  <2>6. ListOrders(fs) = {only}
    BY <2>2, <2>4, <2>5
  <2> QED
    BY <1>1, <2>6 DEF only, D
<1> QED
  BY <1>2, <1>3

\* The valid transactions of a batch are in the batch.
LEMMA ValidTyped ==
  ASSUME NEW new \in SUBSET Transaction, NEW order \in Seq(new), NEW lines \in Seq(Transaction)
  PROVE  Valid(lines, new, order) \in Seq(new)
<1> DEFINE base == Replay(lines, new)
           last == Validated(base, order)[Len(order)]
<1>1. base \in ReplayStates(new)
  <2>1. Len(lines) \in 0 .. Len(lines)
    OBVIOUS
  <2> QED
    BY <2>1, Replaying DEF Replay
<1> HIDE DEF base
<1>2. last \in States(new)
  <2>1. Len(order) \in 0 .. Len(order)
    OBVIOUS
  <2> QED
    BY <1>1, <2>1, Validating
<1>3. Valid(lines, new, order) = last.valid
  BY DEF Valid, base
<1> QED
  BY <1>2, <1>3 DEF States

-----------------------------------------------------------------------------
(* Registrations come before the payments of their accounts.               *)

\* The first k lines of s register account a; some line of s does.
Named(s, k, a) == \E j \in 1 .. k : IsAccount(s[j]) /\ s[j].acct = a
Known(s, a)    == Named(s, Len(s), a)

\* Both accounts of each payment in s are registered above it.
Paired(s) ==
  \A k \in 1 .. Len(s) : ~ IsAccount(s[k]) =>
    Named(s, k - 1, s[k].src) /\ Named(s, k - 1, s[k].dst)

\* One more line registers its account.
LEMMA KnownAppend ==
  ASSUME NEW T, NEW s \in Seq(T), NEW t \in T, NEW a
  PROVE  Known(Append(s, t), a) <=> Known(s, a) \/ (IsAccount(t) /\ t.acct = a)
<1> DEFINE n == Len(s)
           more == Append(s, t)
<1>1. n \in Nat /\ Len(more) = n + 1 /\ more[n + 1] = t /\ \A k \in 1 .. n : more[k] = s[k]
  OBVIOUS
<1> HIDE DEF n, more
<1>2. \A k \in 1 .. n + 1 : k \in 1 .. n \/ k = n + 1
  BY <1>1
<1>3. 1 .. n \subseteq 1 .. n + 1 /\ n + 1 \in 1 .. n + 1
  BY <1>1
<1>4. Known(more, a) <=> \E j \in 1 .. n + 1 : IsAccount(more[j]) /\ more[j].acct = a
  BY <1>1 DEF Known, Named
<1>5. Known(s, a) <=> \E j \in 1 .. n : IsAccount(s[j]) /\ s[j].acct = a
  BY DEF Known, Named, n
<1> QED
  BY <1>1, <1>2, <1>3, <1>4, <1>5 DEF more

\* A payment between accounts that are registered may be added.
LEMMA PairedAppend ==
  ASSUME NEW T, NEW s \in Seq(T), NEW t \in T, Paired(s),
         ~ IsAccount(t) => Known(s, t.src) /\ Known(s, t.dst)
  PROVE  Paired(Append(s, t))
<1> DEFINE n == Len(s)
           more == Append(s, t)
<1>1. n \in Nat /\ Len(more) = n + 1 /\ more[n + 1] = t /\ \A k \in 1 .. n : more[k] = s[k]
  OBVIOUS
<1> HIDE DEF n, more
<1>2. ASSUME NEW k \in 1 .. n + 1, ~ IsAccount(more[k])
      PROVE  Named(more, k - 1, more[k].src) /\ Named(more, k - 1, more[k].dst)
  <2>1. \A j \in 1 .. k - 1 : j \in 1 .. n /\ more[j] = s[j]
    BY <1>1
  <2>2. \A a : Named(more, k - 1, a) <=> Named(s, k - 1, a)
    BY <2>1 DEF Named
  <2>3. CASE k = n + 1
    <3>1. k - 1 = n /\ more[k] = t
      BY <1>1, <2>3
    <3>2. Named(s, n, t.src) /\ Named(s, n, t.dst)
      BY <1>2, <3>1 DEF Known, n
    <3> QED
      BY <2>2, <3>1, <3>2
  <2>4. CASE k # n + 1
    <3>1. k \in 1 .. n
      BY <1>1, <2>4
    <3>2. Named(s, k - 1, s[k].src) /\ Named(s, k - 1, s[k].dst)
      BY <1>1, <1>2, <3>1 DEF Paired, n
    <3> QED
      BY <1>1, <2>2, <3>1, <3>2
  <2> QED
    BY <2>3, <2>4
<1> QED
  BY <1>1, <1>2 DEF Paired, more

\* What is paired is so up to any of its lines.
LEMMA PairedPrefix ==
  ASSUME NEW T, NEW s \in Seq(T), NEW v \in Seq(T), Paired(s \o v)
  PROVE  Paired(s)
<1>1. /\ Len(s) \in Nat /\ Len(v) \in Nat /\ Len(s \o v) = Len(s) + Len(v)
      /\ \A k \in 1 .. Len(s) : (s \o v)[k] = s[k]
  OBVIOUS
<1> DEFINE more == s \o v
<1> HIDE DEF more
<1>2. ASSUME NEW k \in 1 .. Len(s), ~ IsAccount(s[k])
      PROVE  Named(s, k - 1, s[k].src) /\ Named(s, k - 1, s[k].dst)
  <2>1. k \in 1 .. Len(more) /\ more[k] = s[k]
    BY <1>1 DEF more
  <2>2. \A j \in 1 .. k - 1 : more[j] = s[j]
    <3>1. \A j \in 1 .. k - 1 : j \in 1 .. Len(s)
      BY <1>1
    <3> QED
      BY <1>1, <3>1 DEF more
  <2>3. \A a : Named(more, k - 1, a) <=> Named(s, k - 1, a)
    BY <2>2 DEF Named
  <2>4. Named(more, k - 1, more[k].src) /\ Named(more, k - 1, more[k].dst)
    BY <1>2, <2>1 DEF Paired, more
  <2> QED
    BY <2>1, <2>3, <2>4
<1> QED
  BY <1>2 DEF Paired

\* A line of a paired sequence is of accounts that the sequence registers.
LEMMA PairedKnows ==
  ASSUME NEW T, NEW s \in Seq(T), Paired(s), NEW t \in ToSet(s)
  PROVE  /\ IsAccount(t) => Known(s, t.acct)
         /\ ~ IsAccount(t) => Known(s, t.src) /\ Known(s, t.dst)
<1>1. Len(s) \in Nat /\ DOMAIN s = 1 .. Len(s)
  OBVIOUS
<1>2. PICK k \in 1 .. Len(s) : t = s[k]
  BY <1>1 DEF ToSet
<1>3. 1 .. k - 1 \subseteq 1 .. Len(s)
  BY <1>1
<1>4. \A a : Named(s, k - 1, a) => Known(s, a)
  BY <1>3 DEF Named, Known
<1> QED
  BY <1>2, <1>4 DEF Paired, Known, Named

\* The accounts above a line of a paired sequence are what get_accounts lists there.
LEMMA PairedRegistered ==
  ASSUME NEW T, NEW s \in Seq(T), Paired(s), NEW k \in DOMAIN s, ~ IsAccount(s[k])
  PROVE  {s[k].src, s[k].dst} \subseteq Registered(SubSeq(s, 1, k - 1))
<1>1. Len(s) \in Nat /\ k \in 1 .. Len(s)
  OBVIOUS
<1> DEFINE above == SubSeq(s, 1, k - 1)
<1>2. DOMAIN above = 1 .. k - 1 /\ \A j \in 1 .. k - 1 : above[j] = s[j]
  BY <1>1
<1> HIDE DEF above
<1>3. \A a : Named(s, k - 1, a) => a \in Registered(above)
  BY <1>2 DEF Named, Registered
<1> QED
  BY <1>1, <1>3 DEF Paired, above

\* No account has a balance but those that the lines s register, and every target
\* that is not wrong is registered there.
Knows(balances, wrong_dst, new, s) ==
  /\ \A a \in Sources(new) : ~ Known(s, a) => balances[a] = Unknown
  /\ \A d \in Targets(new) \ wrong_dst : Known(s, d)

\* A replay of lines out of s ends with what s registers.
LEMMA ReplayKnows ==
  ASSUME NEW new \in SUBSET Transaction, NEW s \in Seq(Transaction), Paired(s),
         NEW lines \in Seq(Transaction), ToSet(lines) \subseteq ToSet(s)
  PROVE  /\ Replay(lines, new) \in ReplayStates(new)
         /\ Knows(Replay(lines, new).balances, Replay(lines, new).wrong_dst, new, s)
<1> DEFINE L == Len(lines)
           all == Replayed(lines, new)
<1>1. L \in Nat /\ \A n \in 1 .. L : lines[n] \in Transaction /\ lines[n] \in ToSet(s)
  <2>1. DOMAIN lines = 1 .. L /\ L \in Nat /\ \A n \in 1 .. L : lines[n] \in Transaction
    OBVIOUS
  <2>2. \A n \in 1 .. L : lines[n] \in ToSet(lines)
    BY <2>1 DEF ToSet
  <2> QED
    BY <2>1, <2>2
<1> HIDE DEF all
<1>2. /\ \A n \in 0 .. L : all[n] \in ReplayStates(new)
      /\ all[0] = Fresh(new)
      /\ \A n \in 1 .. L : all[n] = ReplayLine(all[n - 1], lines[n])
  BY Replaying DEF all
<1> HIDE DEF L
<1> DEFINE P == {n \in 0 .. L : Knows(all[n].balances, all[n].wrong_dst, new, s)}
<1>3. 0 \in P
  <2>1. Knows(Fresh(new).balances, Fresh(new).wrong_dst, new, s)
    BY DEF Knows, Fresh
  <2> QED
    BY <1>1, <1>2, <2>1
<1>4. ASSUME NEW n \in 1 .. L, n - 1 \in P PROVE n \in P
  <2> DEFINE st == all[n - 1]
             t  == lines[n]
  <2>1. /\ st.balances \in [Sources(new) -> Int] /\ Knows(st.balances, st.wrong_dst, new, s)
        /\ all[n] = ReplayLine(st, t) /\ t \in Transaction /\ t \in ToSet(s)
    <3>1. n - 1 \in 0 .. L
      BY <1>1
    <3>2. st \in ReplayStates(new)
      BY <1>2, <3>1
    <3> QED
      BY <1>1, <1>2, <1>4, <3>2 DEF ReplayStates
  <2> HIDE DEF st, t
  <2>2. CASE IsAccount(t)
    <3>1. Known(s, t.acct)
      BY <2>1, <2>2, PairedKnows
    <3>2. \A a \in Sources(new) : a # t.acct => ReplayLine(st, t).balances[a] = st.balances[a]
      BY <2>1, <2>2 DEF ReplayLine
    <3>3. ReplayLine(st, t).wrong_dst = st.wrong_dst \ {t.acct}
      BY <2>2 DEF ReplayLine
    <3> QED
      BY <1>1, <2>1, <3>1, <3>2, <3>3 DEF Knows
  <2>3. CASE ~ IsAccount(t)
    <3>1. Known(s, t.src) /\ Known(s, t.dst)
      BY <2>1, <2>3, PairedKnows
    <3>2. \A a \in Sources(new) : a # t.src /\ a # t.dst => ReplayLine(st, t).balances[a] = st.balances[a]
      BY <2>1, <2>3 DEF ReplayLine
    <3>3. ReplayLine(st, t).wrong_dst = st.wrong_dst
      BY <2>3 DEF ReplayLine
    <3> QED
      BY <1>1, <2>1, <3>1, <3>2, <3>3 DEF Knows
  <2> QED
    BY <2>2, <2>3
<1> HIDE DEF P
<1>5. 0 .. L \subseteq P
  BY <1>1, <1>3, <1>4, UpTo
<1>6. L \in P /\ L \in 0 .. L
  BY <1>1, <1>5
<1> QED
  BY <1>2, <1>6 DEF P, Replay, all, L

\* The amounts of payments are not negative.
Positive(new) == \A t \in new : ~ IsAccount(t) => t.amount \in Nat

\* A state of a validation whose valid transactions may be added to s, and that
\* knows what s registers with them.
Kept(st, new, s) ==
  /\ st \in States(new)
  /\ Paired(s \o st.valid)
  /\ Knows(st.balances, st.wrong_dst, new, s \o st.valid)

\* A validation on a replay of lines out of s stays in such states.
LEMMA ValidKept ==
  ASSUME NEW new \in SUBSET Transaction, Positive(new), NEW order \in Seq(new),
         NEW s \in Seq(Transaction), Paired(s),
         NEW lines \in Seq(Transaction), ToSet(lines) \subseteq ToSet(s)
  PROVE  \A n \in 0 .. Len(order) : Kept(Validated(Replay(lines, new), order)[n], new, s)
<1> DEFINE L == Len(order)
           base == Replay(lines, new)
           all == Validated(base, order)
<1>1. L \in Nat /\ \A n \in 1 .. L : order[n] \in new
  OBVIOUS
<1>2. base \in ReplayStates(new) /\ Knows(base.balances, base.wrong_dst, new, s)
  BY ReplayKnows
<1> HIDE DEF all, base
<1>3. /\ \A n \in 0 .. L : all[n] \in States(new)
      /\ all[0] = AtStart(base)
      /\ \A n \in 1 .. L : all[n] = ValidateLine(all[n - 1], order[n])
  BY <1>2, Validating DEF all
<1> HIDE DEF L
<1> DEFINE Good(st) == Paired(s \o st.valid) /\ Knows(st.balances, st.wrong_dst, new, s \o st.valid)
           P == {n \in 0 .. L : Good(all[n])}
<1>4. 0 \in P
  <2>1. s \o <<>> = s
    OBVIOUS
  <2>2. /\ AtStart(base).valid = <<>> /\ AtStart(base).balances = base.balances
        /\ AtStart(base).wrong_dst = base.wrong_dst
    BY DEF AtStart
  <2>3. Good(AtStart(base))
    BY <1>2, <2>1, <2>2
  <2> QED
    BY <1>1, <1>3, <2>3
<1>5. ASSUME NEW n \in 1 .. L, n - 1 \in P PROVE n \in P
  <2> DEFINE st == all[n - 1]
             t  == order[n]
             s1 == s \o st.valid
             s2 == Append(s1, t)
  <2>1. st \in States(new) /\ t \in new /\ t \in Transaction /\ all[n] = ValidateLine(st, t)
    <3>1. n - 1 \in 0 .. L
      BY <1>1
    <3> QED
      BY <1>1, <1>3, <3>1
  <2>2. /\ st.valid \in Seq(new) /\ st.balances \in [Sources(new) -> Int]
        /\ st = [valid |-> st.valid, balances |-> st.balances, wrong_dst |-> st.wrong_dst]
    BY <2>1 DEF States
  <2>3. Paired(s1) /\ Knows(st.balances, st.wrong_dst, new, s1)
    BY <1>5
  <2>4. s1 \in Seq(Transaction) /\ s \o Append(st.valid, t) = s2
    <3>1. st.valid \in Seq(Transaction)
      BY <2>2, SeqOfMore
    <3> HIDE DEF st, t
    <3> QED
      BY <2>1, <3>1, AppendConcat
  <2> HIDE DEF st, t, s1
  <2>5. \A a : Known(s2, a) <=> Known(s1, a) \/ (IsAccount(t) /\ t.acct = a)
    BY <2>1, <2>4, KnownAppend
  <2> HIDE DEF s2
  <2>6. CASE ValidateLine(st, t) = st
    BY <1>1, <1>5, <2>1, <2>6 DEF st
  <2>7. CASE IsAccount(t) /\ ValidateLine(st, t) # st
    <3>1. ValidateLine(st, t) =
            [valid |-> Append(st.valid, t), balances |-> [st.balances EXCEPT ![t.acct] = t.balance],
             wrong_dst |-> st.wrong_dst]
      BY <2>2, <2>7 DEF ValidateLine
    <3>2. Paired(s2)
      BY <2>1, <2>3, <2>4, <2>7, PairedAppend DEF s2
    <3>3. Knows([st.balances EXCEPT ![t.acct] = t.balance], st.wrong_dst, new, s2)
      <4> DEFINE b == [st.balances EXCEPT ![t.acct] = t.balance]
      <4>1. \A a \in Sources(new) : a # t.acct => b[a] = st.balances[a]
        BY <2>2
      <4>2. Known(s2, t.acct) /\ \A a : Known(s1, a) => Known(s2, a)
        BY <2>5, <2>7
      <4> HIDE DEF b
      <4>3. Knows(b, st.wrong_dst, new, s2)
        BY <2>3, <4>1, <4>2 DEF Knows
      <4> QED
        BY <4>3 DEF b
    <3>4. Good(ValidateLine(st, t))
      <4> DEFINE next == ValidateLine(st, t)
                 b == [st.balances EXCEPT ![t.acct] = t.balance]
      <4>1. next.valid = Append(st.valid, t) /\ next.balances = b /\ next.wrong_dst = st.wrong_dst
        BY <3>1
      <4>2. Paired(s2) /\ Knows(b, st.wrong_dst, new, s2)
        BY <3>2, <3>3
      <4> HIDE DEF next, b
      <4>3. s \o next.valid = s2
        BY <2>4, <4>1
      <4>4. Good(next)
        BY <4>1, <4>2, <4>3
      <4> QED
        BY <4>4 DEF next
    <3> HIDE DEF Good
    <3> QED
      BY <1>1, <2>1, <3>4
  <2>8. CASE ~ IsAccount(t) /\ ValidateLine(st, t) # st
    <3>1. /\ ~ (t.amount > st.balances[t.src]) /\ t.dst \notin st.wrong_dst
          /\ ValidateLine(st, t) =
               [valid |-> Append(st.valid, t), balances |-> Transfer(st.balances, t),
                wrong_dst |-> st.wrong_dst]
      BY <2>2, <2>8 DEF ValidateLine
    <3>2. t.src \in Sources(new) /\ t.dst \in Targets(new) /\ t.amount \in Nat
      BY <2>1, <2>8, OfMembers DEF Positive
    <3>3. Known(s1, t.src) /\ Known(s1, t.dst)
      BY <2>2, <2>3, <3>1, <3>2 DEF Knows, Unknown
    <3>4. Paired(s2)
      BY <2>1, <2>3, <2>4, <3>3, PairedAppend DEF s2
    <3>5. \A a \in Sources(new) : a # t.src /\ a # t.dst => Transfer(st.balances, t)[a] = st.balances[a]
      BY <2>2, <3>2 DEF Transfer
    <3>6. Knows(Transfer(st.balances, t), st.wrong_dst, new, s2)
      <4> DEFINE b == Transfer(st.balances, t)
      <4>1. \A a : Known(s1, a) => Known(s2, a)
        BY <2>5
      <4> HIDE DEF b
      <4>2. Knows(b, st.wrong_dst, new, s2)
        BY <2>3, <3>3, <3>5, <4>1 DEF Knows, b
      <4> QED
        BY <4>2 DEF b
    <3>7. Good(ValidateLine(st, t))
      <4> DEFINE next == ValidateLine(st, t)
                 b == Transfer(st.balances, t)
      <4>1. next.valid = Append(st.valid, t) /\ next.balances = b /\ next.wrong_dst = st.wrong_dst
        BY <3>1
      <4>2. Paired(s2) /\ Knows(b, st.wrong_dst, new, s2)
        BY <3>4, <3>6
      <4> HIDE DEF next, b
      <4>3. s \o next.valid = s2
        BY <2>4, <4>1
      <4>4. Good(next)
        BY <4>1, <4>2, <4>3
      <4> QED
        BY <4>4 DEF next
    <3> HIDE DEF Good
    <3> QED
      BY <1>1, <2>1, <3>7
  <2> QED
    BY <2>6, <2>7, <2>8
<1> HIDE DEF P
<1>6. 0 .. L \subseteq P
  BY <1>1, <1>4, <1>5, UpTo
<1>7. \A n \in 0 .. L : Kept(all[n], new, s)
  BY <1>3, <1>6 DEF P, Kept
<1> QED
  BY <1>7 DEF all, base, L

\* What is valid on a replay of lines out of s may be added to s.
LEMMA ValidPaired ==
  ASSUME NEW new \in SUBSET Transaction, Positive(new), NEW order \in Seq(new),
         NEW s \in Seq(Transaction), Paired(s),
         NEW lines \in Seq(Transaction), ToSet(lines) \subseteq ToSet(s)
  PROVE  Valid(lines, new, order) \in Seq(new) /\ Paired(s \o Valid(lines, new, order))
<1> DEFINE last == Validated(Replay(lines, new), order)[Len(order)]
<1>1. Len(order) \in 0 .. Len(order)
  OBVIOUS
<1>2. Kept(last, new, s)
  BY <1>1, ValidKept
<1>3. Valid(lines, new, order) = last.valid
  BY DEF Valid
<1> HIDE DEF last
<1> QED
  BY <1>2, <1>3 DEF Kept, States

-----------------------------------------------------------------------------
(* What a validation is sure to accept.                                    *)

\* An account is known by a line that registers it.
LEMMA KnownMembers ==
  ASSUME NEW T, NEW s \in Seq(T), NEW a
  PROVE  Known(s, a) <=> \E t \in ToSet(s) : IsAccount(t) /\ t.acct = a
BY DEF Known, Named, ToSet

\* An account is known from one of two sequences.
LEMMA KnownConcat ==
  ASSUME NEW T, NEW s \in Seq(T), NEW v \in Seq(T), NEW a
  PROVE  Known(s \o v, a) <=> Known(s, a) \/ Known(v, a)
<1> DEFINE both == s \o v
<1>1. both \in Seq(T) /\ ToSet(both) = ToSet(s) \cup ToSet(v)
  BY ConcatSet
<1> HIDE DEF both
<1>2. Known(both, a) <=> \E t \in ToSet(both) : IsAccount(t) /\ t.acct = a
  BY <1>1, KnownMembers
<1>3. Known(s, a) <=> \E t \in ToSet(s) : IsAccount(t) /\ t.acct = a
  BY KnownMembers
<1>4. Known(v, a) <=> \E t \in ToSet(v) : IsAccount(t) /\ t.acct = a
  BY KnownMembers
<1> QED
  BY <1>1, <1>2, <1>3, <1>4 DEF both

\* No account that the lines register is a wrong target after their replay.
LEMMA ReplayClears ==
  ASSUME NEW new \in SUBSET Transaction, NEW lines \in Seq(Transaction), NEW a, Known(lines, a)
  PROVE  a \notin Replay(lines, new).wrong_dst
<1> DEFINE L == Len(lines)
           all == Replayed(lines, new)
<1>1. L \in Nat
  OBVIOUS
<1> HIDE DEF all
<1>2. \A n \in 1 .. L : all[n] = ReplayLine(all[n - 1], lines[n])
  BY Replaying DEF all
<1> DEFINE P == {n \in 0 .. L : \A k \in 1 .. n : IsAccount(lines[k]) => lines[k].acct \notin all[n].wrong_dst}
<1> HIDE DEF L
<1>3. 0 \in P
  BY <1>1
<1>4. ASSUME NEW n \in 1 .. L, n - 1 \in P PROVE n \in P
  <2> SUFFICES ASSUME NEW k \in 1 .. n, IsAccount(lines[k]) PROVE lines[k].acct \notin all[n].wrong_dst
    <3>1. n \in 0 .. L
      BY <1>1
    <3> QED
      BY <3>1
  <2>1. all[n].wrong_dst =
          IF IsAccount(lines[n]) THEN all[n - 1].wrong_dst \ {lines[n].acct} ELSE all[n - 1].wrong_dst
    <3> DEFINE st == all[n - 1]
               t == lines[n]
    <3>1. all[n] = ReplayLine(st, t)
      BY <1>2
    <3> HIDE DEF st, t
    <3>2. ReplayLine(st, t).wrong_dst = IF IsAccount(t) THEN st.wrong_dst \ {t.acct} ELSE st.wrong_dst
      BY DEF ReplayLine
    <3>3. all[n].wrong_dst = IF IsAccount(t) THEN st.wrong_dst \ {t.acct} ELSE st.wrong_dst
      BY <3>1, <3>2
    <3> QED
      BY <3>3 DEF st, t
  <2>2. CASE k = n
    BY <2>1, <2>2
  <2>3. CASE k # n
    <3>1. k \in 1 .. n - 1
      BY <1>1, <2>3
    <3> QED
      BY <1>4, <2>1, <3>1
  <2> QED
    BY <2>2, <2>3
<1> HIDE DEF P
<1>5. 0 .. L \subseteq P
  BY <1>1, <1>3, <1>4, UpTo
<1>6. L \in P
  BY <1>1, <1>5
<1>7. PICK k \in 1 .. L : IsAccount(lines[k]) /\ lines[k].acct = a
  BY DEF Known, Named, L
<1> QED
  BY <1>6, <1>7 DEF P, Replay, all, L

\* A validation keeps what it has accepted and changes no wrong target.
LEMMA ValidGrows ==
  ASSUME NEW new \in SUBSET Transaction, NEW st \in ReplayStates(new), NEW order \in Seq(new)
  PROVE  \A n \in 0 .. Len(order) :
           /\ Validated(st, order)[n].wrong_dst = st.wrong_dst
           /\ ToSet(Validated(st, order)[n].valid) \subseteq
                ToSet(Validated(st, order)[Len(order)].valid)
<1> DEFINE L == Len(order)
           all == Validated(st, order)
<1>1. L \in Nat /\ \A n \in 1 .. L : order[n] \in new
  OBVIOUS
<1> HIDE DEF all
<1>2. /\ \A n \in 0 .. L : all[n] \in States(new)
      /\ all[0] = AtStart(st)
      /\ \A n \in 1 .. L : all[n] = ValidateLine(all[n - 1], order[n])
  BY Validating DEF all
<1> HIDE DEF L
<1>3. ASSUME NEW n \in 1 .. L
      PROVE  /\ all[n].wrong_dst = all[n - 1].wrong_dst
             /\ ToSet(all[n - 1].valid) \subseteq ToSet(all[n].valid)
  <2> DEFINE before == all[n - 1]
             t == order[n]
  <2>1. before \in States(new) /\ t \in new /\ all[n] = ValidateLine(before, t)
    BY <1>1, <1>2
  <2>2. /\ before.valid \in Seq(new)
        /\ before = [valid |-> before.valid, balances |-> before.balances, wrong_dst |-> before.wrong_dst]
    BY <2>1 DEF States
  <2> HIDE DEF before, t
  <2>3. ToSet(before.valid) \subseteq ToSet(Append(before.valid, t))
    BY <2>1, <2>2 DEF ToSet
  <2>4. CASE ValidateLine(before, t) = before
    BY <2>1, <2>4 DEF before
  <2>5. CASE ValidateLine(before, t) # before
    <3>1. /\ ValidateLine(before, t).wrong_dst = before.wrong_dst
          /\ ValidateLine(before, t).valid = Append(before.valid, t)
      BY <2>2, <2>5 DEF ValidateLine
    <3> QED
      BY <2>1, <2>3, <3>1 DEF before
  <2> QED
    BY <2>4, <2>5
<1> DEFINE P == {n \in 0 .. L : /\ all[n].wrong_dst = st.wrong_dst
                               /\ \A k \in 0 .. n : ToSet(all[k].valid) \subseteq ToSet(all[n].valid)}
<1>4. 0 \in P
  <2>1. AtStart(st).wrong_dst = st.wrong_dst
    BY DEF AtStart
  <2>2. \A k \in 0 .. 0 : k = 0
    OBVIOUS
  <2> QED
    BY <1>1, <1>2, <2>1, <2>2
<1>5. ASSUME NEW n \in 1 .. L, n - 1 \in P PROVE n \in P
  <2>1. \A k \in 0 .. n : k = n \/ k \in 0 .. n - 1
    BY <1>1
  <2>2. all[n].wrong_dst = st.wrong_dst
    BY <1>3, <1>5
  <2>3. \A k \in 0 .. n : ToSet(all[k].valid) \subseteq ToSet(all[n].valid)
    BY <1>3, <1>5, <2>1
  <2>4. n \in 0 .. L
    BY <1>1
  <2> QED
    BY <2>2, <2>3, <2>4
<1> HIDE DEF P
<1>6. 0 .. L \subseteq P
  BY <1>1, <1>4, <1>5, UpTo
<1>7. \A n \in 0 .. L : n \in P /\ L \in P
  BY <1>1, <1>6
<1> QED
  BY <1>7 DEF P, all, L

\* When a batch has been validated, every account that it registers is known.
LEMMA ValidRegisters ==
  ASSUME NEW new \in SUBSET Transaction, Positive(new), NEW order \in Seq(new),
         NEW s \in Seq(Transaction), Paired(s),
         NEW lines \in Seq(Transaction), ToSet(lines) \subseteq ToSet(s),
         NEW t \in ToSet(order), IsAccount(t)
  PROVE  Known(s \o Valid(lines, new, order), t.acct)
<1> DEFINE L == Len(order)
           base == Replay(lines, new)
           all == Validated(base, order)
<1>1. base \in ReplayStates(new)
  BY ReplayKnows
<1> HIDE DEF base
<1>2. PICK k \in 1 .. L : t = order[k]
  BY DEF ToSet
<1>3. L \in Nat /\ k - 1 \in 0 .. L /\ k \in 0 .. L /\ L \in 0 .. L /\ t \in new
  BY <1>2
<1>4. Kept(all[k - 1], new, s) /\ Kept(all[k], new, s) /\ Kept(all[L], new, s)
  BY <1>3, ValidKept DEF base
<1> HIDE DEF all
<1>5. all[k] = ValidateLine(all[k - 1], t) /\ ToSet(all[k].valid) \subseteq ToSet(all[L].valid)
  BY <1>1, <1>2, <1>3, Validating, ValidGrows DEF all
<1> HIDE DEF L
<1> DEFINE before == all[k - 1].valid
           after == all[k].valid
           last == all[L].valid
<1>6. /\ before \in Seq(Transaction) /\ after \in Seq(Transaction) /\ last \in Seq(Transaction)
      /\ all[k - 1] = [valid |-> before, balances |-> all[k - 1].balances,
                       wrong_dst |-> all[k - 1].wrong_dst]
  BY <1>4, SeqOfMore DEF Kept, States
<1>7. Known(s, t.acct) \/ Known(after, t.acct)
  <2>1. CASE all[k - 1].balances[t.acct] # Unknown
    <3>1. t.acct \in Sources(new)
      BY <1>3, OfMembers
    <3>2. Known(s \o before, t.acct)
      BY <1>4, <2>1, <3>1 DEF Kept, Knows
    <3>3. all[k] = all[k - 1]
      BY <1>5, <2>1 DEF ValidateLine
    <3> HIDE DEF before
    <3>4. Known(s, t.acct) \/ Known(before, t.acct)
      BY <1>6, <3>2, KnownConcat
    <3> QED
      BY <3>3, <3>4 DEF before
  <2>2. CASE ~ (all[k - 1].balances[t.acct] # Unknown)
    <3>1. after = Append(before, t)
      BY <1>5, <1>6, <2>2 DEF ValidateLine
    <3>2. t \in Transaction
      BY <1>3
    <3> HIDE DEF before, after
    <3> QED
      BY <1>6, <3>1, <3>2, KnownAppend
  <2> QED
    BY <2>1, <2>2
<1> HIDE DEF before, after, last
<1>8. Known(after, t.acct) => Known(last, t.acct)
  <2>1. ToSet(after) \subseteq ToSet(last)
    BY <1>5 DEF after, last
  <2>2. Known(after, t.acct) <=> \E u \in ToSet(after) : IsAccount(u) /\ u.acct = t.acct
    BY <1>6, KnownMembers
  <2>3. Known(last, t.acct) <=> \E u \in ToSet(last) : IsAccount(u) /\ u.acct = t.acct
    BY <1>6, KnownMembers
  <2> QED
    BY <2>1, <2>2, <2>3
<1>9. Known(s \o last, t.acct)
  BY <1>6, <1>7, <1>8, KnownConcat
<1>10. Valid(lines, new, order) = last
  BY DEF Valid, last, all, base, L
<1> QED
  BY <1>9, <1>10

\* The payer of each payment of a batch has the amount when its turn comes.
Funded(lines, new, order) ==
  \A n \in DOMAIN order : ~ IsAccount(order[n]) =>
    order[n].amount <= Validated(Replay(lines, new), order)[n - 1].balances[order[n].src]

\* Such a payment to an account that the lines register is valid.
LEMMA ValidPays ==
  ASSUME NEW new \in SUBSET Transaction, NEW order \in Seq(new), NEW lines \in Seq(Transaction),
         Funded(lines, new, order), NEW t \in ToSet(order), ~ IsAccount(t), Known(lines, t.dst)
  PROVE  t \in ToSet(Valid(lines, new, order))
<1> DEFINE L == Len(order)
           base == Replay(lines, new)
           all == Validated(base, order)
<1>1. base \in ReplayStates(new)
  <2>1. Len(lines) \in 0 .. Len(lines)
    OBVIOUS
  <2> QED
    BY <2>1, Replaying DEF Replay
<1>2. t.dst \notin base.wrong_dst
  BY ReplayClears
<1>3. PICK k \in 1 .. L : t = order[k] /\ t.amount <= all[k - 1].balances[t.src]
  BY DEF ToSet, Funded
<1> HIDE DEF base
<1>4. L \in Nat /\ k - 1 \in 0 .. L /\ k \in 0 .. L /\ t \in new
  BY <1>3
<1> HIDE DEF all
<1>5. /\ all[k - 1] \in States(new)
      /\ all[k] = ValidateLine(all[k - 1], t)
      /\ all[k - 1].wrong_dst = base.wrong_dst
      /\ ToSet(all[k].valid) \subseteq ToSet(all[L].valid)
  BY <1>1, <1>3, <1>4, Validating, ValidGrows DEF all
<1> HIDE DEF L
<1> DEFINE st == all[k - 1]
<1>6. /\ st.valid \in Seq(new) /\ st.balances \in [Sources(new) -> Int]
      /\ st = [valid |-> st.valid, balances |-> st.balances, wrong_dst |-> st.wrong_dst]
  BY <1>5 DEF States
<1>7. t.src \in Sources(new) /\ t.amount \in Int
  <2>1. t \in Transaction
    BY <1>4
  <2> QED
    BY <1>4, <2>1, OfMembers, Fields
<1> HIDE DEF st
<1>8. ~ (t.amount > st.balances[t.src]) /\ t.dst \notin st.wrong_dst
  BY <1>2, <1>3, <1>5, <1>6, <1>7 DEF st
<1>9. all[k].valid = Append(st.valid, t)
  BY <1>5, <1>6, <1>8 DEF ValidateLine, st
<1>10. t \in ToSet(all[k].valid)
  <2>1. Len(st.valid) + 1 \in DOMAIN Append(st.valid, t) /\ Append(st.valid, t)[Len(st.valid) + 1] = t
    BY <1>6
  <2> QED
    BY <1>9, <2>1 DEF ToSet
<1>11. Valid(lines, new, order) = all[L].valid
  BY DEF Valid, all, base, L
<1> QED
  BY <1>5, <1>10, <1>11

-----------------------------------------------------------------------------
(* No balance goes below zero.                                             *)

\* The balances after the lines that two sequences share are the same.
LEMMA CountingShared ==
  ASSUME NEW s \in Seq(Transaction), NEW more \in Seq(Transaction), Len(s) <= Len(more),
         \A k \in 1 .. Len(s) : more[k] = s[k], NEW a
  PROVE  \A k \in 0 .. Len(s) : Counted(more, a)[k] = Counted(s, a)[k]
<1> DEFINE L == Len(s)
           f == Counted(s, a)
           g == Counted(more, a)
           P == {k \in 0 .. L : g[k] = f[k]}
<1>1. L \in Nat /\ \A k \in 1 .. L : k \in 1 .. Len(more)
  OBVIOUS
<1> HIDE DEF f, g
<1>2. f[0] = 0 /\ g[0] = 0
  BY Counting DEF f, g
<1>3. \A k \in 1 .. L : f[k] = CountFor(a, f[k - 1], s[k])
  BY Counting DEF f
<1>4. \A k \in 1 .. L : g[k] = CountFor(a, g[k - 1], more[k])
  <2>1. \A k \in 1 .. Len(more) : g[k] = CountFor(a, g[k - 1], more[k])
    BY Counting DEF g
  <2> QED
    BY <1>1, <2>1
<1>5. 0 \in P
  BY <1>1, <1>2
<1>6. \A k \in 1 .. L : k - 1 \in P => k \in P
  BY <1>1, <1>3, <1>4
<1> HIDE DEF L, P
<1>7. 0 .. L \subseteq P
  BY <1>1, <1>5, <1>6, UpTo
<1> QED
  BY <1>7 DEF L, P, f, g

\* get_balance of the first lines is the balance after them.
LEMMA BalanceOfFirst ==
  ASSUME NEW s \in Seq(Transaction), NEW k \in 0 .. Len(s), NEW a
  PROVE  get_balance(SubSeq(s, 1, k), a) = Counted(s, a)[k]
<1> DEFINE first == SubSeq(s, 1, k)
<1>1. /\ first \in Seq(Transaction) /\ Len(first) = k /\ k <= Len(s) /\ k \in Nat
      /\ \A j \in 1 .. k : s[j] = first[j]
  OBVIOUS
<1> HIDE DEF first
<1>2. Counted(s, a)[k] = Counted(first, a)[k]
  BY <1>1, CountingShared
<1> QED
  BY <1>1, <1>2 DEF get_balance, first

\* No account is ever below zero in the lines s.
NonNegative(s) == \A a \in Acct : \A k \in 0 .. Len(s) : Counted(s, a)[k] >= 0

\* get_balance of one line more; it is not negative if no line before leaves an
\* account below zero.
LEMMA BalanceAppend ==
  ASSUME NEW s \in Seq(Transaction), NEW t \in Transaction
  PROVE  /\ \A a : get_balance(s, a) \in Int
         /\ \A a : get_balance(Append(s, t), a) = CountFor(a, get_balance(s, a), t)
         /\ NonNegative(s) => \A a \in Acct : get_balance(s, a) >= 0
         /\ NonNegative(s) /\ (\A a \in Acct : CountFor(a, get_balance(s, a), t) >= 0) =>
              NonNegative(Append(s, t))
<1> DEFINE n == Len(s)
           more == Append(s, t)
<1>1. /\ n \in Nat /\ more \in Seq(Transaction) /\ Len(more) = n + 1 /\ Len(s) <= Len(more)
      /\ more[n + 1] = t /\ \A k \in 1 .. n : more[k] = s[k]
  OBVIOUS
<1> HIDE DEF more
<1>2. \A a : \A k \in 0 .. n : Counted(more, a)[k] = Counted(s, a)[k]
  BY <1>1, CountingShared
<1>3. n + 1 \in 1 .. n + 1 /\ n + 1 - 1 = n /\ n \in 0 .. n
  BY <1>1
<1>4. \A a : get_balance(s, a) = Counted(s, a)[n] /\ Counted(s, a)[n] \in Int
  BY <1>3, Counting DEF get_balance
<1>5. \A a : get_balance(more, a) = Counted(more, a)[n + 1]
  BY <1>1 DEF get_balance
<1>6. \A a : Counted(more, a)[n + 1] = CountFor(a, Counted(more, a)[n], t)
  BY <1>1, <1>3, Counting
<1>7. \A a : get_balance(more, a) = CountFor(a, get_balance(s, a), t)
  BY <1>2, <1>3, <1>4, <1>5, <1>6
<1>8. NonNegative(s) => \A a \in Acct : get_balance(s, a) >= 0
  BY <1>3, <1>4 DEF NonNegative
<1>9. ASSUME NonNegative(s), \A a \in Acct : CountFor(a, get_balance(s, a), t) >= 0
      PROVE  NonNegative(more)
  <2> SUFFICES ASSUME NEW a \in Acct, NEW k \in 0 .. n + 1 PROVE Counted(more, a)[k] >= 0
    BY <1>1 DEF NonNegative
  <2>1. CASE k = n + 1
    BY <1>5, <1>7, <1>9, <2>1
  <2>2. CASE k # n + 1
    <3>1. k \in 0 .. n
      BY <1>1, <2>2
    <3> QED
      BY <1>2, <1>9, <3>1 DEF NonNegative
  <2> QED
    BY <2>1, <2>2
<1> QED
  BY <1>4, <1>7, <1>8, <1>9 DEF more

\* Lines that leave no account below zero do so up to any of them.
LEMMA NonNegativePrefix ==
  ASSUME NEW s \in Seq(Transaction), NEW v \in Seq(Transaction), NonNegative(s \o v)
  PROVE  NonNegative(s)
<1> DEFINE more == s \o v
<1>1. /\ more \in Seq(Transaction) /\ Len(s) \in Nat /\ Len(more) \in Nat /\ Len(s) <= Len(more)
      /\ \A k \in 1 .. Len(s) : more[k] = s[k]
  OBVIOUS
<1> HIDE DEF more
<1>2. \A a : \A k \in 0 .. Len(s) : Counted(more, a)[k] = Counted(s, a)[k]
  BY <1>1, CountingShared
<1>3. 0 .. Len(s) \subseteq 0 .. Len(more)
  BY <1>1
<1> QED
  BY <1>2, <1>3 DEF NonNegative, more

\* Balances and amounts are not negative, and no account pays itself.
Regular(new) ==
  \A t \in new :
    /\ IsAccount(t) => t.balance \in Nat
    /\ ~ IsAccount(t) => t.amount \in Nat /\ t.src # t.dst

\* A replay in the order of writing ends with no more than the balances: it leaves
\* out what sources receive from each other, and a registration that is read when
\* the account has a balance only replaces it.
LEMMA ReplayBelow ==
  ASSUME NEW T \in SUBSET Transaction, Regular(T), NEW s \in Seq(T), NonNegative(s),
         NEW new \in SUBSET Transaction
  PROVE  \A a \in Sources(new) : Replay(s, new).balances[a] <= get_balance(s, a)
<1> DEFINE L == Len(s)
           all == Replayed(s, new)
           P == {n \in 0 .. L : \A a \in Sources(new) : all[n].balances[a] <= Counted(s, a)[n]}
<1>1. L \in Nat /\ (\A n \in 1 .. L : s[n] \in T) /\ s \in Seq(Transaction)
  BY SeqOfMore
<1> HIDE DEF all
<1>2. /\ \A n \in 0 .. L : all[n] \in ReplayStates(new)
      /\ all[0] = Fresh(new)
      /\ \A n \in 1 .. L : all[n] = ReplayLine(all[n - 1], s[n])
  BY <1>1, Replaying DEF all
<1>3. \A a : /\ \A n \in 0 .. L : Counted(s, a)[n] \in Int
             /\ Counted(s, a)[0] = 0
             /\ \A n \in 1 .. L : Counted(s, a)[n] = CountFor(a, Counted(s, a)[n - 1], s[n])
  BY <1>1, Counting
<1>4. Sources(new) \subseteq Acct
  BY Fields DEF Sources
<1>5. 0 \in P
  <2>1. \A a \in Sources(new) : all[0].balances[a] = -1
    BY <1>2 DEF Fresh, Unknown
  <2> QED
    BY <1>1, <1>3, <2>1
<1>6. ASSUME NEW n \in 1 .. L, n - 1 \in P PROVE n \in P
  <2> SUFFICES ASSUME NEW a \in Sources(new) PROVE all[n].balances[a] <= Counted(s, a)[n]
    BY <1>1
  <2> DEFINE st == all[n - 1]
             t  == s[n]
             c  == Counted(s, a)[n - 1]
  <2>1. /\ n - 1 \in 0 .. L /\ t \in T /\ t \in Transaction /\ a \in Acct
    BY <1>1, <1>4
  <2>2. st.balances \in [Sources(new) -> Int]
    BY <1>2, <2>1 DEF ReplayStates
  <2>3. c \in Int /\ c >= 0 /\ st.balances[a] <= c
    BY <1>3, <1>6, <2>1 DEF NonNegative
  <2>4. all[n] = ReplayLine(st, t) /\ Counted(s, a)[n] = CountFor(a, c, t)
    BY <1>2, <1>3
  <2> HIDE DEF st, t, c
  <2>5. CASE IsAccount(t)
    <3>1. t.balance \in Nat /\ ReplayLine(st, t).balances[a] = IF t.acct = a THEN t.balance ELSE st.balances[a]
      BY <2>1, <2>2, <2>5 DEF Regular, ReplayLine
    <3> QED
      BY <2>2, <2>3, <2>4, <2>5, <3>1 DEF CountFor
  <2>6. CASE ~ IsAccount(t)
    <3>1. t.amount \in Nat /\ t.src # t.dst /\ st.balances[a] \in Int
      BY <2>1, <2>2, <2>6 DEF Regular
    <3>2. CASE t.src = a
      <4>1. ReplayLine(st, t).balances[a] = st.balances[a] - t.amount
        BY <2>2, <2>6, <3>2 DEF ReplayLine
      <4> QED
        BY <2>3, <2>4, <2>6, <3>1, <3>2, <4>1 DEF CountFor
    <3>3. CASE t.src # a /\ t.dst = a
      <4>1. ReplayLine(st, t).balances[a] \in {st.balances[a], st.balances[a] + t.amount}
        BY <2>2, <2>6, <3>3 DEF ReplayLine
      <4> QED
        BY <2>3, <2>4, <2>6, <3>1, <3>3, <4>1 DEF CountFor
    <3>4. CASE t.src # a /\ t.dst # a
      <4>1. ReplayLine(st, t).balances[a] = st.balances[a]
        BY <2>2, <2>6, <3>4 DEF ReplayLine
      <4> QED
        BY <2>3, <2>4, <2>6, <3>4, <4>1 DEF CountFor
    <3> QED
      BY <3>2, <3>3, <3>4
  <2> QED
    BY <2>5, <2>6
<1> HIDE DEF P
<1>7. 0 .. L \subseteq P
  BY <1>1, <1>5, <1>6, UpTo
<1>8. L \in P
  BY <1>1, <1>7
<1> QED
  BY <1>8 DEF P, Replay, all, get_balance

\* What is valid on a replay in the order of writing takes no account below zero.
LEMMA ValidNonNegative ==
  ASSUME NEW T \in SUBSET Transaction, Regular(T), NEW s \in Seq(T), NonNegative(s),
         NEW new \in SUBSET T, NEW order \in Seq(new)
  PROVE  NonNegative(s \o Valid(s, new, order))
<1> DEFINE L == Len(order)
           base == Replay(s, new)
           all == Validated(base, order)
<1>1. L \in Nat /\ (\A n \in 1 .. L : order[n] \in new) /\ s \in Seq(Transaction) /\ new \in SUBSET Transaction
  BY SeqOfMore
<1>2. base \in ReplayStates(new)
  <2>1. Len(s) \in 0 .. Len(s)
    OBVIOUS
  <2> QED
    BY <1>1, <2>1, Replaying DEF Replay
<1>3. \A a \in Sources(new) : base.balances[a] <= get_balance(s, a)
  BY <1>1, ReplayBelow
<1> HIDE DEF all, base
<1>4. /\ \A n \in 0 .. L : all[n] \in States(new)
      /\ all[0] = AtStart(base)
      /\ \A n \in 1 .. L : all[n] = ValidateLine(all[n - 1], order[n])
  BY <1>1, <1>2, Validating DEF all
<1> HIDE DEF L
<1>5. Sources(new) \subseteq Acct
  BY <1>1, Fields DEF Sources
<1> DEFINE Good(st) == /\ NonNegative(s \o st.valid)
                       /\ \A a \in Sources(new) : st.balances[a] <= get_balance(s \o st.valid, a)
           P == {n \in 0 .. L : Good(all[n])}
<1>6. 0 \in P
  <2>1. s \o <<>> = s
    OBVIOUS
  <2>2. AtStart(base).valid = <<>> /\ AtStart(base).balances = base.balances
    BY DEF AtStart
  <2>3. Good(AtStart(base))
    BY <1>3, <2>1, <2>2
  <2> QED
    BY <1>1, <1>4, <2>3
<1>7. ASSUME NEW n \in 1 .. L, n - 1 \in P PROVE n \in P
  <2> DEFINE st == all[n - 1]
             t  == order[n]
             s1 == s \o st.valid
             s2 == Append(s1, t)
             next == ValidateLine(st, t)
  <2>1. st \in States(new) /\ t \in new /\ t \in T /\ t \in Transaction /\ all[n] = next
    <3>1. n - 1 \in 0 .. L
      BY <1>1
    <3> QED
      BY <1>1, <1>4, <3>1
  <2>2. /\ st.valid \in Seq(new) /\ st.balances \in [Sources(new) -> Int]
        /\ st = [valid |-> st.valid, balances |-> st.balances, wrong_dst |-> st.wrong_dst]
    BY <2>1 DEF States
  <2>3. NonNegative(s1) /\ \A a \in Sources(new) : st.balances[a] <= get_balance(s1, a)
    BY <1>7
  <2>4. s1 \in Seq(Transaction) /\ s \o Append(st.valid, t) = s2
    <3>1. st.valid \in Seq(Transaction)
      BY <1>1, <2>2, SeqOfMore
    <3> HIDE DEF st, t
    <3> QED
      BY <1>1, <2>1, <3>1, AppendConcat
  <2> HIDE DEF st, t, s1
  <2>5. /\ \A a : get_balance(s1, a) \in Int
        /\ \A a : get_balance(s2, a) = CountFor(a, get_balance(s1, a), t)
        /\ \A a \in Acct : get_balance(s1, a) >= 0
        /\ (\A a \in Acct : CountFor(a, get_balance(s1, a), t) >= 0) => NonNegative(s2)
    BY <2>1, <2>3, <2>4, BalanceAppend
  <2> HIDE DEF s2, next
  <2>6. CASE next = st
    BY <1>1, <1>7, <2>1, <2>6 DEF st
  <2>7. CASE IsAccount(t) /\ next # st
    <3>1. next.valid = Append(st.valid, t) /\ next.balances = [st.balances EXCEPT ![t.acct] = t.balance]
      BY <2>2, <2>7 DEF ValidateLine, next
    <3>2. t.balance \in Nat
      BY <2>1, <2>7 DEF Regular
    <3>3. NonNegative(s2)
      BY <2>5, <2>7, <3>2 DEF CountFor
    <3>4. \A a \in Sources(new) : next.balances[a] <= get_balance(s2, a)
      BY <1>5, <2>2, <2>3, <2>5, <2>7, <3>1, <3>2 DEF CountFor
    <3>5. s \o next.valid = s2
      BY <2>4, <3>1
    <3>6. Good(next)
      BY <3>3, <3>4, <3>5
    <3> HIDE DEF Good
    <3> QED
      BY <1>1, <2>1, <3>6
  <2>8. CASE ~ IsAccount(t) /\ next # st
    <3>1. /\ ~ (t.amount > st.balances[t.src])
          /\ next.valid = Append(st.valid, t) /\ next.balances = Transfer(st.balances, t)
      BY <2>2, <2>8 DEF ValidateLine, next
    <3>2. t.src \in Sources(new) /\ t.amount \in Nat /\ t.src # t.dst
      BY <2>1, <2>8, OfMembers DEF Regular
    <3>3. t.amount <= get_balance(s1, t.src)
      BY <2>2, <2>3, <2>5, <3>1, <3>2
    <3>4. NonNegative(s2)
      BY <2>5, <2>8, <3>2, <3>3 DEF CountFor
    <3>5. ASSUME NEW a \in Sources(new) PROVE next.balances[a] <= get_balance(s2, a)
      <4> DEFINE g == get_balance(s1, a)
      <4>1. /\ st.balances[a] \in Int /\ g \in Int /\ st.balances[a] <= g
            /\ get_balance(s2, a) = CountFor(a, g, t)
        BY <2>2, <2>3, <2>5
      <4> HIDE DEF g
      <4>2. CASE a = t.src
        <5>1. next.balances[a] = st.balances[a] - t.amount
          BY <2>2, <3>1, <3>2, <4>2 DEF Transfer
        <5> QED
          BY <2>8, <3>2, <4>1, <4>2, <5>1 DEF CountFor
      <4>3. CASE a = t.dst
        <5>1. next.balances[a] = st.balances[a] + t.amount
          BY <2>2, <3>1, <3>2, <4>3 DEF Transfer
        <5> QED
          BY <2>8, <3>2, <4>1, <4>3, <5>1 DEF CountFor
      <4>4. CASE a # t.src /\ a # t.dst
        <5>1. next.balances[a] = st.balances[a]
          BY <2>2, <3>1, <3>2, <4>4 DEF Transfer
        <5> QED
          BY <2>8, <4>1, <4>4, <5>1 DEF CountFor
      <4> QED
        BY <4>2, <4>3, <4>4
    <3>6. s \o next.valid = s2
      BY <2>4, <3>1
    <3>7. Good(next)
      BY <3>4, <3>5, <3>6
    <3> HIDE DEF Good
    <3> QED
      BY <1>1, <2>1, <3>7
  <2> QED
    BY <2>6, <2>7, <2>8
<1> HIDE DEF P
<1>8. 0 .. L \subseteq P
  BY <1>1, <1>6, <1>7, UpTo
<1>9. L \in P
  BY <1>1, <1>8
<1>10. Valid(s, new, order) = all[L].valid
  BY DEF Valid, all, base, L
<1> QED
  BY <1>9, <1>10 DEF P
=============================================================================
