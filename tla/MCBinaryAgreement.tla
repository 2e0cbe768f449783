------------------------- MODULE MCBinaryAgreement -------------------------
(***************************************************************************)
(* Instances of BinaryAgreement for TLC: four nodes, at most one faulty.   *)
(***************************************************************************)
EXTENDS BinaryAgreement, TLC

CONSTANTS n1, n2, n3, n4

AllCoins    == [Rounds -> Bit]
CoinIsOne   == {[r \in Rounds |-> 1]}
OneThenZero == {[r \in Rounds |-> 1 - (r % 2)]}

OneThenAny  == CoinIsOne \cup OneThenZero

AnyInput == [i \in Correct |-> Bit]
Mixed    == [i \in Correct |-> IF i = n3 THEN {0} ELSE {1}]

SymmetryMixed == Permutations({n1, n2})
\* What the code still reads: not the bin values of rounds a node has left, and
\* the values only between the CONF exchange and the coin.
View ==
  <<coin, input, pc, round, est, est_sent, aux_sent, conf_msg, decided,
    [i \in Correct |-> [r \in Rounds |->
       IF r < round[i] \/ (r = round[i] /\ pc[i] \in {"coin", "bound", "quit"})
       THEN {} ELSE bin_values[i][r]]],
    [i \in Correct |-> IF pc[i] = "coin" THEN values[i] ELSE {}]>>

\* The nodes get their inputs before they get any message.
InputsFirst == (\E i \in Correct : pc[i] = "input") =>
                 \E i \in Correct : pc[i] = "input" /\ pc'[i] # "input"

\* An error ends a receive loop while all correct nodes wait for AUX messages.
RaisesAtAux == heard' # heard => \A i \in Correct : pc[i] = "aux"
=============================================================================
