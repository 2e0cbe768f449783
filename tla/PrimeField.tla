----------------------------- MODULE PrimeField -----------------------------
(***************************************************************************)
(* Arithmetic modulo a prime q: the exponents ZR of the pairing groups in  *)
(* charm, and the bytes of an erasure code.                                *)
(***************************************************************************)
EXTENDS Integers, Functions

PrimeNumber(q) == q \in Nat \ {0, 1} /\ \A a, b \in 2 .. q - 1 : a * b # q

Field(q) == 0 .. q - 1

inverse(q, x) == CHOOSE y \in 1 .. q - 1 : (x * y) % q = 1

\* Sum and product of the values of a function, in the field.
SumOver(q, f)     == FoldFunction(LAMBDA a, b : (a + b) % q, 0, f)
ProductOver(q, f) == FoldFunction(LAMBDA a, b : (a * b) % q, 1, f)

\* The product of the differences of x and the points in S.
Differences(q, S, x) == ProductOver(q, [p \in S |-> x - p])

\* The weight of point j in the value at x of the polynomial through the points S.
Weight(q, S, j, x) ==
  (Differences(q, S \ {j}, x) * inverse(q, Differences(q, S \ {j}, j))) % q

\* The powers of x, and the value at x of the polynomial with coefficients a.
Powers(q, x) ==
  LET xx[n \in Nat] == IF n = 0 THEN 1 ELSE (xx[n - 1] * x) % q
  IN xx
Polynomial(q, a, x) == SumOver(q, [n \in DOMAIN a |-> a[n] * Powers(q, x)[n]])
=============================================================================
