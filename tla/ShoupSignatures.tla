-------------------------- MODULE ShoupSignatures --------------------------
(***************************************************************************)
(* misc/shoup_tsig/shoup.py: threshold signatures in the style of RSA.     *)
(***************************************************************************)
EXTENDS MillerRabin, FiniteSetsExt, Folds

CONSTANTS
  p1, p2,  \* two safe primes
  l,       \* the number of parties
  needed   \* k: the number of shares that combine

ASSUME ShoupAssumption ==
  /\ Prime(p1) /\ Prime((p1 - 1) \div 2) /\ Prime(p2) /\ Prime((p2 - 1) \div 2)
  /\ needed \in 1 .. l

modulus == p1 * p2
exponents == ((p1 - 1) \div 2) * ((p2 - 1) \div 2)

\* The loop of egcd: gcd, x and y with a * x + b * y = gcd.
egcd(a, b) ==
  LET loop[a1, b1 \in Nat, x, y, u, v \in Int] ==
        IF a1 = 0 THEN <<b1, x, y>>
        ELSE LET quot == b1 \div a1
             IN loop[b1 % a1, a1, u, v, x - u * quot, y - v * quot]
  IN loop[a, b, 0, 1, 1, 0]

\* gmpy2.divm(1, x, n) and gmpy2.powmod, where there is an inverse.
divm(x, n)      == CHOOSE y \in 0 .. n - 1 : (x * y) % n = 1
powmod(x, e, n) == IF e < 0 THEN pow(divm(x, n), -e, n) ELSE pow(x, e, n)
Unit(x, n)      == egcd(x, n)[1] = 1

Times(S, op(_)) == MapThenFoldSet(LAMBDA x, y : x * y, 1, op, LAMBDA T : CHOOSE t \in T : TRUE, S)

\* The factorial of l; without it the weights are not whole numbers.
Delta == Times(1 .. l, LAMBDA i : i)

\* The weight of the share of j, a whole number; negative ones are divided as well.
lambdaS(S, i, j) ==
  LET num == Times(S \ {j}, LAMBDA jj : i - jj)
      den == Times(S \ {j}, LAMBDA jj : j - jj)
  IN (Delta * num * den) \div (den * den)

\* The public exponents that dealer can draw: d exists for them.
bit_length  == CHOOSE n \in 1 .. l : 2 ^ n > l /\ 2 ^ (n - 1) <= l
Exponents   == {e \in generateLargePrime(bit_length + 1) : Unit(e, exponents)}

\* The share of i: the polynomial with coefficients a, where a[0] is the secret d.
Share(a, i) == a[0] + MapThenSumSet(LAMBDA n : a[n] * i ^ n, DOMAIN a \ {0})

\* What dealer asserts of the first shares before it returns.
Dealt(a) ==
  LET S == 1 .. needed
  IN (Delta * Share(a, 0)) % exponents = MapThenSumSet(LAMBDA j : lambdaS(S, 0, j) * Share(a, j), S) % exponents

\* sign: x is the hash of the message.
sign_share(x, SK) == pow(x, 2 * Delta * SK, modulus)

combine_sigs(e, x, sigs) ==
  LET S  == DOMAIN sigs
      ep == 4 * Delta * Delta
      w  == Times(S, LAMBDA i : powmod(sigs[i], 2 * lambdaS(S, 0, i), modulus)) % modulus
      g  == egcd(ep, e)
  IN IF Cardinality(S) = needed /\ g[1] = 1
     THEN {(powmod(w, g[2], modulus) * powmod(x, g[3], modulus)) % modulus}
     ELSE {}

verify_rsa(e, x, sig) == x = pow(sig, e, modulus)
=============================================================================
