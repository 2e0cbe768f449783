---------------------------- MODULE MillerRabin ----------------------------
(***************************************************************************)
(* crypto/threshsig/millerrabin.py: which bases show that a number is      *)
(* composite, and what the test and the search for a prime can come to.    *)
(***************************************************************************)
EXTENDS Integers, FiniteSets

\* pow(b, e, n).
pow(b, e, n) ==
  LET p[k \in Nat] ==
        IF k = 0 THEN 1 % n
        ELSE LET half == p[k \div 2]
                 square == (half * half) % n
             IN IF k % 2 = 0 THEN square ELSE (square * b) % n
  IN p[e]
-----------------------------------------------------------------------------

\* How often 2 divides n - 1, and what is left.
twos(n) == CHOOSE s \in 0 .. n : (n - 1) % 2 ^ s = 0 /\ ((n - 1) \div 2 ^ s) % 2 = 1
odd(n)  == (n - 1) \div 2 ^ twos(n)

\* Fermat's test, which some composite numbers pass for most bases; and the test of
\* the code.
fermat(a, n) == pow(a, n - 1, n) # 1
try_composite(a, n) ==
  /\ pow(a, odd(n), n) # 1
  /\ \A i \in 0 .. twos(n) - 1 : pow(a, 2 ^ i * odd(n), n) # n - 1

\* The bases that do not show n to be composite.
Silent(n) == {a \in 2 .. n - 1 : ~ try_composite(a, n)}

\* What is_probable_prime can return: 50 bases are drawn, any of them twice.
is_probable_prime(n) ==
  IF n = 2 THEN {TRUE}
  ELSE IF n % 2 = 0 THEN {FALSE}
  ELSE {t \in BOOLEAN : t <=> Silent(n) # {}} \cup {t \in BOOLEAN : t <=> Silent(n) = 2 .. n - 1}

\* What generateLargePrime can return for a number of bits, unless it gives up.
generateLargePrime(bits) == {n \in 2 ^ (bits - 1) .. 2 ^ bits - 1 : TRUE \in is_probable_prime(n)}

Prime(n) == \A a \in 2 .. n - 1 : n % a # 0
=============================================================================
