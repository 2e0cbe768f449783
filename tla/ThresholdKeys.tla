--------------------------- MODULE ThresholdKeys ---------------------------
(***************************************************************************)
(* The threshold keys of the wallet: decryption (crypto/threshenc/tpke.py) *)
(* and signatures (crypto/threshsig/boldyreva.py and its worker pools).    *)
(*                                                                         *)
(* An element of a pairing group is represented by its exponent, so that a *)
(* power is a product, a product of elements a sum, and a pairing the      *)
(* product of two exponents. What raises has no result: results are sets   *)
(* of at most one element.                                                 *)
(***************************************************************************)
EXTENDS PrimeField, FiniteSets, FiniteSetsExt

CONSTANTS
  order,    \* the order of the groups, a prime
  players,  \* l: the number of players
  k,        \* the number of shares that combine
  Places    \* the places of a bit in a string, so that a string is a subset

ASSUME OrderAssumption  == PrimeNumber(order) /\ order > players
ASSUME PlayerAssumption == k \in Nat \ {0} /\ players \in Nat /\ k <= players
ASSUME PlacesAssumption == Places \subseteq Nat /\ IsFiniteSet(Places)

ZR == Field(order)  \* exponents

Player == 0 .. players - 1
String == SUBSET Places

\* What the dealer draws at random: the secret a[0] and the other coefficients.
Coefficients == [0 .. k - 1 -> ZR]

polynom_eval(x, a) == Polynomial(order, a, x)

\* The weight of the share of j: at 0, of the polynomial through the points jj + 1.
lagrange(S, j) == Weight(order, S, j, order - 1)

\* VKs are the powers of the SKs, here the same numbers. The dealer tries the
\* polynomial at 0 and the first k players.
dealer(a) ==
  LET key == [VK |-> a[0], SKs |-> [i \in Player |-> polynom_eval(i + 1, a)]]
      S   == 0 .. k - 1
  IN {x \in {key} : /\ polynom_eval(0, a) = x.VK
                    /\ SumOver(order, [j \in S |-> polynom_eval(j + 1, a) * lagrange(S, j)]) = x.VK}

-----------------------------------------------------------------------------
(* Threshold encryption.                                                   *)

\* Stand-ins for the hash functions: some string, and an element that is not 1.
hashG(g)    == {p \in Places : (g \div 2 ^ p) % 2 = 1}
hashH(g, x) == 1 + ((g + Cardinality(x)) % (order - 1))

encrypt(VK, m, r) ==
  LET V == SymDiff(m, hashG((VK * r) % order))
  IN [U |-> r, V |-> V, W |-> (hashH(r, V) * r) % order]

verify_ciphertext(c) == c.W = (c.U * hashH(c.U, c.V)) % order

\* For a ciphertext that passes; for others it raises.
decrypt_share(SK, c) == (c.U * SK) % order

Unverified(key, i, share, c)   == TRUE  \* mutant of verify_share
verify_share(key, i, share, c) == share = (c.U * key.SKs[i]) % order

\* The product of the shares, each to the power of its weight.
Product(shares) == SumOver(order, [j \in DOMAIN shares |-> shares[j] * lagrange(DOMAIN shares, j)])

combine_shares(key, c, shares) ==
  {SymDiff(hashG(res), c.V) : res \in
    {Product(s) : s \in {t \in {shares} :
      Cardinality(DOMAIN t) = k /\ \A j \in DOMAIN t : verify_share(key, j, t[j], c)}}}

-----------------------------------------------------------------------------
(* Threshold signatures.                                                   *)

sign(SK, h) == (h * SK) % order

verify_signature(key, sig, h) == sig = (h * key.VK) % order

\* In boldyreva_gipc.py, by a worker process: shares are not verified one by one,
\* their signature is. (The pool of boldyreva_pool.py returns True all the same.)
combine_and_verify(key, h, sigs) ==
  {sig \in {Product(s) : s \in {t \in {sigs} : Cardinality(DOMAIN t) = k}} :
     verify_signature(key, sig, h)}
=============================================================================
