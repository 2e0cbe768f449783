----------------------------- MODULE MerkleTree -----------------------------
(***************************************************************************)
(* The pure half of honeybadgerbft/core/reliablebroadcast.py: erasure      *)
(* coding with its padding, and Merkle trees. Bytes are the elements of a  *)
(* prime field, over which zfec interpolates; a string is a sequence.      *)
(***************************************************************************)
EXTENDS PrimeField, FiniteSets, Sequences, SequencesExt

CONSTANT bytes  \* how many values a byte has, a prime

ASSUME ByteAssumption == PrimeNumber(bytes)

Absent == <<-1>>  \* the stripe of a node that has sent none

-----------------------------------------------------------------------------
(* zfec: the first K stripes are the blocks; every byte of stripe i is the *)
(* value at i of the polynomial through the bytes of the blocks.           *)

\* The block at x, from the K blocks of the stripes at the places in S.
BlockAt(stripes, S, x) ==
  [n \in DOMAIN stripes[CHOOSE i \in S : TRUE] |->
     SumOver(bytes, [i \in S |-> stripes[i][n] * Weight(bytes, S, i, x)])]

Encoder(K, N, blocks) == [i \in 0 .. N - 1 |-> BlockAt(blocks, 0 .. K - 1, i)]
Decoder(K, stripes, S) == [i \in 0 .. K - 1 |-> BlockAt(stripes, S, i)]

-----------------------------------------------------------------------------

Blocks(K, step, m) == [i \in 0 .. K - 1 |-> SubSeq(m, i * step + 1, (i + 1) * step)]

\* The padding is of 1 to K bytes, which tell how many they are.
encode(K, N, m) ==
  LET padlen == K - (Len(m) % K)
      padded == m \o [n \in 1 .. padlen |-> K - padlen]
      step   == Len(padded) \div K
  IN Encoder(K, N, Blocks(K, step, padded))

\* m[:n] in Python, where n may be negative or too large.
Upto(m, n) ==
  LET end == IF n < 0 THEN Len(m) + n ELSE n
  IN SubSeq(m, 1, IF end > Len(m) THEN Len(m) ELSE end)

\* The lowest K places at which there is a stripe, where there are so many.
FirstPlaces(K, N, stripes) ==
  LET There == {i \in 0 .. N - 1 : stripes[i] # Absent}
  IN {i \in There : Cardinality({j \in There : j < i}) < K}

decode(K, N, stripes) ==
  LET S == FirstPlaces(K, N, stripes)
      m == FlattenSeq([n \in 1 .. K |-> Decoder(K, stripes, S)[n - 1]])
  IN IF Cardinality(S) < K THEN {} ELSE {Upto(m, -(K - Last(m)))}

-----------------------------------------------------------------------------

\* A hash is a string of one symbol, its input: all hashes are of one length, and
\* different inputs have different ones.
hash(x) == <<x>>

PowerOf2[n \in Nat] == IF n = 0 THEN 1 ELSE 2 * PowerOf2[n - 1]
Depth(N)     == CHOOSE d \in 0 .. N : PowerOf2[d] >= N /\ \A e \in 0 .. d - 1 : PowerOf2[e] < N
bottomrow(N) == PowerOf2[Depth(N)]

\* A number as it is halved, level by level.
Halves(t) ==
  LET half[n \in Nat] == IF n = 0 THEN t ELSE half[n - 1] \div 2
  IN half

\* mt[1] is the root, mt[2i] and mt[2i+1] are below mt[i]; leaves that are missing
\* are empty strings.
merkleTree(strList, N) ==
  LET mt[i \in 1 .. 2 * bottomrow(N) - 1] ==
        IF i < bottomrow(N) THEN hash(mt[2 * i] \o mt[2 * i + 1])
        ELSE IF i - bottomrow(N) < N THEN hash(strList[i - bottomrow(N)]) ELSE <<>>
  IN mt

sibling(t) == IF t % 2 = 0 THEN t + 1 ELSE t - 1

getMerkleBranch(index, mt, N) ==
  [n \in 1 .. Depth(N) |-> mt[sibling(Halves(index + bottomrow(N))[n - 1])]]

\* The side of the sibling does not matter; and as merkleVerify has it.
AlwaysLeft(index, n)  == TRUE
IsRight(index, n) == Halves(index)[n - 1] % 2 = 1

\* The hashes on the way up from val.
Climb(val, branch, index) ==
  LET up[n \in 0 .. Len(branch)] ==
        IF n = 0 THEN hash(val)
        ELSE IF IsRight(index, n) THEN hash(branch[n] \o up[n - 1]) ELSE hash(up[n - 1] \o branch[n])
  IN up
merkleVerify(N, val, roothash, branch, index) ==
  Len(branch) = Depth(N) /\ Climb(val, branch, index)[Len(branch)] = roothash

\* decode_output, once the stripes at hand are known to be those under roothash.
Unchecked(K, N, m, roothash)  == TRUE  \* mutant of SameRoot
SameRoot(K, N, m, roothash)   == merkleTree(encode(K, N, m), N)[1] = roothash
decode_output(K, N, stripes, roothash) ==
  {m \in decode(K, N, stripes) : SameRoot(K, N, m, roothash)}

-----------------------------------------------------------------------------
(* The same in the older broadcast, multiSigBr of                          *)
(* misc/includeTransaction.py: other padding, and any K of the stripes. Its *)
(* tree has no leaves in the place of missing ones and raises.             *)

fragList(K, m) ==
  LET step == Len(m) \div K + 1
      gap  == step * K - Len(m)
  IN Blocks(K, step, m \o [n \in 1 .. gap |-> IF n = gap THEN gap ELSE bytes - 1])

rootHash(N, stripes) == {merkleTree(stripes, n)[1] : n \in {N} \cap {bottomrow(N)}}

\* From the stripes at the K places S; and every way to take K of those at hand.
reconstruction(K, N, stripes, S, root) ==
  LET rawbuf == FlattenSeq([n \in 1 .. K |-> Decoder(K, stripes, S)[n - 1]])
  IN {buf \in {Upto(rawbuf, -Last(rawbuf))} : rootHash(N, Encoder(K, N, fragList(K, buf))) = {root}}
multiSigBr(K, N, stripes, There, root) ==
  {reconstruction(K, N, stripes, S, root) : S \in {T \in SUBSET There : Cardinality(T) = K}}
=============================================================================
