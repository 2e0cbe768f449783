------------------------------- MODULE Codec -------------------------------
(***************************************************************************)
(* The binary messages of misc/utils.py: deepEncode and deepDecode. Bytes  *)
(* are numbers below 256, numbers are little-endian, and lengths are       *)
(* counted in bytes. A message has the tag of its kind; what raises has no *)
(* result.                                                                 *)
(***************************************************************************)
EXTENDS Integers, Sequences, SequencesExt

CONSTANTS
  SHA_LENGTH,           \* the length of a hash
  PAIRING_SERIALIZED_1, \* the length of a serialized share
  CURVE_LENGTH          \* the length of an encrypted key

ASSUME LengthAssumption == {SHA_LENGTH, PAIRING_SERIALIZED_1, CURVE_LENGTH} \subseteq Nat \ {0}

\* A message: numbers, strings, and Merkle branches of hashes.
Byte == 0 .. 255
Text == Seq(Byte)
Hash == TupleOf(Byte, SHA_LENGTH)
Content ==
  [tag : {"i"}, p2 : {0}, s : Text, rh : Hash, mb : Seq(Hash), sig : Text]
  \cup [tag : {"e"}, p2 : Nat, s : Text, rh : Hash, mb : Seq(Hash), sig : Text]
  \cup [tag : {"A", "B"}, p1 : Nat, p2 : Nat, p3 : Nat]
  \cup [tag : {"C"}, p1 : Nat, r : Nat, sig : Text]
  \cup [tag : {"r"}, p1 : Nat, sig : Text]
  \cup [tag : {"O"}, p1 : Nat, sig : TupleOf(Byte, PAIRING_SERIALIZED_1)]

\* A number without its n lowest bytes, its bytes, and a number from its bytes.
Upper(x, n)        == LET u[m \in 0 .. n] == IF m = 0 THEN x ELSE u[m - 1] \div 256 IN u[n]
Little(width, x)   == [n \in 1 .. width |-> Upper(x, n - 1) % 256]
Number(width, buf) ==
  LET from[n \in 1 .. width + 1] == IF n > width THEN 0 ELSE buf[n] + 256 * from[n + 1]
  IN from[1]

\* What struct.pack accepts.
Fits(width, x) == Upper(x, width) = 0

Type(c) == CASE c.tag = "i" -> 1 [] c.tag = "e" -> 2 [] c.tag = "B" -> 3 [] c.tag = "A" -> 4
             [] c.tag = "C" -> 5 [] c.tag = "r" -> 6 [] c.tag = "O" -> 7

\* The numbers of a message after its type, with their widths, and the rest of it.
Numbers(c) ==
  CASE c.tag = "i"          -> <<<<4, Len(c.s)>>, <<1, Len(c.mb)>>>>
    [] c.tag = "e"          -> <<<<1, c.p2>>, <<4, Len(c.s)>>, <<1, Len(c.mb)>>>>
    [] c.tag \in {"A", "B"} -> <<<<1, c.p1>>, <<1, c.p2>>, <<1, c.p3>>>>
    [] c.tag = "C"          -> <<<<1, c.p1>>, <<2, c.r>>>>
    [] c.tag \in {"r", "O"} -> <<<<1, c.p1>>>>
Rest(c) ==
  CASE c.tag \in {"i", "e"}      -> c.s \o c.rh \o FlattenSeq(c.mb) \o c.sig
    [] c.tag \in {"A", "B"}      -> <<>>
    [] c.tag \in {"C", "r", "O"} -> c.sig

deepEncode(mc, f, t, c) ==
  LET fields == <<<<4, mc>>, <<1, f>>, <<1, t>>, <<1, Type(c)>>>> \o Numbers(c)
  IN {FlattenSeq([n \in DOMAIN fs |-> Little(fs[n][1], fs[n][2])]) \o Rest(c) :
        fs \in {x \in {fields} : \A n \in DOMAIN x : Fits(x[n][1], x[n][2])}}

\* Transactions, with the places of two names in the list of names; and ciphertexts,
\* of which the parts have fixed lengths.
encodeTransaction(source, target, amount) ==
  {Little(1, x[1]) \o Little(1, x[2]) \o Little(2, x[3]) :
     x \in {y \in {<<source, target, amount>>} : Fits(1, y[1]) /\ Fits(1, y[2]) /\ Fits(2, y[3])}}
serializeEnc(U, V, W) ==
  {C[1] \o C[2] \o C[3] :
     C \in {D \in {<<U, V, W>>} : /\ Len(D[1]) = PAIRING_SERIALIZED_1 /\ Len(D[3]) = PAIRING_SERIALIZED_1
                                  /\ Len(D[2]) = CURVE_LENGTH}}

\* The rest of a buffer, and the parts of a message with a Merkle branch of nr hashes.
From(buf, n) == SubSeq(buf, n, Len(buf))
Branch(tag, p2, lenS, nr, buf) ==
  [tag |-> tag, p2 |-> p2, s |-> SubSeq(buf, 1, lenS), rh |-> SubSeq(buf, lenS + 1, lenS + SHA_LENGTH),
   mb  |-> [n \in 1 .. nr |-> SubSeq(buf, lenS + n * SHA_LENGTH + 1, lenS + (n + 1) * SHA_LENGTH)],
   sig |-> From(buf, lenS + (nr + 1) * SHA_LENGTH + 1)]

\* The part after the type: a share is read to its length, all else to the end.
Body(type, c) ==
  CASE type = 1 -> Branch("i", 0, Number(4, c), c[5], From(c, 6))
    [] type = 2 -> Branch("e", c[1], Number(4, From(c, 2)), c[6], From(c, 7))
    [] type = 3 -> [tag |-> "B", p1 |-> c[1], p2 |-> c[2], p3 |-> c[3]]
    [] type = 4 -> [tag |-> "A", p1 |-> c[1], p2 |-> c[2], p3 |-> c[3]]
    [] type = 5 -> [tag |-> "C", p1 |-> c[1], r |-> Number(2, From(c, 2)), sig |-> From(c, 4)]
    [] type = 6 -> [tag |-> "r", p1 |-> c[1], sig |-> From(c, 2)]
    [] type = 7 -> [tag |-> "O", p1 |-> c[1], sig |-> SubSeq(c, 2, PAIRING_SERIALIZED_1 + 1)]

\* <<mc, f, t, c>> from its bytes.
deepDecode(buf) == <<Number(4, buf), buf[5], buf[6], Body(buf[7], From(buf, 8))>>

constructTransactionFromRepr(r) == <<r[1], r[2], Number(2, From(r, 3))>>
deserializeEnc(r) ==
  LET p == PAIRING_SERIALIZED_1
      q == p + CURVE_LENGTH
  IN <<SubSeq(r, 1, p), SubSeq(r, p + 1, q), SubSeq(r, q + 1, q + p)>>
=============================================================================
