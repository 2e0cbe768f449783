----------------------------- MODULE Algorithms -----------------------------
(***************************************************************************)
(* One call of the wallet's pure code at a time, with any input of a small *)
(* range, also inputs that a faulty node has chosen. A call remembers what *)
(* it was given and what it returned; what raises has returned {}.         *)
(***************************************************************************)
EXTENDS ThresholdKeys, MerkleTree, ShoupSignatures, Wire, Codec

CONSTANTS
  N,          \* the number of stripes
  K,          \* the number of stripes that decode
  MaxLen,     \* bound: the length of messages
  MaxNumber,  \* bound: the numbers that are tested for being prime
  Codes       \* messages for deepEncode, with the numbers before them: <<mc, f, t, c>>

ASSUME CodesAssumption  == Codes \subseteq Nat \X Nat \X Nat \X Content
ASSUME StripeAssumption == N \in Nat /\ K \in 1 .. N /\ K < bytes /\ N <= bytes

VARIABLE call

Idle == [op |-> "idle"]
Init == call = Idle

\* A call is made from Idle, and returns to it.
Call(record) == call' = record
Return       == call # Idle /\ call' = Idle

-----------------------------------------------------------------------------

Deal(a) == Call([op |-> "deal", a |-> a, out |-> dealer(a)])

\* Shares of the players S, of which one player's may be anything.
WithForged(shares, forged) == [shares EXCEPT ![Min(DOMAIN shares)] = forged]

\* k players make shares of a ciphertext, unless it is malformed: off by one in W.
Decrypt(a, m, r, off, S, forged) ==
  \E key \in dealer(a) :
    LET good   == encrypt(key.VK, m, r)
        c      == [good EXCEPT !.W = (@ + off) % order]
        honest == [i \in S |-> decrypt_share(key.SKs[i], c)]
    IN Call([op |-> "decrypt", m |-> m, bad |-> off # 0 \/ forged # honest[Min(S)],
             out |-> IF verify_ciphertext(c)
                     THEN combine_shares(key, c, WithForged(honest, forged)) ELSE {}])

\* k nodes sign a coin; their signatures are combined and verified.
Sign(a, h, S, forged) ==
  \E key \in dealer(a) :
    LET honest == [i \in S |-> sign(key.SKs[i], h)]
    IN Call([op |-> "sign", key |-> key, h |-> h, forged |-> forged # honest[Min(S)],
             out |-> combine_and_verify(key, h, WithForged(honest, forged))])

\* The same with Shoup's signatures, for a hash that has an inverse.
SignShoup(a, e, x, S, forged) ==
  LET honest == [i \in S |-> sign_share(x, Share(a, i))]
  IN Call([op |-> "shoup", dealt |-> Dealt(a), e |-> e, x |-> x, forged |-> forged # honest[Min(S)],
           out |-> {y \in combine_sigs(e, x, WithForged(honest, forged)) : verify_rsa(e, x, y)}])

\* A leader commits to the stripes of a message; a node that has those in S decodes,
\* also with the older code.
Decode(message, S) ==
  LET stripes == encode(K, N, message)
      older   == Encoder(K, N, fragList(K, message))
  IN \E root \in rootHash(N, older) :
       Call([op |-> "decode", message |-> message, S |-> S,
             out |-> decode_output(K, N, [i \in 0 .. N - 1 |-> IF i \in S THEN stripes[i] ELSE Absent],
                                   merkleTree(stripes, N)[1]),
             older |-> multiSigBr(K, N, older, S, root)])

\* A faulty leader commits to any stripes of the same length; two nodes decode.
DecodeForged(stripes, S, T) ==
  LET Have(J) == [i \in 0 .. N - 1 |-> IF i \in J THEN stripes[i] ELSE Absent]
      root    == merkleTree(stripes, N)[1]
  IN Call([op |-> "decode forged", stripes |-> stripes,
           out |-> decode_output(K, N, Have(S), root), other |-> decode_output(K, N, Have(T), root),
           older |-> multiSigBr(K, N, stripes, S \cup T, root)])

\* A branch for the leaf at index, made of anything found in the tree.
Prove(leaves, size, index, val, branch) ==
  LET mt == merkleTree(leaves, size)
  IN Call([op |-> "prove", own |-> val = leaves[index] /\ branch = getMerkleBranch(index, mt, size),
           out |-> merkleVerify(size, val, mt[1], branch, index)])

Test(n) == Call([op |-> "prime", n |-> n, out |-> is_probable_prime(n), silent |-> Silent(n)])

Encode(msg) ==
  Call([op |-> "code", sent |-> msg,
        out |-> {deepDecode(buf) : buf \in deepEncode(msg[1], msg[2], msg[3], msg[4])}])

EncodeTransaction(tr) ==
  Call([op |-> "transaction", sent |-> tr,
        out |-> {constructTransactionFromRepr(r) : r \in encodeTransaction(tr[1], tr[2], tr[3])}])
EncodeEnc(C) ==
  Call([op |-> "ciphertext", sent |-> C, out |-> {deserializeEnc(r) : r \in serializeEnc(C[1], C[2], C[3])}])

Send(i, r, o) ==
  Call([op |-> "send", sent |-> [round |-> r, queue |-> o[1], j |-> o[2], item |-> <<i, o[3]>>],
        out |-> broadcast_receiver(_recv(_send(i, r, o)))])

\* Keys are written by a dealer and read when a node starts.
Start(VK, VKs, SKs) ==
  LET file == KeyFile(players, k, VK, VKs, SKs)
  IN Call([op |-> "keys", sent |-> [l |-> players, k |-> k, VK |-> VK, VKs |-> VKs, SKs |-> SKs],
           out |-> IF VK.group = "G1" THEN initiateThresholdEnc(file) ELSE initiateThresholdSig(file)])

-----------------------------------------------------------------------------
(* The inputs.                                                             *)

Shares == kSubset(k, Player)

\* The secret and one more coefficient; the hashes that have an inverse.
RSACoefficients(e) == {[n \in 0 .. 1 |-> IF n = 0 THEN divm(e, exponents) ELSE z] : z \in 0 .. exponents - 1}
Hashes             == {x \in 2 .. modulus - 1 : Unit(x, modulus)}

\* Any strings of one byte: what a faulty leader commits to.
AnyStripes == [0 .. N - 1 -> TupleOf(0 .. bytes - 1, 1)]

\* What is found in a tree, and a string whose hash is an inner node.
Leaf         == TupleOf(Bytes, 1)
Leaves(size) == [0 .. size - 1 -> Leaf]
Nodes(mt)    == {mt[i] : i \in DOMAIN mt}
Inner(mt)    == {mt[2 * i] \o mt[2 * i + 1] : i \in {j \in DOMAIN mt : 2 * j \in DOMAIN mt}}

Proof ==
  \E size \in 1 .. N : \E leaves \in Leaves(size), index \in 0 .. size - 1 :
    LET mt == merkleTree(leaves, size)
    IN \E val \in Leaf \cup Inner(mt), branch \in BoundedSeq(Nodes(mt), Depth(size)) :
         Prove(leaves, size, index, val, branch)

\* The messages of the sub-protocols, for each their instances.
Payloads(tag) ==
  CASE tag = "ACS_COIN" -> {<<"COIN", e, deserialize1(s)>> : e \in 0 .. 1, s \in Bytes}
    [] tag = "TPKE"     -> TupleOf({deserialize1(s) : s \in Bytes} \cup {None}, players)
    [] OTHER            -> Bytes
Instances(tag) == IF tag = "TPKE" THEN {0} ELSE Player

Keys(group) == [group : {group}, bytes : Bytes]

Next ==
  \/ /\ call = Idle
     /\ \E i \in Player, r \in 0 .. 1, tag \in Tag : \E j \in Instances(tag), p \in Payloads(tag) :
          Send(i, r, <<tag, j, p>>)
  \/ /\ call = Idle
     /\ \E g \in {"G1", "G2"} : \E VK \in Keys(g), VKs \in TupleOf(Keys(g), 2), SKs \in TupleOf(Keys("ZR"), 2) :
          Start(VK, VKs, SKs)
  \/ /\ call = Idle
     /\ \E C \in TupleOf(BoundedSeq(0 .. 1, PAIRING_SERIALIZED_1), 3) : EncodeEnc(C)
  \/ /\ call = Idle
     /\ \E s, t \in {0, 255, 256}, amount \in {1, 255, 256, 65535, 65536} : EncodeTransaction(<<s, t, amount>>)
  \/ /\ call = Idle
     /\ \E msg \in Codes : Encode(msg)
  \/ /\ call = Idle
     /\ \E a \in Coefficients, h \in 1 .. order - 1, S \in Shares, x \in ZR : Sign(a, h, S, x)
  \/ /\ call = Idle
     /\ \E e \in Exponents : \E a \in RSACoefficients(e), x \in Hashes, S \in kSubset(needed, 1 .. l) :
          \E y \in {1, x, sign_share(x, Share(a, Min(S)))} : SignShoup(a, e, x, S, y)
  \/ call = Idle /\ Proof
  \/ /\ call = Idle
     /\ \E message \in BoundedSeq(0 .. 1, MaxLen), S \in SUBSET (0 .. N - 1) : Decode(message, S)
  \/ /\ call = Idle
     /\ \E a \in Coefficients : Deal(a)
  \/ /\ call = Idle
     /\ \E a \in Coefficients, m \in String, r \in 1 .. order - 1 :
          \E off \in 0 .. 1, S \in Shares, x \in ZR : Decrypt(a, m, r, off, S, x)
  \/ /\ call = Idle
     /\ \E n \in 2 .. MaxNumber : Test(n)
  \/ /\ call = Idle
     /\ \E stripes \in AnyStripes : \E S, T \in kSubset(K, 0 .. N - 1) : DecodeForged(stripes, S, T)
  \/ Return

Spec == Init /\ [][Next]_call

-----------------------------------------------------------------------------
(* Properties.                                                             *)

\* Whichever k players take part, their shares come to the one plaintext or
\* signature of the key, or to none when one of them is forged: two nodes that hear
\* different players first never go on with different blocks or coins.
SharesCombineToOne ==
  /\ call.op = "decrypt" => call.out = IF call.bad THEN {} ELSE {call.m}
  /\ call.op = "sign" => call.out = IF call.forged THEN {} ELSE {(call.h * call.key.VK) % order}

\* Fewer than k players know nothing: their shares go with every secret. And what a
\* dealer returns passes its own test.
TooFewKnowNothing ==
  call.op = "deal" => \E key \in call.out : \A S \in kSubset(k - 1, Player), secret \in ZR :
    \E b \in Coefficients : b[0] = secret /\ \A other \in dealer(b), i \in S : other.SKs[i] = key.SKs[i]

ThresholdHolds == SharesCombineToOne /\ TooFewKnowNothing

\* Any K stripes of a message restore it, fewer do not. Of stripes that no message
\* has, either every node makes the same message or every node fails.
DecodedAlike ==
  /\ call.op = "decode" =>
       /\ call.out = IF Cardinality(call.S) >= K THEN {call.message} ELSE {}
       /\ call.older = IF Cardinality(call.S) >= K THEN {{call.message}} ELSE {}
  /\ call.op = "decode forged" => call.out = call.other /\ Cardinality(call.older) = 1

\* A branch shows a leaf at its index and nothing else, whatever it is made of.
ProvesOwnLeaf == call.op = "prove" => (call.out <=> call.own)

\* The numbers of a message have the sizes that the comment above deepEncode assumes.
LengthsInRange(c) == Len(c.s) \div 65536 < 65536 /\ Len(c.mb) < 256
FieldsInRange(c)  == \A field \in DOMAIN c \cap {"p1", "p2", "p3"} : c[field] < 256
NumbersInRange(c) ==
  /\ c.tag \in {"i", "e"} => LengthsInRange(c)
  /\ c.tag # "i" => FieldsInRange(c)
  /\ c.tag = "C" => c.r < 65536
InRange(msg) ==
  msg[1] \div 65536 < 65536 /\ msg[2] < 256 /\ msg[3] < 256 /\ NumbersInRange(msg[4])

\* What is sent arrives at its instance as it was, with the groups of its elements:
\* messages, keys in files, and messages in bytes, which are refused if too large.
ArrivesAsSent ==
  /\ call.op = "code" => call.out = IF InRange(call.sent) THEN {call.sent} ELSE {}
  /\ call.op = "transaction" =>
       call.out = {tr \in {call.sent} : tr[1] < 256 /\ tr[2] < 256 /\ tr[3] < 65536}
  /\ call.op = "ciphertext" =>
       call.out = {C \in {call.sent} : /\ Len(C[1]) = PAIRING_SERIALIZED_1 /\ Len(C[3]) = PAIRING_SERIALIZED_1
                                       /\ Len(C[2]) = CURVE_LENGTH}
  /\ call.op = "send" =>
       /\ call.out.round = call.sent.round
       /\ call.out.queue = IF call.sent.queue = "TPKE" THEN <<"TPKE">> ELSE <<call.sent.queue, call.sent.j>>
       /\ call.out.item = call.sent.item
  /\ call.op = "keys" => call.out = call.sent

\* No prime is refused, and at most a quarter of the bases let a composite number
\* pass, so that 50 of them nearly never do.
RarelyFooled ==
  call.op = "prime" =>
    /\ Prime(call.n) => call.out = {TRUE}
    /\ ~ Prime(call.n) => FALSE \in call.out
    /\ ~ Prime(call.n) /\ call.n % 2 = 1 => 4 * Cardinality(call.silent) <= call.n - 1

\* Shoup's shares come to a signature as well, and what the dealer asserts is true.
ShoupSharesCombine ==
  call.op = "shoup" =>
    /\ call.dealt
    /\ ~ call.forged => \E y \in call.out : verify_rsa(call.e, call.x, y)

\* What Shoup's scheme rests on: its numbers are primes and its shares combine.
ShoupHolds == RarelyFooled /\ ShoupSharesCombine
=============================================================================
