-------------------------------- MODULE Wire --------------------------------
(***************************************************************************)
(* How the messages of the sub-protocols travel: the tags and queues of    *)
(* _run_round and broadcast_receiver (honeybadgerbft/core/honeybadger.py), *)
(* the two conversions of router (hbbft_server.py), and the group elements *)
(* in messages and key files. A serialized element has lost the group that *)
(* it belongs to; whoever reads it says which one it is.                   *)
(***************************************************************************)
EXTENDS Integers, Sequences

CONSTANTS Bytes, None

ASSUME BytesAssumption == None \notin Bytes /\ "None" \notin Bytes

Group   == {"ZR", "G1", "G2"}
Element == [group : Group, bytes : Bytes]

serialize(g)          == g.bytes
deserialize(group, s) == [group |-> group, bytes |-> s]
deserialize0(s)       == deserialize("ZR", s)
deserialize1(s)       == deserialize("G1", s)
deserialize2(s)       == deserialize("G2", s)

-----------------------------------------------------------------------------
(* Messages <<round, <<tag, j, payload>>>>, with j the instance.           *)

Tag == {"ACS_COIN", "ACS_RBC", "ACS_ABA", "TPKE"}

\* A share in a TPKE message: None stands for a proposal that was left out.
Packed(share)   == IF share = None THEN "None" ELSE serialize(share)
Unpacked(bytes) == IF bytes = "None" THEN None ELSE deserialize1(bytes)

\* makeSend: the message for the stub. What is pickled comes out as it went in.
_send(i, round, o) ==
  [src |-> i, msg_id |-> o[2], round_id |-> round, op_type |-> o[1],
   operation |->
     CASE o[1] = "ACS_COIN" -> <<o[3][1], o[3][2], serialize(o[3][3])>>
       [] o[1] = "TPKE"     -> [n \in DOMAIN o[3] |-> Packed(o[3][n])]
       [] OTHER             -> o[3]]

\* makeRecv: the sender, the round and the message again.
_recv(w) ==
  <<w.src, w.round_id,
    <<w.op_type, w.msg_id,
      CASE w.op_type = "ACS_COIN" -> <<w.operation[1], w.operation[2], deserialize1(w.operation[3])>>
        [] w.op_type = "TPKE"     -> [n \in DOMAIN w.operation |-> Unpacked(w.operation[n])]
        [] OTHER                  -> w.operation>>>>

\* broadcast_receiver: the queue of the round that gets the pair of sender and
\* payload. The mutant has no queue of its own for the decryption shares.
ByInstance(tag, j) == <<tag, j>>
Queue(tag, j)      == IF tag = "TPKE" THEN <<tag>> ELSE <<tag, j>>
broadcast_receiver(received) ==
  LET o == received[3]
  IN [round |-> received[2], queue |-> Queue(o[1], o[2]), item |-> <<received[1], o[3]>>]

-----------------------------------------------------------------------------
(* Key files: _generate_keys writes, initiateThreshold* reads. The groups  *)
(* of verification keys are G1 for encryption and G2 for signatures.       *)

KeyFile(players, k, VK, VKs, SKs) ==
  [l |-> players, k |-> k, VK |-> serialize(VK), VKs |-> [n \in DOMAIN VKs |-> serialize(VKs[n])],
   SKs |-> [n \in DOMAIN SKs |-> <<n, serialize(SKs[n])>>]]

initiateThresholdEnc(file) ==
  [l |-> file.l, k |-> file.k, VK |-> deserialize1(file.VK), VKs |-> [n \in DOMAIN file.VKs |-> deserialize1(file.VKs[n])],
   SKs |-> [n \in DOMAIN file.SKs |-> deserialize0(file.SKs[n][2])]]

initiateThresholdSig(file) ==
  [l |-> file.l, k |-> file.k, VK |-> deserialize2(file.VK), VKs |-> [n \in DOMAIN file.VKs |-> deserialize2(file.VKs[n])],
   SKs |-> [n \in DOMAIN file.SKs |-> deserialize0(file.SKs[n][2])]]
=============================================================================
