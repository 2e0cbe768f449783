----------------------------- MODULE Transport -----------------------------
(***************************************************************************)
(* The way of a message from one node to another: the sender queue and its *)
(* one thread (BackendServiceHandler/backend_service_sender.py), the gRPC  *)
(* call into the receiver queue (backend_service_receiver.py), the two     *)
(* ends of router (hbbft_server.py), and the queues per round of           *)
(* HoneyBadgerBFT.run._recv.                                               *)
(*                                                                         *)
(* A message is a record with its sender (src) and its round; the rest is  *)
(* up to the module that sends it. A receiver takes the sender that a      *)
(* message names for the one that has sent it. That faulty nodes never     *)
(* name a correct one is an assumption: no code sees to it.                *)
(***************************************************************************)
EXTENDS Integers, Sequences, SequencesExt

CONSTANTS
  N,         \* the number of nodes
  Faulty,    \* the nodes that need not run this code
  Down,      \* the faulty nodes at which no server listens
  Malformed  \* messages without an operation, of an unknown type, or whose payload
             \* cannot be deserialized

Node    == 0 .. N - 1
Correct == Node \ Faulty

ASSUME NodeAssumption == N \in Nat \ {0} /\ Faulty \subseteq Node /\ Down \subseteq Faulty

VARIABLES
  sender_queue,    \* per node: pairs of a destination and a message
  sender,          \* per node: its sender thread is "running" or has "raised"
  receiver_queue,  \* per node
  receiver,        \* per node: the greenlet of run._recv is "running" or has "raised"
  per_round        \* per node: _per_round_recv, a queue for each round it knows of

transportVars == <<sender_queue, sender, receiver_queue, receiver, per_round>>

TransportInit ==
  /\ sender_queue   = [i \in Correct |-> <<>>]
  /\ sender         = [i \in Correct |-> "running"]
  /\ receiver_queue = [i \in Correct |-> <<>>]
  /\ receiver       = [i \in Correct |-> "running"]
  /\ per_round      = [i \in Correct |-> [r \in {0} |-> <<>>]]

-----------------------------------------------------------------------------

\* broadcast: the message for every node, in the order of their ids.
Broadcast(i, msg) ==
  sender_queue' = [sender_queue EXCEPT ![i] = @ \o [k \in 1 .. N |-> <<k - 1, msg>>]]

\* What reaches the server of node j, where there is one.
Arrive(j, msg) ==
  receiver_queue' =
    IF j \in Correct THEN [receiver_queue EXCEPT ![j] = Append(@, msg)] ELSE receiver_queue

\* The loop of the sender thread: one message is taken and sent, and the call has
\* returned before the next one is taken. Nothing catches the error of a call to
\* a node where no server listens.
SendNext(i) ==
  /\ sender[i] = "running"
  /\ sender_queue[i] # <<>>
  /\ sender_queue' = [sender_queue EXCEPT ![i] = Tail(@)]
  /\ LET to == Head(sender_queue[i])[1]
         msg == Head(sender_queue[i])[2]
     IN IF to \in Down
        THEN /\ sender' = [sender EXCEPT ![i] = "raised"]
             /\ UNCHANGED receiver_queue
        ELSE Arrive(to, msg) /\ UNCHANGED sender
  /\ UNCHANGED <<receiver, per_round>>

\* A faulty node sends what it likes, in its own name or that of no node: the call
\* takes every message, and line 137 reads the sender from it unchecked. In the name
\* of a correct node it sends nothing: this is the assumption.
Inject(j, msg) ==
  /\ msg \notin Malformed => msg.src \notin Correct
  /\ Arrive(j, msg)
  /\ UNCHANGED <<sender_queue, sender, receiver, per_round>>

\* A queue for round r, once there has been a use for it.
WithQueue(queues, r) ==
  [q \in DOMAIN queues \cup {r} |-> IF q \in DOMAIN queues THEN queues[q] ELSE <<>>]

\* _recv without the buffer for rounds that have not begun.
QueueIfKnown(queues, msg) ==
  IF msg.round \in DOMAIN queues THEN [queues EXCEPT ![msg.round] = Append(@, msg)] ELSE queues

\* _recv for one message: it waits in the queue of its round. That the assertion
\* of line 208 holds is the property NeverTooLate.
Buffered(queues, msg) == [WithQueue(queues, msg.round) EXCEPT ![msg.round] = Append(@, msg)]

\* One turn of run._recv: makeRecv turns what has come into a message, or raises an
\* error, which nothing catches.
Recv(j) ==
  /\ receiver[j] = "running"
  /\ receiver_queue[j] # <<>>
  /\ receiver_queue' = [receiver_queue EXCEPT ![j] = Tail(@)]
  /\ LET msg == Head(receiver_queue[j])
     IN \/ /\ msg \in Malformed
           /\ receiver' = [receiver EXCEPT ![j] = "raised"]
           /\ UNCHANGED per_round
        \/ /\ msg \notin Malformed
           /\ per_round' = [per_round EXCEPT ![j] = Buffered(@, msg)]
           /\ UNCHANGED receiver
  /\ UNCHANGED <<sender_queue, sender>>
=============================================================================
