-------------------------------- MODULE Amqp --------------------------------
(***************************************************************************)
(* One RabbitMQ queue as AMQP.Consume uses it: a single exclusive          *)
(* consumer, manual acknowledgement and no prefetch limit.  The broker     *)
(* pushes everything it has to that consumer, and the for-range loop hands *)
(* the deliveries to the handler one after the other.  So the queue is     *)
(*                                                                         *)
(*   ready    what the handler has not seen yet, oldest first;             *)
(*   current  the delivery the handler holds, <<>> between two handlers;   *)
(*   stuck    deliveries a handler returned from without settling them:    *)
(*            the broker keeps them unacknowledged until the channel dies. *)
(*                                                                         *)
(* The broker is not part of the repository: these operators say what the  *)
(* code in src/ relies on when it calls Publish, Ack and Reject.           *)
(***************************************************************************)
EXTENDS Sequences, Functions

QueueOf(M) == [ready : Seq(M), current : Seq(M), stuck : Seq(M)]

EmptyQueue == [ready |-> <<>>, current |-> <<>>, stuck |-> <<>>]

(* The messages no handler holds, and all the broker still keeps. *)
Waiting(q) == Range(q.ready) \cup Range(q.stuck)
Messages(q) == Waiting(q) \cup Range(q.current)

(* A publish routed to the queue.  Emit waits for no confirmation: what is *)
(* lost with a dying connection counts as never published, which for a     *)
(* daemon that acknowledges behind it, on the same connection, is a crash  *)
(* before the publish.                                                     *)
Put(q, m) ==
    [ready |-> Append(q.ready, m), current |-> q.current, stuck |-> q.stuck]

(* The loop hands the oldest delivery to the handler. *)
Take(q) ==
    [ready |-> Tail(q.ready), current |-> <<Head(q.ready)>>, stuck |-> q.stuck]

(* d.Ack(false), and d.Reject(false): the broker forgets the delivery. *)
Settle(q) == [ready |-> q.ready, current |-> <<>>, stuck |-> q.stuck]

(* d.Reject(true): the broker delivers it again at once, and with no       *)
(* prefetch limit that is behind all it has pushed already.                *)
Requeue(q) ==
    [ready |-> q.ready \o q.current, current |-> <<>>, stuck |-> q.stuck]

(* The handler returns false without having settled its delivery. *)
Forget(q) ==
    [ready |-> q.ready, current |-> <<>>, stuck |-> q.stuck \o q.current]

(* The channel dies with its process or its connection: whatever was not   *)
(* settled is delivered again to the next consumer, before the rest.       *)
ChannelLost(q) ==
    [ready |-> q.stuck \o q.current \o q.ready, current |-> <<>>, stuck |-> <<>>]
=============================================================================
