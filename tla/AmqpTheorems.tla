----------------------------- MODULE AmqpTheorems ---------------------------
(***************************************************************************)
(* What the operators of module Amqp do to a queue: where its messages go, *)
(* and that none is invented or lost.  Every daemon's proof rests on these.*)
(***************************************************************************)
EXTENDS Amqp, Naturals, SequenceTheorems, TLAPS

(* The three parts of a queue of messages M are sequences over M. *)
LEMMA QueueParts ==
    ASSUME NEW M, NEW q \in QueueOf(M)
    PROVE  /\ q.ready \in Seq(M) /\ q.current \in Seq(M) /\ q.stuck \in Seq(M)
BY DEF QueueOf

(* Appending adds one element to what a sequence ranges over, as Put       *)
(* needs.                                                                  *)
LEMMA AppendRange ==
    ASSUME NEW M, NEW s \in Seq(M), NEW m \in M
    PROVE  /\ Append(s, m) \in Seq(M)
           /\ Range(Append(s, m)) = Range(s) \cup {m}
<1>1. /\ Append(s, m) \in Seq(M) /\ Len(s) \in Nat
      /\ Len(Append(s, m)) = Len(s) + 1
      /\ \A i \in 1 .. Len(s) : Append(s, m)[i] = s[i]
      /\ Append(s, m)[Len(s) + 1] = m
  BY AppendProperties, LenProperties
<1>2. /\ Range(s) = {s[i] : i \in 1 .. Len(s)}
      /\ Range(Append(s, m)) = {Append(s, m)[i] : i \in 1 .. Len(s) + 1}
  BY <1>1, RangeEquality
<1> QED BY <1>1, <1>2

(* A sequence ranges over its head and what its tail ranges over, as Take  *)
(* needs.                                                                  *)
LEMMA HeadTailRange ==
    ASSUME NEW M, NEW s \in Seq(M), s # <<>>
    PROVE  /\ Head(s) \in M /\ Tail(s) \in Seq(M)
           /\ Range(s) = {Head(s)} \cup Range(Tail(s))
<1>1. /\ Head(s) \in M /\ Tail(s) \in Seq(M)
      /\ Len(s) \in Nat \ {0} /\ Len(Tail(s)) = Len(s) - 1
      /\ Head(s) = s[1]
      /\ \A i \in 1 .. Len(s) - 1 : Tail(s)[i] = s[i + 1]
  BY HeadTailProperties, LenProperties, EmptySeq
<1>2. /\ Range(s) = {s[i] : i \in 1 .. Len(s)}
      /\ Range(Tail(s)) = {Tail(s)[i] : i \in 1 .. Len(s) - 1}
  <2>1. Range(s) = {s[i] : i \in 1 .. Len(s)}
    BY RangeEquality
  <2>2. Range(Tail(s)) = {Tail(s)[i] : i \in 1 .. Len(Tail(s))}
    BY <1>1, RangeEquality
  <2> QED BY <1>1, <2>1, <2>2
<1>3. ASSUME NEW i \in 1 .. Len(s), i # 1
      PROVE  s[i] \in Range(Tail(s))
  <2>1. i - 1 \in 1 .. Len(s) - 1 /\ (i - 1) + 1 = i
    BY <1>1, <1>3
  <2> QED BY <2>1, <1>1, <1>2
<1>4. ASSUME NEW i \in 1 .. Len(s) - 1
      PROVE  Tail(s)[i] \in Range(s)
  <2>1. i + 1 \in 1 .. Len(s) /\ Tail(s)[i] = s[i + 1]
    BY <1>1
  <2> QED BY <2>1, <1>2
<1>5. Head(s) \in Range(s)
  BY <1>1, <1>2
<1> QED BY <1>1, <1>2, <1>3, <1>4, <1>5

(* The empty sequence holds nothing. *)
LEMMA EmptyRange == Range(<<>>) = {}
BY DEF Range

(* A queue holds messages only of its own kind. *)
LEMMA MessagesType ==
    ASSUME NEW M, NEW q \in QueueOf(M)
    PROVE  Messages(q) \subseteq M /\ Waiting(q) \subseteq Messages(q)
BY QueueParts, RangeOfSeq DEF Messages, Waiting

(* A queue just declared holds no message. *)
LEMMA EmptyQueueLemma ==
    ASSUME NEW M
    PROVE  /\ EmptyQueue \in QueueOf(M)
           /\ Messages(EmptyQueue) = {} /\ Waiting(EmptyQueue) = {}
           /\ EmptyQueue.current = <<>>
BY EmptySeq, EmptyRange DEF EmptyQueue, QueueOf, Messages, Waiting

(* A publish adds its message to those nobody holds. *)
LEMMA PutLemma ==
    ASSUME NEW M, NEW q \in QueueOf(M), NEW m \in M
    PROVE  /\ Put(q, m) \in QueueOf(M)
           /\ Waiting(Put(q, m)) = Waiting(q) \cup {m}
           /\ Messages(Put(q, m)) = Messages(q) \cup {m}
           /\ Put(q, m).current = q.current
<1>1. /\ Append(q.ready, m) \in Seq(M)
      /\ Range(Append(q.ready, m)) = Range(q.ready) \cup {m}
  BY QueueParts, AppendRange
<1>2. Put(q, m) = [ready |-> Append(q.ready, m), current |-> q.current,
                   stuck |-> q.stuck]
  BY DEF Put
<1> QED BY <1>1, <1>2, QueueParts DEF QueueOf, Waiting, Messages

(* ... of whatever kind that message is. *)
LEMMA PutMessages ==
    ASSUME NEW M, NEW q \in QueueOf(M), NEW m
    PROVE  /\ Waiting(Put(q, m)) = Waiting(q) \cup {m}
           /\ Messages(Put(q, m)) = Messages(q) \cup {m}
           /\ Put(q, m).current = q.current
<1>1. q \in QueueOf(M \cup {m})
  <2>1. ASSUME NEW s \in Seq(M) PROVE s \in Seq(M \cup {m})
    BY <2>1
  <2> QED BY <2>1 DEF QueueOf
<1> QED BY <1>1, PutLemma

(* A delivery moves from those nobody holds to the handler. *)
LEMMA TakeLemma ==
    ASSUME NEW M, NEW q \in QueueOf(M), q.ready # <<>>, q.current = <<>>
    PROVE  /\ Take(q) \in QueueOf(M)
           /\ Head(q.ready) \in M /\ Head(q.ready) \in Waiting(q)
           /\ Waiting(q) = Waiting(Take(q)) \cup {Head(q.ready)}
           /\ Messages(Take(q)) = Messages(q)
           /\ Take(q).current = <<Head(q.ready)>> /\ Take(q).current # <<>>
<1>1. /\ Head(q.ready) \in M /\ Tail(q.ready) \in Seq(M)
      /\ Range(q.ready) = {Head(q.ready)} \cup Range(Tail(q.ready))
  BY QueueParts, HeadTailRange
<1>2. Take(q) = [ready |-> Tail(q.ready), current |-> <<Head(q.ready)>>,
                 stuck |-> q.stuck]
  BY DEF Take
<1>3. <<Head(q.ready)>> \in Seq(M) /\ Range(<<Head(q.ready)>>) = {Head(q.ready)}
  BY <1>1 DEF Range
<1>4. Take(q) \in QueueOf(M) /\ Take(q).current = <<Head(q.ready)>>
  BY <1>1, <1>2, <1>3, QueueParts DEF QueueOf
<1>5. /\ Range(Take(q).ready) = Range(Tail(q.ready))
      /\ Range(Take(q).stuck) = Range(q.stuck)
      /\ Range(Take(q).current) = {Head(q.ready)}
      /\ Range(q.current) = {}
  BY <1>2, <1>3, EmptyRange
<1>6. <<Head(q.ready)>> # <<>>
  OBVIOUS
<1> QED BY <1>1, <1>4, <1>5, <1>6 DEF Waiting, Messages

(* A settled delivery is gone; the others stay where they are. *)
LEMMA SettleLemma ==
    ASSUME NEW M, NEW q \in QueueOf(M)
    PROVE  /\ Settle(q) \in QueueOf(M)
           /\ Waiting(Settle(q)) = Waiting(q)
           /\ Messages(Settle(q)) = Waiting(q)
           /\ Settle(q).current = <<>>
BY QueueParts, EmptySeq, EmptyRange DEF Settle, QueueOf, Waiting, Messages

(* A requeued or forgotten delivery stays with the broker, as do all of    *)
(* them when the channel is lost.                                          *)
LEMMA ReturnLemma ==
    ASSUME NEW M, NEW q \in QueueOf(M),
           NEW p \in {Requeue(q), Forget(q), ChannelLost(q)}
    PROVE  /\ p \in QueueOf(M)
           /\ Waiting(p) = Messages(q)
           /\ Messages(p) = Messages(q)
           /\ p.current = <<>>
<1> DEFINE rd == q.ready  cu == q.current  st == q.stuck
<1>1. rd \in Seq(M) /\ cu \in Seq(M) /\ st \in Seq(M) /\ <<>> \in Seq(M)
  BY QueueParts, EmptySeq
<1>2. /\ rd \o cu \in Seq(M) /\ Range(rd \o cu) = Range(rd) \cup Range(cu)
      /\ st \o cu \in Seq(M) /\ Range(st \o cu) = Range(st) \cup Range(cu)
  BY <1>1, RangeConcatenation, ConcatProperties
<1>3. /\ (st \o cu) \o rd \in Seq(M)
      /\ Range((st \o cu) \o rd) = Range(st) \cup Range(cu) \cup Range(rd)
  <2> DEFINE sc == st \o cu
  <2>1. sc \in Seq(M) /\ Range(sc) = Range(st) \cup Range(cu)
    BY <1>2
  <2> HIDE DEF sc
  <2>2. sc \o rd \in Seq(M) /\ Range(sc \o rd) = Range(sc) \cup Range(rd)
    BY <1>1, <2>1, RangeConcatenation, ConcatProperties
  <2> QED BY <2>1, <2>2 DEF sc
<1>4. CASE p = Requeue(q)
  <2>1. p = [ready |-> rd \o cu, current |-> <<>>, stuck |-> st]
    BY <1>4 DEF Requeue
  <2> QED BY <2>1, <1>1, <1>2, EmptyRange DEF QueueOf, Waiting, Messages
<1>5. CASE p = Forget(q)
  <2>1. p = [ready |-> rd, current |-> <<>>, stuck |-> st \o cu]
    BY <1>5 DEF Forget
  <2> QED BY <2>1, <1>1, <1>2, EmptyRange DEF QueueOf, Waiting, Messages
<1>6. CASE p = ChannelLost(q)
  <2>1. p = [ready |-> (st \o cu) \o rd, current |-> <<>>, stuck |-> <<>>]
    BY <1>6 DEF ChannelLost, EmptyQueue
  <2> QED BY <2>1, <1>1, <1>3, EmptyRange DEF QueueOf, Waiting, Messages
<1> QED BY <1>4, <1>5, <1>6

(* A delivery that is handed back at once is still with the broker, one    *)
(* that is settled at once is the only message to go.                      *)
LEMMA TakeReturnLemma ==
    ASSUME NEW M, NEW q \in QueueOf(M), q.ready # <<>>, q.current = <<>>,
           NEW p \in {Requeue(Take(q)), Forget(Take(q))}
    PROVE  /\ p \in QueueOf(M)
           /\ Waiting(p) = Waiting(q)
           /\ Messages(p) = Messages(q)
           /\ p.current = <<>>
<1>1. Messages(q) = Waiting(q)
  BY EmptyRange DEF Messages
<1>2. Take(q) \in QueueOf(M) /\ Messages(Take(q)) = Messages(q)
  BY TakeLemma
<1> QED BY <1>1, <1>2, ReturnLemma

(* A delivery rejected for good (Reject(false)) or settled in the step     *)
(* that took it: of the waiting messages only that one goes.               *)
LEMMA TakeSettleLemma ==
    ASSUME NEW M, NEW q \in QueueOf(M), q.ready # <<>>, q.current = <<>>
    PROVE  /\ Settle(Take(q)) \in QueueOf(M)
           /\ Waiting(q) = Waiting(Settle(Take(q))) \cup {Head(q.ready)}
           /\ Messages(Settle(Take(q))) \subseteq Messages(q)
           /\ Settle(Take(q)).current = <<>>
<1>1. /\ Take(q) \in QueueOf(M)
      /\ Waiting(q) = Waiting(Take(q)) \cup {Head(q.ready)}
  BY TakeLemma
<1>2. Waiting(q) \subseteq Messages(q)
  BY DEF Messages
<1> QED BY <1>1, <1>2, SettleLemma

(* The delivery in a handler's hands. *)
LEMMA InHandLemma ==
    ASSUME NEW M, NEW q \in QueueOf(M), q.current # <<>>
    PROVE  q.current[1] \in M /\ q.current[1] \in Messages(q)
<1>1. q.current \in Seq(M) /\ Len(q.current) \in Nat \ {0}
  BY QueueParts, EmptySeq
<1>2. 1 \in 1 .. Len(q.current)
  BY <1>1
<1>3. q.current[1] \in M /\ q.current[1] \in Range(q.current)
  BY <1>1, <1>2, ElementOfSeq, RangeEquality
<1> QED BY <1>3 DEF Messages
=============================================================================
