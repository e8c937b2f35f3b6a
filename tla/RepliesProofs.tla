---------------------------- MODULE RepliesProofs ---------------------------
(***************************************************************************)
(* Theorems about Replies, for any number of calls, addresses, records and *)
(* failures.  Whatever fails: type correctness, and who may be refused its *)
(* queue.  From addresses of their own, also whatever fails: an answer     *)
(* reaches its own call, and a call which succeeds leaves nothing behind.  *)
(* From shared addresses, as long as dbd does not die, and for addresses   *)
(* from which no two calls were under way at once: the same, that such a   *)
(* call got all of its answer, and that Replies implements Rpc.            *)
(***************************************************************************)
EXTENDS Replies, AmqpTheorems

Item(c, k) == IF found[c] = 0 THEN 0 ELSE k
Count(c) == IF found[c] = 0 THEN 1 ELSE found[c]

(* What the goroutines and dbd hold while they hold it. *)
HeldOK ==
    \A c \in Calls : IF consumer[c].pc = "send" THEN Len(consumer[c].held) = 1
                                                ELSE consumer[c].held = <<>>
DbdOK ==
    IF dbd.pc = "idle" THEN requests.current = <<>>
    ELSE /\ Len(requests.current) = 1
         /\ found[Asking] # Unread
         /\ dbd.pc = "reply" => dbd.sent < Count(Asking)

IdleOK == \A c \in Calls : call[c].pc = "idle" => consumer[c].pc = "none"

Typed == TypeOK /\ HeldOK /\ IdleOK /\ DbdOK
-----------------------------------------------------------------------------
(* The parts of the state, one call, goroutine or queue at a time.         *)
LEMMA Parts ==
    ASSUME TypeOK
    PROVE  /\ \A c \in Calls :
                 /\ call[c] \in Method /\ consumer[c] \in Consumer
                 /\ Addr(c) \in Addrs /\ queue[Addr(c)] \in Queue
                 /\ found[c] \in {Unread} \cup 0 .. MaxRecords
                 /\ call[c].got \in Seq(0 .. MaxRecords)
                 /\ consumer[c].held \in Seq(Reply)
                 /\ queue[Addr(c)].ready \in Seq(Reply)
           /\ requests \in QueueOf(Calls)
           /\ MaxRecords \in Nat /\ Unread \notin 0 .. MaxRecords
           /\ NoCall \notin Calls
BY RepliesAssumption DEF TypeOK, Addr, Method, Consumer, Queue, Unread

LEMMA GoToLemma ==
    ASSUME TypeOK, NEW c \in Calls,
           NEW pc \in {"idle", "ask", "receive", "drain", "join"} \cup Returned,
           GoTo(c, pc)
    PROVE  /\ call' \in [Calls -> Method]
           /\ call'[c].pc = pc
           /\ \A d \in Calls \ {c} : call'[d] = call[d]
           /\ \A d \in Calls : /\ call'[d].op = call[d].op
                               /\ call'[d].addr = call[d].addr
                               /\ call'[d].got = call[d].got
BY DEF GoTo, TypeOK, Method

LEMMA ConsumerGoToLemma ==
    ASSUME TypeOK, NEW c \in Calls,
           NEW pc \in {"none", "start", "loop", "send", "signal", "close", "ended",
                       "refused"},
           ConsumerGoTo(c, pc)
    PROVE  /\ consumer' \in [Calls -> Consumer]
           /\ consumer'[c].pc = pc
           /\ \A d \in Calls \ {c} : consumer'[d] = consumer[d]
           /\ \A d \in Calls : consumer'[d].held = consumer[d].held
BY DEF ConsumerGoTo, TypeOK, Consumer

LEMMA FaultLemma ==
    ASSUME TypeOK, NEW f, Fault(f)
    PROVE  f \in Faults /\ faults' \in 0 .. MaxFaults
BY RepliesAssumption DEF TypeOK, Fault

(* One message handed over by the goroutine. *)
LEMMA HandOverLemma ==
    ASSUME Typed, NEW c \in Calls, Meets(c),
           NEW pc \in {"idle", "ask", "receive", "drain", "join"} \cup Returned,
           HandOver(c, pc)
    PROVE  /\ Held(c) \in Reply /\ consumer[c].held = <<Held(c)>>
           /\ call' \in [Calls -> Method] /\ consumer' \in [Calls -> Consumer]
           /\ call'[c].pc = pc
           /\ call'[c].got = Append(call[c].got, Held(c).item)
           /\ consumer'[c] = [pc |-> IF Held(c).stop THEN "signal" ELSE "loop",
                              held |-> <<>>]
           /\ \A d \in Calls \ {c} : call'[d] = call[d] /\ consumer'[d] = consumer[d]
           /\ \A d \in Calls : /\ call'[d].op = call[d].op
                               /\ call'[d].addr = call[d].addr
           /\ UNCHANGED <<queue, requests, dbd, found, crowded>>
<1>1. /\ call \in [Calls -> Method] /\ consumer \in [Calls -> Consumer]
      /\ consumer[c].held \in Seq(Reply) /\ Len(consumer[c].held) = 1
      /\ call[c].got \in Seq(0 .. MaxRecords)
  BY Parts DEF Typed, TypeOK, HeldOK, Meets
<1>2. Held(c) \in Reply /\ consumer[c].held = <<Held(c)>>
  BY <1>1 DEF Held
<1>3. Held(c).item \in 0 .. MaxRecords /\ Held(c).stop \in BOOLEAN
  BY <1>2 DEF Reply
<1>4. Append(call[c].got, Held(c).item) \in Seq(0 .. MaxRecords)
  BY <1>1, <1>3
<1>5. /\ call' = [call EXCEPT ![c].pc = pc, ![c].got = Append(@, Held(c).item)]
      /\ consumer' = [consumer EXCEPT ![c] =
                         [pc |-> IF Held(c).stop THEN "signal" ELSE "loop",
                          held |-> <<>>]]
      /\ UNCHANGED <<queue, requests, dbd, found, crowded>>
  BY DEF HandOver
<1>6. /\ call'[c].pc = pc
      /\ call'[c].got = Append(call[c].got, Held(c).item)
      /\ call'[c].op = call[c].op /\ call'[c].addr = call[c].addr
      /\ call'[c] \in Method
  BY <1>1, <1>4, <1>5 DEF Method
<1>7. \A d \in Calls \ {c} : call'[d] = call[d] /\ consumer'[d] = consumer[d]
  BY <1>1, <1>5
<1>8. call' \in [Calls -> Method]
  BY <1>1, <1>5, <1>6, <1>7
<1>9. /\ consumer'[c] = [pc |-> IF Held(c).stop THEN "signal" ELSE "loop",
                         held |-> <<>>]
      /\ consumer' \in [Calls -> Consumer]
  BY <1>1, <1>5, EmptySeq DEF Consumer
<1> QED BY <1>2, <1>5, <1>6, <1>7, <1>8, <1>9

(* A delivery taken from the reply queue. *)
LEMMA DeliverLemma ==
    ASSUME Typed, NEW c \in Calls, Deliver(c)
    PROVE  /\ queue' \in [Addrs -> Queue] /\ consumer' \in [Calls -> Consumer]
           /\ queue[Addr(c)].ready # <<>>
           /\ Head(queue[Addr(c)].ready) \in Reply
           /\ consumer'[c] = [pc |-> "send",
                              held |-> <<Head(queue[Addr(c)].ready)>>]
           /\ \A d \in Calls \ {c} : consumer'[d] = consumer[d]
           /\ queue'[Addr(c)].ready = Tail(queue[Addr(c)].ready)
           /\ \A a \in Addrs : /\ queue'[a].owner = queue[a].owner
                               /\ queue'[a].declared = queue[a].declared
                               /\ a # Addr(c) => queue'[a] = queue[a]
<1>1. /\ queue \in [Addrs -> Queue] /\ consumer \in [Calls -> Consumer]
      /\ Addr(c) \in Addrs /\ queue[Addr(c)].ready \in Seq(Reply)
      /\ queue[Addr(c)].ready # <<>>
  BY Parts DEF Typed, TypeOK, Deliver
<1>2. /\ Head(queue[Addr(c)].ready) \in Reply
      /\ Tail(queue[Addr(c)].ready) \in Seq(Reply)
      /\ <<Head(queue[Addr(c)].ready)>> \in Seq(Reply)
  BY <1>1, HeadTailProperties
<1>3. /\ consumer' = [consumer EXCEPT ![c] =
                       [pc |-> "send", held |-> <<Head(queue[Addr(c)].ready)>>]]
      /\ queue' = [queue EXCEPT ![Addr(c)].ready = Tail(@)]
  BY DEF Deliver
<1>4. /\ queue' \in [Addrs -> Queue]
      /\ queue'[Addr(c)].ready = Tail(queue[Addr(c)].ready)
      /\ \A a \in Addrs : /\ queue'[a].owner = queue[a].owner
                          /\ queue'[a].declared = queue[a].declared
                          /\ a # Addr(c) => queue'[a] = queue[a]
  BY <1>1, <1>2, <1>3 DEF Queue
<1>5. /\ consumer' \in [Calls -> Consumer]
      /\ consumer'[c] = [pc |-> "send",
                         held |-> <<Head(queue[Addr(c)].ready)>>]
      /\ \A d \in Calls \ {c} : consumer'[d] = consumer[d]
  BY <1>1, <1>2, <1>3 DEF Consumer
<1> QED BY <1>1, <1>2, <1>4, <1>5

(* The request dbd is answering, and its next answer. *)
LEMMA AskingLemma ==
    ASSUME Typed, dbd.pc # "idle"
    PROVE  /\ Asking \in Calls /\ requests.current = <<Asking>>
           /\ found[Asking] \in 0 .. MaxRecords /\ Count(Asking) \in Nat \ {0}
<1>1. requests.current \in Seq(Calls) /\ Len(requests.current) = 1
  BY QueueParts DEF Typed, TypeOK, DbdOK
<1>2. Asking \in Calls /\ requests.current = <<Asking>>
  BY <1>1 DEF Asking
<1>3. found[Asking] \in 0 .. MaxRecords
  BY <1>2, Parts DEF Typed, DbdOK
<1> QED BY <1>2, <1>3, Parts DEF Typed, Count

Next1 == dbd.sent + 1
Answer == [call |-> Asking, item |-> Item(Asking, Next1),
           stop |-> Next1 = Count(Asking)]

LEMMA SendReplyLemma ==
    ASSUME Typed, SendReply
    PROVE  /\ Answer \in Reply
           /\ queue' \in [Addrs -> Queue]
           /\ dbd' \in Dbd
           /\ IF Next1 = Count(Asking) THEN dbd'.pc = "ack"
              ELSE dbd'.pc = "reply" /\ dbd'.sent = Next1 /\ Next1 < Count(Asking)
           /\ \A a \in Addrs :
                 /\ queue'[a].owner = queue[a].owner
                 /\ queue'[a].declared = queue[a].declared
                 /\ queue'[a].ready =
                       IF a = Addr(Asking) /\ queue[a].declared
                       THEN Append(queue[a].ready, Answer) ELSE queue[a].ready
                 /\ a # Addr(Asking) => queue'[a] = queue[a]
                 /\ ~queue[a].declared => queue'[a] = queue[a]
           /\ UNCHANGED <<call, consumer, requests, found, faults, crowded>>
<1> DEFINE n == found[Asking]
           i == IF n = 0 THEN 0 ELSE dbd.sent + 1
<1>1. /\ Asking \in Calls /\ n \in 0 .. MaxRecords /\ dbd.sent \in 0 .. MaxRecords
      /\ dbd.sent < Count(Asking) /\ Addr(Asking) \in Addrs
      /\ MaxRecords \in Nat /\ queue \in [Addrs -> Queue]
  BY AskingLemma, Parts DEF SendReply, Typed, TypeOK, DbdOK, Dbd
<1>2. /\ i \in 0 .. MaxRecords /\ Item(Asking, Next1) = i
      /\ (i = n) <=> (Next1 = Count(Asking))
      /\ i = n \/ (i = Next1 /\ Next1 < Count(Asking))
  BY <1>1 DEF Item, Count, Next1
<1>3. Answer \in Reply /\ Answer = [call |-> Asking, item |-> i, stop |-> i = n]
  BY <1>1, <1>2 DEF Answer, Reply
<1>4. /\ dbd' = [pc |-> IF i = n THEN "ack" ELSE "reply", sent |-> i]
      /\ UNCHANGED <<call, consumer, requests, found, faults, crowded>>
      /\ IF queue[Addr(Asking)].declared
         THEN queue' = [queue EXCEPT ![Addr(Asking)].ready = Append(@, Answer)]
         ELSE UNCHANGED queue
  BY <1>3 DEF SendReply, Route
<1>5. /\ dbd' \in Dbd
      /\ IF Next1 = Count(Asking) THEN dbd'.pc = "ack"
         ELSE dbd'.pc = "reply" /\ dbd'.sent = Next1 /\ Next1 < Count(Asking)
  BY <1>2, <1>4 DEF Dbd
<1>6. Append(queue[Addr(Asking)].ready, Answer) \in Seq(Reply)
  BY <1>1, <1>3, AppendRange DEF Queue
<1> HIDE DEF i, n
<1>7. /\ queue' \in [Addrs -> Queue]
      /\ \A a \in Addrs :
            /\ queue'[a].owner = queue[a].owner
            /\ queue'[a].declared = queue[a].declared
            /\ queue'[a].ready =
                  IF a = Addr(Asking) /\ queue[a].declared
                  THEN Append(queue[a].ready, Answer) ELSE queue[a].ready
            /\ a # Addr(Asking) => queue'[a] = queue[a]
            /\ ~queue[a].declared => queue'[a] = queue[a]
  <2>1. CASE queue[Addr(Asking)].declared
    <3>1. queue' = [queue EXCEPT ![Addr(Asking)].ready =
                                    Append(queue[Addr(Asking)].ready, Answer)]
      BY <1>4, <2>1
    <3> QED BY <1>1, <1>6, <2>1, <3>1 DEF Queue
  <2>2. CASE ~queue[Addr(Asking)].declared
    <3>1. UNCHANGED queue
      BY <1>4, <2>2
    <3> QED BY <1>1, <2>2, <3>1
  <2> QED BY <2>1, <2>2
<1> QED BY <1>3, <1>4, <1>5, <1>7
-----------------------------------------------------------------------------
LEMMA InitTyped == Init => Typed
<1> SUFFICES ASSUME Init PROVE Typed
  OBVIOUS
<1>1. call \in [Calls -> Method]
  <2>1. <<>> \in Seq(0 .. MaxRecords)
    OBVIOUS
  <2>2. call \in [Calls -> {[op |-> op, addr |-> a, got |-> <<>>, pc |-> "idle"] :
                                op \in Methods, a \in Addrs}]
    BY DEF Init
  <2>3. ASSUME NEW op \in Methods, NEW a \in Addrs
        PROVE  [op |-> op, addr |-> a, got |-> <<>>, pc |-> "idle"] \in Method
    BY <2>1 DEF Method
  <2> QED BY <2>2, <2>3
<1>2. consumer \in [Calls -> Consumer] /\ HeldOK /\ IdleOK
  BY EmptySeq DEF Init, Consumer, NoConsumer, HeldOK, IdleOK
<1>3. queue \in [Addrs -> Queue]
  BY EmptySeq DEF Init, Queue, NoQueue
<1>4. requests \in QueueOf(Calls) /\ requests.current = <<>>
  BY EmptyQueueLemma DEF Init
<1>5. dbd \in Dbd /\ dbd.pc = "idle" /\ faults \in 0 .. MaxFaults /\ crowded = {}
      /\ found \in [Calls -> {Unread} \cup 0 .. MaxRecords]
  BY RepliesAssumption DEF Init, Dbd, DbdIdle
<1> QED BY <1>1, <1>2, <1>3, <1>4, <1>5 DEF Typed, TypeOK, DbdOK

(* A call has its goroutine once it has begun, and never begins again. *)
LEMMA IdleStep ==
    ASSUME Typed, [Next]_vars
    PROVE  IdleOK'
<1>1. ASSUME NEW c \in Calls, NEW d \in Calls, Handler(c), call'[d].pc = "idle"
      PROVE  consumer'[d].pc = "none"
  <2>1. PICK pc \in {"ask", "receive"} \cup Returned : GoTo(c, pc)
    BY <1>1 DEF Handler, Setup, SetupFails, Ask, AskFails, Return, Returned
  <2>2. d # c /\ call'[d] = call[d]
    BY <1>1, <2>1, GoToLemma DEF Typed, Returned
  <2>3. consumer'[d] = consumer[d]
    BY <1>1, <2>2, ConsumerGoToLemma DEF Handler, Setup, SetupFails, Ask, AskFails, Return, Typed
  <2> QED BY <1>1, <2>2, <2>3 DEF Typed, IdleOK
<1>2. ASSUME NEW c \in Calls, NEW d \in Calls, Goroutine(c), call'[d].pc = "idle"
      PROVE  consumer'[d].pc = "none"
  <2>1. call[d].pc = "idle" /\ (d # c \/ consumer[c].pc # "none")
    <3>1. CASE ReceiveOne(c) \/ ReceiveMany(c) \/ SendFails(c)
      <4>1. PICK pc \in {"receive", "drain", "denied", "failed"} :
               Meets(c) /\ HandOver(c, pc)
        BY <3>1 DEF ReceiveOne, ReceiveMany, SendFails
      <4>2. d # c /\ call'[d] = call[d]
        BY <1>2, <4>1, HandOverLemma DEF Returned
      <4> QED BY <1>2, <4>2
    <3>2. CASE Signal(c)
      <4>1. d # c /\ call'[d] = call[d]
        BY <1>2, <3>2, GoToLemma DEF Signal, Typed
      <4> QED BY <1>2, <4>1
    <3>3. CASE Attach(c) \/ Deliver(c) \/ Close(c)
      BY <1>2, <3>3 DEF Attach, Deliver, Close
    <3> QED BY <1>2, <3>1, <3>2, <3>3 DEF Goroutine
  <2>2. d # c
    BY <1>2, <2>1 DEF Typed, IdleOK, Goroutine, Attach, Deliver, ReceiveOne,
                      ReceiveMany, SendFails, Meets, Signal, Close
  <2>3. consumer'[d] = consumer[d]
    BY <1>2, <2>2 DEF Goroutine, Attach, Deliver, ReceiveOne, ReceiveMany,
                      SendFails, HandOver, Signal, Close, ConsumerGoTo, Typed, TypeOK
  <2> QED BY <2>1, <2>3 DEF Typed, IdleOK
<1>3. CASE DbdNext \/ UNCHANGED vars
  <2>1. UNCHANGED <<call, consumer>>
    BY <1>3 DEF DbdNext, Query, QueryFails, SendReply, SendReplyFails, Finish,
                DbdCrash, vars
  <2> QED BY <2>1 DEF Typed, IdleOK
<1> QED BY <1>1, <1>2, <1>3 DEF Next, IdleOK

LEMMA HandlerTyped ==
    ASSUME Typed, NEW c \in Calls, Handler(c)
    PROVE  TypeOK' /\ HeldOK' /\ DbdOK'
<1>0. Addr(c) \in Addrs /\ queue \in [Addrs -> Queue] /\ requests \in QueueOf(Calls)
  BY Parts DEF Typed, TypeOK
<1>1. CASE Setup(c)
  <2>1. queue' \in [Addrs -> Queue]
    BY <1>0, <1>1 DEF Setup, Queue
  <2>2. /\ call' \in [Calls -> Method] /\ consumer' \in [Calls -> Consumer]
        /\ consumer'[c].pc = "start"
        /\ \A d \in Calls \ {c} : consumer'[d] = consumer[d]
        /\ consumer'[c].held = consumer[c].held
    BY <1>1, GoToLemma, ConsumerGoToLemma DEF Setup, Typed
  <2>3. HeldOK'
    <3>1. consumer[c].held = <<>>
      BY <1>1 DEF Setup, Typed, IdleOK, HeldOK
    <3> QED BY <2>2, <3>1 DEF Typed, HeldOK
  <2>4. crowded' \subseteq Addrs
    BY <1>0, <1>1 DEF Setup, Typed, TypeOK
  <2> QED BY <1>1, <2>1, <2>2, <2>3, <2>4
          DEF Setup, Typed, TypeOK, DbdOK, Asking, Count
<1>2. CASE Ask(c)
  <2>1. /\ requests' \in QueueOf(Calls) /\ requests'.current = requests.current
    BY <1>0, <1>2, PutLemma DEF Ask
  <2>2. call' \in [Calls -> Method]
    BY <1>2, GoToLemma DEF Ask, Typed
  <2>3. HeldOK' /\ DbdOK'
    BY <1>2, <2>1 DEF Ask, Typed, HeldOK, DbdOK, Asking, Count
  <2> QED BY <1>2, <2>1, <2>2, <2>3 DEF Ask, Typed, TypeOK
<1>3. CASE AskFails(c)
  <2>1. call' \in [Calls -> Method] /\ faults' \in 0 .. MaxFaults
    BY <1>3, GoToLemma, FaultLemma DEF AskFails, Typed, Returned
  <2> QED BY <1>3, <2>1 DEF AskFails, Typed, TypeOK, HeldOK, DbdOK, Asking, Count
<1>4. CASE Return(c)
  <2>1. call' \in [Calls -> Method]
    BY <1>4, GoToLemma DEF Return, Typed, Returned
  <2> QED BY <1>4, <2>1 DEF Return, Typed, TypeOK, HeldOK, DbdOK, Asking, Count
<1>5. CASE SetupFails(c)
  <2>1. call' \in [Calls -> Method] /\ faults' \in 0 .. MaxFaults
    BY <1>5, GoToLemma, FaultLemma DEF SetupFails, Typed, Returned
  <2> QED BY <1>5, <2>1 DEF SetupFails, Typed, TypeOK, HeldOK, DbdOK, Asking, Count
<1> QED BY <1>1, <1>2, <1>3, <1>4, <1>5 DEF Handler

LEMMA GoroutineTyped ==
    ASSUME Typed, NEW c \in Calls, Goroutine(c)
    PROVE  TypeOK' /\ HeldOK' /\ DbdOK'
<1>0. Addr(c) \in Addrs /\ queue \in [Addrs -> Queue] /\ consumer[c] \in Consumer
  BY Parts DEF Typed, TypeOK
<1>1. CASE Attach(c)
  <2>1. queue' \in [Addrs -> Queue]
    <3>1. \/ UNCHANGED queue
          \/ queue' = [queue EXCEPT ![Addr(c)].owner = c]
      BY <1>1 DEF Attach
    <3> QED BY <1>0, <3>1 DEF Queue
  <2>2. PICK pc \in {"loop", "refused"} : ConsumerGoTo(c, pc)
    BY <1>1 DEF Attach
  <2>3. /\ consumer' \in [Calls -> Consumer]
        /\ consumer'[c].pc = pc /\ consumer'[c].held = consumer[c].held
        /\ \A d \in Calls \ {c} : consumer'[d] = consumer[d]
    BY <2>2, ConsumerGoToLemma DEF Typed
  <2>4. HeldOK'
    BY <1>1, <2>3 DEF Attach, Typed, HeldOK
  <2> QED BY <1>1, <2>1, <2>3, <2>4 DEF Attach, Typed, TypeOK, DbdOK, Asking, Count
<1>2. CASE Deliver(c)
  <2>1. /\ queue' \in [Addrs -> Queue] /\ consumer' \in [Calls -> Consumer]
        /\ consumer'[c].pc = "send" /\ Len(consumer'[c].held) = 1
        /\ \A d \in Calls \ {c} : consumer'[d] = consumer[d]
    <3>1. consumer'[c] = [pc |-> "send",
                          held |-> <<Head(queue[Addr(c)].ready)>>]
      BY <1>2, DeliverLemma
    <3>2. consumer'[c].pc = "send" /\ Len(consumer'[c].held) = 1
      BY <3>1
    <3> QED BY <1>2, <3>2, DeliverLemma
  <2>2. HeldOK'
    BY <2>1 DEF Typed, HeldOK
  <2> QED BY <1>2, <2>1, <2>2 DEF Deliver, Typed, TypeOK, DbdOK, Asking, Count
<1>3. CASE ReceiveOne(c) \/ ReceiveMany(c) \/ SendFails(c)
  <2>1. PICK pc \in {"receive", "drain", "denied", "failed"} :
           Meets(c) /\ HandOver(c, pc)
    BY <1>3 DEF ReceiveOne, ReceiveMany, SendFails
  <2>2. /\ call' \in [Calls -> Method] /\ consumer' \in [Calls -> Consumer]
        /\ consumer'[c] = [pc |-> IF Held(c).stop THEN "signal" ELSE "loop",
                           held |-> <<>>]
        /\ \A d \in Calls \ {c} : consumer'[d] = consumer[d]
        /\ UNCHANGED <<queue, requests, dbd, found, crowded>>
    BY <2>1, HandOverLemma DEF Returned
  <2>3. faults' \in 0 .. MaxFaults
    BY <1>3, FaultLemma DEF ReceiveOne, ReceiveMany, SendFails, Typed, TypeOK
  <2>4. HeldOK'
    BY <2>2 DEF Typed, HeldOK
  <2> QED BY <2>2, <2>3, <2>4 DEF Typed, TypeOK, DbdOK, Asking, Count
<1>4. CASE Signal(c)
  <2>1. /\ call' \in [Calls -> Method] /\ consumer' \in [Calls -> Consumer]
        /\ consumer'[c].pc = "close" /\ consumer'[c].held = consumer[c].held
        /\ \A d \in Calls \ {c} : consumer'[d] = consumer[d]
    BY <1>4, GoToLemma, ConsumerGoToLemma DEF Signal, Typed
  <2>2. HeldOK'
    BY <1>4, <2>1 DEF Signal, Typed, HeldOK
  <2> QED BY <1>4, <2>1, <2>2 DEF Signal, Typed, TypeOK, DbdOK, Asking, Count
<1>5. CASE Close(c)
  <2>1. /\ consumer' \in [Calls -> Consumer]
        /\ consumer'[c].pc = "ended" /\ consumer'[c].held = consumer[c].held
        /\ \A d \in Calls \ {c} : consumer'[d] = consumer[d]
    BY <1>5, ConsumerGoToLemma DEF Close, Typed
  <2>2. queue' \in [Addrs -> Queue]
    BY <1>0, <1>5, EmptySeq DEF Close, NoQueue, Queue
  <2>3. HeldOK'
    BY <1>5, <2>1 DEF Close, Typed, HeldOK
  <2> QED BY <1>5, <2>1, <2>2, <2>3 DEF Close, Typed, TypeOK, DbdOK, Asking, Count
<1> QED BY <1>1, <1>2, <1>3, <1>4, <1>5 DEF Goroutine

(* A request dbd takes, and what it finds. *)
LEMMA QueryLemma ==
    ASSUME Typed, Query
    PROVE  \E c \in Calls : \E n \in 0 .. MaxRecords :
              /\ c = Head(requests.ready) /\ requests.ready # <<>>
              /\ n <= Limit(c)
              /\ found' = [found EXCEPT ![c] = n]
              /\ requests' \in QueueOf(Calls)
              /\ requests'.ready = Tail(requests.ready)
              /\ requests'.current = <<c>>
              /\ dbd' = [pc |-> "reply", sent |-> 0]
              /\ UNCHANGED <<call, consumer, queue, faults, crowded>>
<1>1. /\ requests \in QueueOf(Calls) /\ requests.ready # <<>>
      /\ requests.current = <<>> /\ requests' = Take(requests)
  BY DEF Query, Typed, TypeOK, DbdOK
<1>2. Head(requests.ready) \in Calls /\ requests' \in QueueOf(Calls)
  BY <1>1, TakeLemma
<1>3. /\ requests'.ready = Tail(requests.ready)
      /\ requests'.current = <<Head(requests.ready)>>
  BY <1>1 DEF Take
<1> QED BY <1>1, <1>2, <1>3 DEF Query

(* What happens to the queue of dbd besides: nothing new gets ready unless *)
(* dbd dies.                                                               *)
LEMMA RequestsLemma ==
    ASSUME Typed, QueryFails \/ SendReplyFails \/ Finish
    PROVE  /\ requests' \in QueueOf(Calls) /\ requests'.current = <<>>
           /\ dbd' \in Dbd /\ dbd'.pc = "idle"
           /\ IF QueryFails
              THEN /\ requests.ready # <<>>
                   /\ requests'.ready = Tail(requests.ready)
              ELSE requests'.ready = requests.ready
           /\ UNCHANGED <<call, consumer, queue, found, crowded>>
<1>1. requests \in QueueOf(Calls)
  BY DEF Typed, TypeOK
<1>2. CASE QueryFails
  <2>1. /\ requests.ready # <<>> /\ requests.current = <<>>
        /\ requests' = Settle(Take(requests))
    BY <1>2 DEF QueryFails, Typed, DbdOK
  <2>2. /\ requests' \in QueueOf(Calls)
        /\ requests'.current = <<>>
    BY <1>1, <2>1, TakeSettleLemma
  <2>3. requests'.ready = Tail(requests.ready)
    BY <2>1 DEF Settle, Take
  <2> QED BY <1>2, <2>1, <2>2, <2>3 DEF QueryFails, Typed, TypeOK
<1>3. CASE ~QueryFails /\ (SendReplyFails \/ Finish)
  <2>1. requests' = Settle(requests) \/ requests' = Forget(requests)
    BY <1>3 DEF SendReplyFails, Finish
  <2>2. requests' \in QueueOf(Calls) /\ requests'.current = <<>>
    BY <1>1, <2>1, SettleLemma, ReturnLemma
  <2>3. requests'.ready = requests.ready
    <3>1. Settle(requests).ready = requests.ready
          /\ Forget(requests).ready = requests.ready
      BY DEF Settle, Forget
    <3> QED BY <2>1, <3>1
  <2>4. dbd' \in Dbd /\ dbd'.pc = "idle"
    BY <1>3, RepliesAssumption DEF SendReplyFails, Finish, DbdIdle, Dbd
  <2> QED BY <1>3, <2>2, <2>3, <2>4 DEF SendReplyFails, Finish
<1> QED BY <1>2, <1>3

LEMMA DbdTyped ==
    ASSUME Typed, DbdNext
    PROVE  TypeOK' /\ HeldOK' /\ DbdOK'
<1>1. CASE Query
  <2>1. PICK c \in Calls, n \in 0 .. MaxRecords :
              /\ found' = [found EXCEPT ![c] = n]
              /\ requests' \in QueueOf(Calls)
              /\ requests'.current = <<c>>
              /\ dbd' = [pc |-> "reply", sent |-> 0]
              /\ UNCHANGED <<call, consumer, queue, faults, crowded>>
    BY <1>1, QueryLemma
  <2>2. /\ found' \in [Calls -> {Unread} \cup 0 .. MaxRecords] /\ found'[c] = n
        /\ dbd' \in Dbd
    BY <2>1, RepliesAssumption DEF Typed, TypeOK, Dbd
  <2>3. DbdOK'
    BY <2>1, <2>2, Parts DEF DbdOK, Asking, Count, Typed
  <2> QED BY <2>1, <2>2, <2>3 DEF Typed, TypeOK, HeldOK
<1>2. CASE QueryFails \/ SendReplyFails \/ Finish
  <2>1. faults' \in 0 .. MaxFaults
    BY <1>2, FaultLemma DEF QueryFails, SendReplyFails, Finish, Typed, TypeOK
  <2> QED BY <1>2, <2>1, RequestsLemma DEF Typed, TypeOK, HeldOK, DbdOK
<1>3. CASE SendReply
  <2>1. DbdOK'
    BY <1>3, SendReplyLemma, AskingLemma DEF DbdOK, Asking, Count, SendReply, Typed
  <2> QED BY <1>3, <2>1, SendReplyLemma DEF Typed, TypeOK, HeldOK
<1>4. CASE DbdCrash
  <2>1. requests' \in QueueOf(Calls) /\ requests'.current = <<>>
    BY <1>4, ReturnLemma DEF DbdCrash, Typed, TypeOK
  <2>2. faults' \in 0 .. MaxFaults
    BY <1>4, FaultLemma DEF DbdCrash, Typed
  <2>3. dbd' \in Dbd /\ dbd'.pc = "idle"
    BY <1>4, RepliesAssumption DEF DbdCrash, DbdIdle, Dbd
  <2> QED BY <1>4, <2>1, <2>2, <2>3 DEF DbdCrash, Typed, TypeOK, HeldOK, DbdOK
<1> QED BY <1>1, <1>2, <1>3, <1>4 DEF DbdNext

THEOREM AlwaysTyped == Spec => []Typed
<1>1. Typed /\ [Next]_vars => Typed'
  <2>1. ASSUME Typed, UNCHANGED vars PROVE TypeOK' /\ HeldOK' /\ DbdOK'
    BY <2>1 DEF vars, Typed, TypeOK, HeldOK, DbdOK, Asking, Count
  <2> QED BY <2>1, HandlerTyped, GoroutineTyped, DbdTyped, IdleStep DEF Next, Typed
<1> QED BY <1>1, InitTyped, PTL DEF Spec

(* Methods, goroutines, reply queues and dbd keep to their states, however *)
(* many calls share an address and whatever fails, dbd's death included.   *)
THEOREM RepliesTypeCorrect == Spec => []TypeOK
<1>1. Typed => TypeOK
  BY DEF Typed
<1> QED BY <1>1, AlwaysTyped, PTL
-----------------------------------------------------------------------------
(* Whatever fails, dbd included: at most one call of an address that was   *)
(* never crowded is being answered, ...                                    *)
Over(c) == call[c].pc \in Returned
Attached(c) == consumer[c].pc \in {"loop", "send", "signal", "close"}

Alone ==
    \A c, d \in Calls :
        Active(c) /\ Active(d) /\ Addr(c) = Addr(d) /\ Quiet(c) => c = d

(* ... the method and the goroutine of a call end together, with an        *)
(* answer, ...                                                             *)
JoinsAt(c) ==
    /\ call[c].pc = "join" => consumer[c].pc \in {"close", "ended"}
    /\ call[c].pc = "ok" => consumer[c].pc = "ended"
    /\ consumer[c].pc = "close" => call[c].pc = "join"
    /\ consumer[c].pc \in {"signal", "close", "ended"} => call[c].got # <<>>

Joins == \A c \in Calls : JoinsAt(c)

(* ... a goroutine owns the queue, or finds it declared if its address was *)
(* never crowded, ...                                                      *)
OwnedQueue ==
    /\ \A c \in Calls : Attached(c) <=> queue[Addr(c)].owner = c
    /\ \A a \in Addrs : ~queue[a].declared => queue[a] = NoQueue
    /\ \A c \in Calls :
          Active(c) /\ Quiet(c) /\ consumer[c].pc = "start" =>
              queue[Addr(c)].declared

(* ... and messages are routed to it only by the address.                  *)
Routed == \A a \in Addrs : \A m \in Range(queue[a].ready) : Addr(m.call) = a

Steady == Alone /\ Joins /\ OwnedQueue /\ Routed

(* Where calls and their requests lie. *)
LEMMA Places ==
    ASSUME Typed
    PROVE  /\ \A c \in Calls : Addr(c) \in Addrs
           /\ \A c \in Range(requests.ready) : c \in Calls
           /\ \A a \in Addrs : /\ queue[a].ready \in Seq(Reply)
                               /\ Range(queue[a].ready) \subseteq Reply
           /\ \A m \in Reply : m.call \in Calls
<1>1. /\ \A c \in Calls : Addr(c) \in Addrs
      /\ \A c \in Range(requests.ready) : c \in Calls
  BY Parts, QueueParts, RangeOfSeq DEF Typed
<1>2. \A a \in Addrs : queue[a].ready \in Seq(Reply)
  BY DEF Typed, TypeOK, Queue
<1>3. \A a \in Addrs : Range(queue[a].ready) \subseteq Reply
  BY <1>2, RangeOfSeq
<1> QED BY <1>1, <1>2, <1>3 DEF Reply

LEMMA InitSteady == Init => Steady
<1> SUFFICES ASSUME Init PROVE Steady
  OBVIOUS
<1>1. /\ \A c \in Calls : call[c].pc = "idle" /\ consumer[c].pc = "none"
      /\ \A c \in Calls : Addr(c) \in Addrs
      /\ \A a \in Addrs : queue[a] = NoQueue
  BY DEF Init, NoConsumer, Addr
<1>2. NoQueue.ready = <<>> /\ NoQueue.owner = NoCall /\ Range(<<>>) = {}
  BY EmptyRange DEF NoQueue
<1>3. Alone /\ Joins
  BY <1>1 DEF Alone, Active, Joins, JoinsAt
<1>4. OwnedQueue /\ Routed
  BY <1>1, <1>2, RepliesAssumption DEF OwnedQueue, Attached, Active, Routed
<1> QED BY <1>3, <1>4 DEF Steady

(* A step of one call and its goroutine that leaves all queues alone.      *)
LEMMA LocalSteady ==
    ASSUME Typed, Steady, NEW c \in Calls,
           \A d \in Calls \ {c} : call'[d] = call[d] /\ consumer'[d] = consumer[d],
           call'[c].addr = call[c].addr, UNCHANGED <<queue, crowded>>,
           Active(c)' => Active(c), JoinsAt(c)', Attached(c)' <=> Attached(c),
           consumer'[c].pc # "start" \/ ~Active(c)' \/ UNCHANGED consumer
    PROVE  Steady'
<1>0. \A d \in Calls : Addr(d)' = Addr(d) /\ Quiet(d)' = Quiet(d)
  BY DEF Addr, Quiet
<1>1. Alone'
  BY <1>0 DEF Steady, Alone, Active
<1>2. Joins'
  BY DEF Steady, Joins, JoinsAt
<1>3. OwnedQueue'
  <2>1. ASSUME NEW d \in Calls PROVE (Attached(d) <=> queue[Addr(d)].owner = d)'
    BY <1>0 DEF Steady, OwnedQueue, Attached
  <2>2. ASSUME NEW d \in Calls, Active(d)', Quiet(d)', consumer'[d].pc = "start"
        PROVE  queue'[Addr(d)'].declared
    <3>1. Active(d) /\ Quiet(d) /\ consumer[d].pc = "start"
      BY <1>0, <2>2 DEF Active
    <3> QED BY <1>0, <3>1 DEF Steady, OwnedQueue
  <2> QED BY <2>1, <2>2 DEF Steady, OwnedQueue
<1>4. Routed'
  <2>1. \A m \in Reply : Addr(m.call)' = Addr(m.call)
    BY <1>0 DEF Reply
  <2> QED BY <2>1, Places DEF Steady, Routed
<1> QED BY <1>1, <1>2, <1>3, <1>4 DEF Steady

LEMMA MethodSteady ==
    ASSUME Typed, Steady, NEW c \in Calls,
           SetupFails(c) \/ Ask(c) \/ AskFails(c) \/ Return(c)
    PROVE  Steady'
<1>1. PICK pc \in {"receive", "failed", "ok", "denied"} :
         /\ GoTo(c, pc)
         /\ pc = "receive" => call[c].pc = "ask"
         /\ pc \in {"ok", "denied"} => consumer[c].pc = "ended"
         /\ consumer[c].pc # "close"
  BY DEF SetupFails, Ask, AskFails, Return, Steady, Joins, JoinsAt
<1>2. /\ call'[c].pc = pc /\ call'[c].addr = call[c].addr
      /\ call'[c].got = call[c].got
      /\ \A d \in Calls \ {c} : call'[d] = call[d]
      /\ UNCHANGED <<consumer, queue, crowded>>
  BY <1>1, GoToLemma DEF SetupFails, Ask, AskFails, Return, Typed, Returned
<1>3. JoinsAt(c)'
  BY <1>1, <1>2 DEF Steady, Joins, JoinsAt
<1> QED BY <1>1, <1>2, <1>3, LocalSteady DEF Active, Attached

LEMMA MeetingSteady ==
    ASSUME Typed, Steady, NEW c \in Calls,
           ReceiveOne(c) \/ ReceiveMany(c) \/ SendFails(c) \/ Signal(c)
    PROVE  Steady'
<1>1. CASE Signal(c)
  <2>1. /\ call[c].pc \in {"receive", "drain"} /\ call'[c].pc = "join"
        /\ consumer[c].pc = "signal" /\ consumer'[c].pc = "close"
        /\ \A d \in Calls \ {c} : call'[d] = call[d] /\ consumer'[d] = consumer[d]
        /\ call'[c].addr = call[c].addr /\ call'[c].got = call[c].got
        /\ UNCHANGED <<queue, crowded>>
    BY <1>1, GoToLemma, ConsumerGoToLemma DEF Signal, Typed
  <2>2. JoinsAt(c)'
    BY <2>1 DEF Steady, Joins, JoinsAt
  <2> QED BY <2>1, <2>2, LocalSteady DEF Active, Attached
<1>2. CASE ~Signal(c)
  <2>1. PICK pc \in {"receive", "drain", "denied", "failed"} :
           Meets(c) /\ HandOver(c, pc)
    BY <1>2 DEF ReceiveOne, ReceiveMany, SendFails
  <2>2. /\ call'[c].pc = pc /\ call'[c].addr = call[c].addr
        /\ consumer'[c] = [pc |-> IF Held(c).stop THEN "signal" ELSE "loop",
                           held |-> <<>>]
        /\ \A d \in Calls \ {c} : call'[d] = call[d] /\ consumer'[d] = consumer[d]
        /\ UNCHANGED <<queue, crowded>>
    BY <2>1, HandOverLemma DEF Returned
  <2>3. /\ call[c].pc = "receive" /\ consumer[c].pc = "send"
        /\ consumer'[c].pc \in {"signal", "loop"}
    BY <2>1, <2>2 DEF Meets
  <2>4. call'[c].got # <<>>
    <3>1. /\ call'[c].got = Append(call[c].got, Held(c).item)
          /\ Held(c) \in Reply
      BY <2>1, HandOverLemma DEF Returned
    <3>2. call[c].got \in Seq(0 .. MaxRecords) /\ Held(c).item \in 0 .. MaxRecords
      BY <3>1, Parts DEF Typed, Reply
    <3>3. Len(call'[c].got) = Len(call[c].got) + 1 /\ Len(call[c].got) \in Nat
      BY <3>1, <3>2, AppendProperties, LenProperties
    <3> QED BY <3>3, EmptySeq
  <2>5. JoinsAt(c)'
    BY <2>2, <2>3, <2>4 DEF JoinsAt
  <2> QED BY <2>2, <2>3, <2>5, LocalSteady DEF Active, Attached
<1> QED BY <1>1, <1>2

LEMMA SetupSteady ==
    ASSUME Typed, Steady, NEW c \in Calls, Setup(c)
    PROVE  Steady'
<1>1. /\ call[c].pc = "idle" /\ call'[c].pc = "ask"
      /\ consumer[c].pc = "none" /\ consumer'[c].pc = "start"
      /\ \A d \in Calls \ {c} : call'[d] = call[d] /\ consumer'[d] = consumer[d]
      /\ \A d \in Calls : Addr(d)' = Addr(d) /\ Addr(d) \in Addrs
  BY GoToLemma, ConsumerGoToLemma, Places DEF Setup, Typed, IdleOK, Addr
<1>2. /\ \A d \in Calls : Quiet(d)' => Quiet(d)
      /\ Quiet(c)' => \A d \in Calls : Addr(d) = Addr(c) => ~Active(d)
  BY <1>1 DEF Setup, Quiet
<1>3. \A a \in Addrs : /\ queue'[a].owner = queue[a].owner
                       /\ queue'[a].ready = queue[a].ready
                       /\ a # Addr(c) => queue'[a] = queue[a]
                       /\ a = Addr(c) => queue'[a].declared
  BY DEF Setup, Typed, TypeOK, Queue
<1>4. Alone'
  <2> SUFFICES ASSUME NEW d \in Calls, NEW e \in Calls, Active(d)', Active(e)',
                      Addr(d) = Addr(e), Quiet(d)'
               PROVE  d = e
    BY <1>1 DEF Alone
  <2>1. Quiet(e)'
    BY <1>1 DEF Quiet
  <2>2. \A x \in Calls : x # c /\ Active(x)' => Active(x)
    BY <1>1 DEF Active
  <2> QED BY <1>2, <2>1, <2>2 DEF Steady, Alone
<1>5. Joins'
  BY <1>1 DEF Steady, Joins, JoinsAt
<1>6. OwnedQueue'
  BY <1>1, <1>2, <1>3 DEF Steady, OwnedQueue, Attached, Active
<1>7. Routed'
  BY <1>1, <1>3, Places DEF Steady, Routed
<1> QED BY <1>4, <1>5, <1>6, <1>7 DEF Steady

LEMMA AttachSteady ==
    ASSUME Typed, Steady, NEW c \in Calls, Attach(c)
    PROVE  Steady'
<1>1. PICK pc \in {"loop", "refused"} :
         /\ ConsumerGoTo(c, pc)
         /\ IF pc = "loop"
            THEN /\ queue[Addr(c)].declared /\ queue[Addr(c)].owner = NoCall
                 /\ queue' = [queue EXCEPT ![Addr(c)].owner = c]
            ELSE UNCHANGED queue
  BY DEF Attach
<1>2. /\ consumer[c].pc = "start" /\ consumer'[c].pc = pc /\ UNCHANGED call
      /\ \A d \in Calls \ {c} : consumer'[d] = consumer[d]
      /\ \A d \in Calls : Addr(d)' = Addr(d) /\ Addr(d) \in Addrs
      /\ \A d \in Calls : Quiet(d)' = Quiet(d)
      /\ UNCHANGED crowded
  BY <1>1, ConsumerGoToLemma, Places DEF Attach, Typed, Addr, Quiet
<1>3. JoinsAt(c)'
  BY <1>2 DEF Steady, Joins, JoinsAt
<1>4. CASE pc = "refused"
  BY <1>1, <1>2, <1>3, <1>4, LocalSteady DEF Active, Attached
<1>5. CASE pc = "loop"
  <2>1. \A a \in Addrs : /\ queue'[a].ready = queue[a].ready
                         /\ queue'[a].declared = queue[a].declared
                         /\ a # Addr(c) => queue'[a] = queue[a]
                         /\ a = Addr(c) => queue'[a].owner = c
    BY <1>1, <1>5 DEF Typed, TypeOK, Queue
  <2>2. queue[Addr(c)].owner = NoCall /\ queue[Addr(c)].declared
    BY <1>1, <1>5
  <2>3. Alone'
    BY <1>2 DEF Steady, Alone, Active
  <2>4. Joins'
    BY <1>2, <1>3 DEF Steady, Joins, JoinsAt
  <2>5. ASSUME NEW d \in Calls PROVE (Attached(d) <=> queue[Addr(d)].owner = d)'
    <3>1. CASE d = c
      BY <1>2, <1>5, <2>1, <3>1 DEF Attached
    <3>2. CASE d # c /\ Addr(d) = Addr(c)
      <4>1. ~Attached(d)
        BY <2>2, <3>2, Parts DEF Steady, OwnedQueue, Typed
      <4> QED BY <1>2, <2>1, <3>2, <4>1 DEF Attached
    <3>3. CASE Addr(d) # Addr(c)
      BY <1>2, <2>1, <3>3 DEF Steady, OwnedQueue, Attached
    <3> QED BY <3>1, <3>2, <3>3
  <2>6. \A a \in Addrs : ~queue'[a].declared => queue'[a] = NoQueue
    BY <1>2, <2>1, <2>2 DEF Steady, OwnedQueue
  <2>7. \A d \in Calls :
           Active(d)' /\ Quiet(d)' /\ consumer'[d].pc = "start" =>
               queue'[Addr(d)].declared
    BY <1>2, <1>5, <2>1 DEF Steady, OwnedQueue, Active
  <2>8. Routed'
    BY <1>2, <2>1, Places DEF Steady, Routed
  <2> QED BY <1>2, <2>3, <2>4, <2>5, <2>6, <2>7, <2>8 DEF Steady, OwnedQueue
<1> QED BY <1>4, <1>5

LEMMA DeliverSteady ==
    ASSUME Typed, Steady, NEW c \in Calls, Deliver(c)
    PROVE  Steady'
<1> DEFINE A == Addr(c)
<1>1. /\ consumer[c].pc = "loop" /\ consumer'[c].pc = "send" /\ UNCHANGED call
      /\ \A d \in Calls \ {c} : consumer'[d] = consumer[d]
      /\ queue[A].ready # <<>> /\ queue'[A].ready = Tail(queue[A].ready)
      /\ \A a \in Addrs : /\ queue'[a].owner = queue[a].owner
                          /\ queue'[a].declared = queue[a].declared
                          /\ a # A => queue'[a] = queue[a]
      /\ \A d \in Calls : Addr(d)' = Addr(d) /\ Addr(d) \in Addrs
      /\ \A d \in Calls : Quiet(d)' = Quiet(d)
  <2>1. consumer'[c].pc = "send"
    <3>1. consumer'[c] = [pc |-> "send", held |-> <<Head(queue[A].ready)>>]
      BY DeliverLemma
    <3> QED BY <3>1
  <2> QED BY <2>1, DeliverLemma, Places DEF Deliver, Addr, Quiet
<1>2. \A a \in Addrs : Range(queue'[a].ready) \subseteq Range(queue[a].ready)
  <2>1. queue[A].ready \in Seq(Reply)
    BY <1>1, Places
  <2>2. Range(Tail(queue[A].ready)) \subseteq Range(queue[A].ready)
    BY <1>1, <2>1, HeadTailRange
  <2> QED BY <1>1, <2>2
<1>3. queue[A].declared /\ queue[A].owner = c
  BY <1>1, Parts DEF Steady, OwnedQueue, Attached, NoQueue, Typed
<1>4. Alone'
  BY <1>1 DEF Steady, Alone, Active
<1>5. Joins'
  BY <1>1 DEF Steady, Joins, JoinsAt
<1>6. OwnedQueue'
  <2>1. \A d \in Calls : (Attached(d) <=> queue[Addr(d)].owner = d)'
    BY <1>1, <1>3 DEF Steady, OwnedQueue, Attached
  <2>2. \A a \in Addrs : ~queue'[a].declared => queue'[a] = NoQueue
    BY <1>1, <1>3 DEF Steady, OwnedQueue
  <2>3. \A d \in Calls :
           Active(d)' /\ Quiet(d)' /\ consumer'[d].pc = "start" =>
               queue'[Addr(d)].declared
    BY <1>1 DEF Steady, OwnedQueue, Active
  <2> QED BY <1>1, <2>1, <2>2, <2>3 DEF OwnedQueue
<1>7. Routed'
  BY <1>1, <1>2, Places DEF Steady, Routed, Addr
<1> QED BY <1>4, <1>5, <1>6, <1>7 DEF Steady

LEMMA CloseSteady ==
    ASSUME Typed, Steady, NEW c \in Calls, Close(c)
    PROVE  Steady'
<1> DEFINE A == Addr(c)
<1>1. /\ consumer[c].pc = "close" /\ consumer'[c].pc = "ended" /\ UNCHANGED call
      /\ \A d \in Calls \ {c} : consumer'[d] = consumer[d]
      /\ \A d \in Calls : Addr(d)' = Addr(d) /\ Addr(d) \in Addrs
      /\ \A d \in Calls : Quiet(d)' = Quiet(d)
      /\ A \in Addrs
  BY ConsumerGoToLemma, Places DEF Close, Typed, Addr, Quiet
<1>2. queue'[A] = NoQueue /\ \A a \in Addrs \ {A} : queue'[a] = queue[a]
  BY <1>1 DEF Close, Typed, TypeOK
<1>3. call[c].pc = "join" /\ queue[A].owner = c
  BY <1>1 DEF Steady, Joins, JoinsAt, OwnedQueue, Attached
<1>4. \A d \in Calls : d # c /\ Addr(d) = A =>
         ~Attached(d) /\ (Quiet(d) => ~Active(d))
  BY <1>3 DEF Steady, Alone, OwnedQueue, Active
<1>5. Alone'
  BY <1>1 DEF Steady, Alone, Active
<1>6. Joins'
  BY <1>1, <1>3 DEF Steady, Joins, JoinsAt
<1>7. OwnedQueue'
  <2>1. ASSUME NEW d \in Calls PROVE (Attached(d) <=> queue[Addr(d)].owner = d)'
    <3>1. CASE Addr(d) = A
      <4>1. ~Attached(d)'
        BY <1>1, <1>4, <3>1 DEF Attached
      <4>2. queue'[Addr(d)'].owner = NoCall
        BY <1>1, <1>2, <3>1 DEF NoQueue
      <4> QED BY <4>1, <4>2, Parts DEF Typed
    <3>2. CASE Addr(d) # A
      BY <1>1, <1>2, <3>2 DEF Steady, OwnedQueue, Attached
    <3> QED BY <3>1, <3>2
  <2>2. \A a \in Addrs : ~queue'[a].declared => queue'[a] = NoQueue
    BY <1>2 DEF Steady, OwnedQueue
  <2>3. ASSUME NEW d \in Calls, Active(d)', Quiet(d)', consumer'[d].pc = "start"
        PROVE  queue'[Addr(d)'].declared
    <3>1. Addr(d) # A /\ Active(d) /\ Quiet(d) /\ consumer[d].pc = "start"
      BY <1>1, <1>4, <2>3 DEF Active
    <3> QED BY <1>1, <1>2, <3>1 DEF Steady, OwnedQueue
  <2> QED BY <2>1, <2>2, <2>3 DEF OwnedQueue
<1>8. Routed'
  <2>1. Range(queue'[A].ready) = {}
    BY <1>2, EmptyRange DEF NoQueue
  <2> QED BY <1>1, <1>2, <2>1, Places DEF Steady, Routed, Addr
<1> QED BY <1>5, <1>6, <1>7, <1>8 DEF Steady

LEMMA DbdSteady ==
    ASSUME Typed, Steady, DbdNext
    PROVE  Steady'
<1>1. /\ UNCHANGED <<call, consumer>>
      /\ \A c \in Calls : /\ Addr(c)' = Addr(c) /\ Addr(c) \in Addrs
                          /\ Quiet(c)' = Quiet(c)
  BY Places DEF DbdNext, Query, QueryFails, SendReply, SendReplyFails, Finish,
                DbdCrash, Addr, Quiet
<1>2. Alone' /\ Joins'
  BY <1>1 DEF Steady, Alone, Active, Joins, JoinsAt
<1>3. CASE UNCHANGED queue
  BY <1>1, <1>2, <1>3, Places DEF Steady, OwnedQueue, Attached, Active, Routed
<1>4. CASE SendReply
  <2>1. Asking \in Calls
    BY <1>4, AskingLemma DEF SendReply
  <2>2. \A a \in Addrs :
           /\ queue'[a].owner = queue[a].owner
           /\ queue'[a].declared = queue[a].declared
           /\ queue'[a].ready = IF a = Addr(Asking) /\ queue[a].declared
                                THEN Append(queue[a].ready, Answer)
                                ELSE queue[a].ready
           /\ ~queue[a].declared => queue'[a] = queue[a]
    BY <1>4, SendReplyLemma
  <2>3. OwnedQueue'
    BY <1>1, <2>2 DEF Steady, OwnedQueue, Attached, Active
  <2>4. Routed'
    <3> SUFFICES ASSUME NEW a \in Addrs, NEW m \in Range(queue'[a].ready)
                 PROVE  Addr(m.call)' = a
      BY DEF Routed
    <3>1. CASE m \in Range(queue[a].ready)
      BY <1>1, <3>1, Places DEF Steady, Routed
    <3>2. CASE m \notin Range(queue[a].ready)
      <4>1. Answer \in Reply /\ queue[a].ready \in Seq(Reply)
        BY <1>4, SendReplyLemma, Places
      <4>2. Range(Append(queue[a].ready, Answer)) = Range(queue[a].ready) \cup {Answer}
        BY <4>1, AppendRange
      <4>3. a = Addr(Asking) /\ m = Answer
        BY <2>2, <3>2, <4>2
      <4> QED BY <1>1, <2>1, <4>3 DEF Answer
    <3> QED BY <3>1, <3>2
  <2> QED BY <1>2, <2>3, <2>4 DEF Steady
<1> QED BY <1>3, <1>4
        DEF DbdNext, Query, QueryFails, SendReplyFails, Finish, DbdCrash

LEMMA SteadyStep ==
    ASSUME Typed, Steady, [Next]_vars
    PROVE  Steady'
<1>1. CASE \E c \in Calls : Handler(c)
  BY <1>1, SetupSteady, MethodSteady DEF Handler
<1>2. CASE \E c \in Calls : Goroutine(c)
  BY <1>2, AttachSteady, DeliverSteady, MeetingSteady, CloseSteady DEF Goroutine
<1>3. CASE UNCHANGED vars
  <2>1. /\ UNCHANGED <<call, consumer, queue>>
        /\ \A c \in Calls : Addr(c)' = Addr(c) /\ Quiet(c)' = Quiet(c)
    BY <1>3 DEF vars, Addr, Quiet
  <2> QED BY <2>1, Places
          DEF Steady, Alone, Active, Joins, JoinsAt, OwnedQueue, Attached, Routed
<1> QED BY <1>1, <1>2, <1>3, DbdSteady DEF Next

THEOREM AlwaysSteady == Spec => [](Typed /\ Steady)
<1>1. Init => Steady
  BY InitSteady
<1>2. Typed /\ Steady /\ [Next]_vars => Steady'
  BY SteadyStep
<1> QED BY <1>1, <1>2, AlwaysTyped, PTL DEF Spec
-----------------------------------------------------------------------------
(* The invariant while dbd lives, of the calls from addresses that were    *)
(* never crowded: a method keeps in step with its goroutine, ...           *)
NoCrash == "dbd" \notin Faults

InStepAt(c) ==
    /\ call[c].pc \in {"idle", "ask"} => call[c].got = <<>> /\ found[c] = Unread
    /\ call[c].pc = "ask" => consumer[c].pc \in {"start", "loop", "refused"}
    /\ call[c].pc = "receive" => consumer[c].pc \notin {"none", "close", "ended"}
    /\ call[c].pc = "drain" => consumer[c].pc = "signal"

InStep == \A c \in Calls : Quiet(c) => InStepAt(c)

(* Every request is queued once, while its call waits for the answer.      *)
Waiters ==
    /\ \A c \in Range(requests.ready) :
          Quiet(c) => call[c].pc = "receive" /\ found[c] = Unread
    /\ \A i, j \in DOMAIN requests.ready :
          requests.ready[i] = requests.ready[j] /\ Quiet(requests.ready[i]) => i = j

(* What is still to come of an answer is awaited, or the queue stays with  *)
(* the goroutine of a call that returned too early.                        *)
InFlight(c) ==
    \/ dbd.pc = "reply" /\ Asking = c
    \/ \E m \in Range(queue[Addr(c)].ready) : m.call = c

Flight ==
    \A c \in Calls :
        Quiet(c) /\ InFlight(c) => \/ call[c].pc = "receive"
                                   \/ Over(c) /\ queue[Addr(c)].owner = c

(* A call whose goroutine has the queue, or is the next to get it, finds   *)
(* what dbd has sent so far in one piece: got, then held, then queued.     *)
Own(c) ==
    /\ call[c].pc = "receive"
    /\ \/ queue[Addr(c)].owner = c
       \/ queue[Addr(c)].owner = NoCall /\ consumer[c].pc = "start"

Msg(c, k) == [call |-> c, item |-> Item(c, k), stop |-> k = Count(c)]

Got(c) == Len(call[c].got)
Taken(c) == Got(c) + Len(consumer[c].held)
Sent(c) == Taken(c) + Len(queue[Addr(c)].ready)

InOrder(c) ==
    /\ \A i \in 1 .. Got(c) : call[c].got[i] = Item(c, i)
    /\ consumer[c].pc = "send" => Held(c) = Msg(c, Taken(c))
    /\ \A i \in 1 .. Len(queue[Addr(c)].ready) :
          queue[Addr(c)].ready[i] = Msg(c, Taken(c) + i)
    /\ IF found[c] = Unread THEN Sent(c) = 0 ELSE Sent(c) <= Count(c)
    /\ dbd.pc = "reply" /\ Asking = c => dbd.sent = Sent(c) /\ Sent(c) < Count(c)
    /\ consumer[c].pc = "signal" => found[c] # Unread /\ Got(c) = Count(c)
    /\ found[c] # Unread /\ consumer[c].pc # "signal" => Got(c) < Count(c)

OwnInOrder == \A c \in Calls : Quiet(c) /\ Own(c) => InOrder(c)

(* A method that does not wait any more has all of it.                     *)
DoneAt(c) ==
    /\ found[c] # Unread
    /\ Got(c) = Count(c) /\ \A i \in 1 .. Got(c) : call[c].got[i] = Item(c, i)

Finished ==
    \A c \in Calls : Quiet(c) /\ call[c].pc \in {"drain", "join", "ok"} => DoneAt(c)

Limited == \A c \in Calls : call[c].op \notin Streams => found[c] <= 1

Inv ==
    /\ Steady /\ InStep
    /\ Waiters /\ Flight
    /\ OwnInOrder /\ Finished /\ Limited
-----------------------------------------------------------------------------
LEMMA CountLemma ==
    ASSUME Typed, NEW c \in Calls
    PROVE  /\ Got(c) \in Nat /\ Len(consumer[c].held) \in {0, 1}
           /\ Len(consumer[c].held) = 1 <=> consumer[c].pc = "send"
           /\ Taken(c) \in Nat /\ Sent(c) \in Nat
           /\ Len(queue[Addr(c)].ready) \in Nat
           /\ Taken(c) = Got(c) + Len(consumer[c].held)
           /\ Sent(c) = Taken(c) + Len(queue[Addr(c)].ready)
           /\ found[c] # Unread => Count(c) \in Nat \ {0} /\ found[c] \in Nat
<1>1. /\ call[c].got \in Seq(0 .. MaxRecords) /\ queue[Addr(c)].ready \in Seq(Reply)
      /\ found[c] \in {Unread} \cup 0 .. MaxRecords /\ MaxRecords \in Nat
      /\ Unread \notin 0 .. MaxRecords
  BY Parts DEF Typed
<1>2. /\ Len(consumer[c].held) \in {0, 1}
      /\ Len(consumer[c].held) = 1 <=> consumer[c].pc = "send"
  BY DEF Typed, HeldOK
<1>3. Len(call[c].got) \in Nat /\ Len(queue[Addr(c)].ready) \in Nat
  BY <1>1, LenProperties
<1>4. found[c] # Unread => Count(c) \in Nat \ {0} /\ found[c] \in Nat
  BY <1>1 DEF Count
<1>5. Got(c) \in Nat
  BY <1>3 DEF Got
<1>6. /\ Taken(c) = Got(c) + Len(consumer[c].held)
      /\ Sent(c) = Taken(c) + Len(queue[Addr(c)].ready)
  BY DEF Taken, Sent
<1>7. Taken(c) \in Nat
  BY <1>2, <1>5, <1>6
<1>8. Sent(c) \in Nat
  BY <1>3, <1>6, <1>7
<1> HIDE DEF Got, Taken, Sent, Count
<1> QED BY <1>2, <1>3, <1>4, <1>5, <1>6, <1>7, <1>8, Zenon

(* Nothing but its own answer is in the queue of a call that owns it, or   *)
(* will; before it asks there is nothing at all.                           *)
LEMMA OwnMessages ==
    ASSUME Typed, Inv, NEW c \in Calls, Quiet(c), call[c].pc \in {"ask", "receive"},
           queue[Addr(c)].owner \in {c, NoCall},
           NEW m \in Range(queue[Addr(c)].ready)
    PROVE  m.call = c /\ call[c].pc = "receive"
<1> DEFINE d == m.call
<1>1. m \in Reply /\ d \in Calls /\ Addr(d) = Addr(c) /\ Quiet(d)
  <2>1. queue[Addr(c)].ready \in Seq(Reply) /\ Addr(c) \in Addrs
    BY Parts DEF Typed
  <2>2. m \in Reply
    BY <2>1, RangeOfSeq
  <2> QED BY <2>1, <2>2 DEF Reply, Inv, Steady, Routed, Quiet
<1>2. InFlight(d)
  BY <1>1 DEF InFlight
<1>3. CASE call[d].pc = "receive"
  BY <1>1, <1>3 DEF Inv, Steady, Alone, Active
<1>4. CASE Over(d) /\ queue[Addr(d)].owner = d
  BY <1>1, <1>4, Parts DEF Typed, Over, Returned
<1> QED BY <1>1, <1>2, <1>3, <1>4 DEF Inv, Flight

LEMMA OwnOwner ==
    ASSUME Typed, Inv, NEW c \in Calls, Quiet(c), call[c].pc = "receive", Attached(c)
    PROVE  Own(c) /\ InOrder(c)
BY DEF Inv, Steady, OwnedQueue, OwnInOrder, Own

(* Once a call has got the last message nothing more is under way.         *)
LEMMA NothingMore ==
    ASSUME Typed, Inv, NEW c \in Calls, Quiet(c), Own(c), Taken(c) = Count(c),
           found[c] # Unread
    PROVE  ~InFlight(c) /\ c \notin Range(requests.ready)
           /\ queue[Addr(c)].ready = <<>>
<1>1. InOrder(c)
  BY DEF Inv, OwnInOrder
<1>2. Len(queue[Addr(c)].ready) = 0 /\ Sent(c) = Count(c)
  BY <1>1, CountLemma DEF InOrder
<1>3. queue[Addr(c)].ready = <<>>
  BY <1>2, Parts, EmptySeq DEF Typed
<1>4. ~(dbd.pc = "reply" /\ Asking = c)
  BY <1>1, <1>2, CountLemma DEF InOrder
<1>5. c \notin Range(requests.ready)
  BY DEF Inv, Waiters
<1> QED BY <1>3, <1>4, <1>5, EmptyRange DEF InFlight

(* What a call sees does not change with the state of others.              *)
LEMMA OrderFrame ==
    ASSUME NEW c \in Calls, InOrder(c),
           call'[c].got = call[c].got, call'[c].addr = call[c].addr,
           consumer'[c].held = consumer[c].held, found'[c] = found[c],
           queue'[Addr(c)].ready = queue[Addr(c)].ready,
           \/ UNCHANGED <<dbd, requests.current>>
           \/ ~(dbd.pc = "reply" /\ Asking = c)',
           consumer'[c].pc = consumer[c].pc
    PROVE  InOrder(c)'
<1>1. Addr(c)' = Addr(c) /\ Held(c)' = Held(c) /\ Got(c)' = Got(c)
  BY DEF Addr, Held, Got
<1>2. Taken(c)' = Taken(c) /\ Sent(c)' = Sent(c) /\ Count(c)' = Count(c)
  BY <1>1 DEF Taken, Sent, Count
<1>3. \A k : Item(c, k)' = Item(c, k) /\ Msg(c, k)' = Msg(c, k)
  BY <1>2 DEF Item, Msg
<1>4. (dbd.pc = "reply" /\ Asking = c)' => dbd.pc = "reply" /\ Asking = c /\ dbd'.sent = dbd.sent
  BY DEF Asking
<1> QED BY <1>1, <1>2, <1>3, <1>4 DEF InOrder

LEMMA DoneFrame ==
    ASSUME NEW c \in Calls, DoneAt(c), call'[c].got = call[c].got,
           found'[c] = found[c]
    PROVE  DoneAt(c)'
BY DEF DoneAt, Got, Count, Item

(* A step of one call and its goroutine that leaves all queues alone.      *)
LEMMA LocalStep ==
    ASSUME Typed, Inv, NEW c \in Calls, Quiet(c),
           \A d \in Calls \ {c} : call'[d] = call[d] /\ consumer'[d] = consumer[d],
           call'[c].op = call[c].op, call'[c].addr = call[c].addr,
           UNCHANGED <<queue, requests, dbd, found, crowded>>, Steady', InStepAt(c)',
           c \in Range(requests.ready) => call'[c].pc = "receive",
           InFlight(c) => \/ call'[c].pc = "receive"
                          \/ Over(c)' /\ queue[Addr(c)].owner = c,
           Own(c)' => InOrder(c)',
           call'[c].pc \in {"drain", "join", "ok"} => DoneAt(c)'
    PROVE  Inv'
<1>0. \A d \in Calls : /\ Addr(d)' = Addr(d) /\ Quiet(d)' = Quiet(d)
                        /\ call'[d].op = call[d].op
  BY DEF Addr, Quiet
<1>1. InStep'
  BY <1>0 DEF Inv, InStep, InStepAt
<1>2. Waiters'
  <2>1. \A d \in Range(requests.ready) : d \in Calls
    BY Places
  <2>2. \A i \in DOMAIN requests.ready : requests.ready[i] \in Range(requests.ready)
    BY DEF Range
  <2> QED BY <1>0, <2>1, <2>2 DEF Inv, Waiters
<1>3. Flight'
  <2> SUFFICES ASSUME NEW d \in Calls, Quiet(d)', InFlight(d)'
               PROVE  (call[d].pc = "receive" \/ (Over(d) /\ queue[Addr(d)].owner = d))'
    BY DEF Flight
  <2>1. InFlight(d)
    BY <1>0 DEF InFlight, Asking
  <2>2. CASE d = c
    BY <1>0, <2>1, <2>2
  <2>3. CASE d # c
    BY <1>0, <2>1, <2>3 DEF Inv, Flight, Over
  <2> QED BY <2>2, <2>3
<1>4. OwnInOrder'
  <2> SUFFICES ASSUME NEW d \in Calls, d # c, Quiet(d)', Own(d)' PROVE InOrder(d)'
    BY DEF OwnInOrder
  <2>1. Own(d)
    BY <1>0 DEF Own
  <2>2. InOrder(d)
    BY <1>0, <2>1 DEF Inv, OwnInOrder
  <2> QED BY <2>2, OrderFrame
<1>5. Finished'
  <2> SUFFICES ASSUME NEW d \in Calls, d # c, Quiet(d)',
                      call'[d].pc \in {"drain", "join", "ok"}
               PROVE  DoneAt(d)'
    BY DEF Finished
  <2>1. DoneAt(d)
    BY <1>0 DEF Inv, Finished
  <2> QED BY <2>1, DoneFrame
<1>6. Limited'
  BY <1>0 DEF Inv, Limited
<1> QED BY <1>1, <1>2, <1>3, <1>4, <1>5, <1>6 DEF Inv

LEMMA EarlyInv ==
    ASSUME Typed, Inv, NEW c \in Calls, Quiet(c), SetupFails(c) \/ AskFails(c)
    PROVE  Inv'
<1>1. /\ call[c].pc \in {"idle", "ask"} /\ call'[c].pc = "failed"
      /\ \A d \in Calls \ {c} : call'[d] = call[d]
      /\ call'[c].op = call[c].op /\ call'[c].addr = call[c].addr
      /\ UNCHANGED <<consumer, queue, requests, dbd, found, crowded>>
  BY GoToLemma DEF SetupFails, AskFails, Typed, Returned
<1>2. ~InFlight(c) /\ c \notin Range(requests.ready)
  BY <1>1 DEF Inv, Flight, Waiters, Over, Returned
<1>3. InStepAt(c)'
  BY <1>1 DEF Inv, InStep, InStepAt
<1>4. Steady'
  BY MethodSteady DEF Inv
<1> QED BY <1>1, <1>2, <1>3, <1>4, LocalStep DEF Own

LEMMA ReturnInv ==
    ASSUME Typed, Inv, NEW c \in Calls, Quiet(c), Return(c)
    PROVE  Inv'
<1>1. PICK pc \in {"ok", "denied"} : GoTo(c, pc)
  BY DEF Return
<1>2. /\ call[c].pc = "join" /\ call'[c].pc = pc /\ consumer[c].pc = "ended"
      /\ \A d \in Calls \ {c} : call'[d] = call[d]
      /\ call'[c].op = call[c].op /\ call'[c].addr = call[c].addr
      /\ call'[c].got = call[c].got
      /\ UNCHANGED <<consumer, queue, requests, dbd, found, crowded>>
  BY <1>1, GoToLemma DEF Return, Typed, Returned
<1>3. ~InFlight(c) /\ c \notin Range(requests.ready)
  BY <1>2 DEF Inv, Flight, Waiters, Over, Returned
<1>4. InStepAt(c)'
  BY <1>2 DEF Inv, InStep, InStepAt
<1>5. DoneAt(c)'
  BY <1>2, DoneFrame DEF Inv, Finished
<1>6. Steady'
  BY MethodSteady DEF Inv
<1> QED BY <1>2, <1>3, <1>4, <1>5, <1>6, LocalStep DEF Own

LEMMA SignalInv ==
    ASSUME Typed, Inv, NEW c \in Calls, Quiet(c), Signal(c)
    PROVE  Inv'
<1>1. /\ call[c].pc \in {"receive", "drain"} /\ call'[c].pc = "join"
      /\ consumer[c].pc = "signal" /\ consumer'[c].pc = "close"
      /\ \A d \in Calls \ {c} : call'[d] = call[d] /\ consumer'[d] = consumer[d]
      /\ call'[c].op = call[c].op /\ call'[c].addr = call[c].addr
      /\ call'[c].got = call[c].got
      /\ UNCHANGED <<queue, requests, dbd, found, crowded>>
  BY GoToLemma, ConsumerGoToLemma DEF Signal, Typed
<1>2. DoneAt(c) /\ ~InFlight(c) /\ c \notin Range(requests.ready)
  <2>1. CASE call[c].pc = "drain"
    BY <2>1 DEF Inv, Flight, Waiters, Over, Returned, Finished
  <2>2. CASE call[c].pc = "receive"
    <3>1. Own(c) /\ InOrder(c)
      BY <1>1, <2>2, OwnOwner DEF Attached
    <3>2. found[c] # Unread /\ Got(c) = Count(c)
      BY <1>1, <3>1 DEF InOrder
    <3>3. Taken(c) = Count(c)
      <4>1. Got(c) \in Nat /\ Len(consumer[c].held) = 0
            /\ Taken(c) = Got(c) + Len(consumer[c].held)
        BY <1>1, CountLemma
      <4> QED BY <3>2, <4>1
    <3>4. DoneAt(c)
      BY <3>1, <3>2 DEF InOrder, DoneAt
    <3> QED BY <3>1, <3>2, <3>3, <3>4, NothingMore
  <2> QED BY <1>1, <2>1, <2>2
<1>3. InStepAt(c)'
  BY <1>1 DEF InStepAt
<1>4. DoneAt(c)'
  BY <1>1, <1>2, DoneFrame
<1>5. Steady'
  BY MeetingSteady DEF Inv
<1> QED BY <1>1, <1>2, <1>3, <1>4, <1>5, LocalStep DEF Own

(* The message a method receives is the next of its own answer. *)
LEMMA ReceivedLemma ==
    ASSUME Typed, Inv, NEW c \in Calls, Quiet(c), Meets(c),
           NEW pc \in {"receive", "drain", "denied", "failed"}, HandOver(c, pc)
    PROVE  /\ Own(c) /\ InOrder(c) /\ found[c] # Unread
           /\ Held(c) = Msg(c, Got(c) + 1) /\ Taken(c) = Got(c) + 1
           /\ Got(c)' = Got(c) + 1 /\ Taken(c)' = Got(c)'
           /\ \A i \in 1 .. Got(c)' : call'[c].got[i] = Item(c, i)
           /\ consumer'[c].pc = (IF Got(c)' = Count(c) THEN "signal" ELSE "loop")
           /\ Got(c)' <= Count(c)
           /\ c \notin Range(requests.ready)
<1>1. Own(c) /\ InOrder(c)
  BY OwnOwner DEF Meets, Attached
<1>2. /\ Len(consumer[c].held) = 1 /\ Taken(c) = Got(c) + 1 /\ Sent(c) # 0
      /\ Sent(c) >= Taken(c)
  <2>1. consumer[c].pc = "send"
    BY DEF Meets
  <2>2. Len(consumer[c].held) = 1 /\ Taken(c) = Got(c) + 1
    BY <2>1, CountLemma
  <2>3. /\ Got(c) \in Nat /\ Len(queue[Addr(c)].ready) \in Nat
        /\ Sent(c) = Taken(c) + Len(queue[Addr(c)].ready)
    BY CountLemma
  <2> QED BY <2>2, <2>3
<1>3. found[c] # Unread /\ Held(c) = Msg(c, Got(c) + 1) /\ Taken(c) <= Count(c)
  BY <1>1, <1>2, CountLemma DEF InOrder, Meets
<1>4. /\ call'[c].got = Append(call[c].got, Held(c).item)
      /\ consumer'[c] = [pc |-> IF Held(c).stop THEN "signal" ELSE "loop",
                         held |-> <<>>]
  BY HandOverLemma DEF Returned
<1>5. /\ call[c].got \in Seq(0 .. MaxRecords) /\ Held(c).item \in 0 .. MaxRecords
      /\ Held(c).item = Item(c, Got(c) + 1)
      /\ Held(c).stop <=> Got(c) + 1 = Count(c)
  <2>1. Held(c) \in Reply
    BY HandOverLemma DEF Returned
  <2>2. call[c].got \in Seq(0 .. MaxRecords)
    BY Parts DEF Typed
  <2>3. Held(c).item \in 0 .. MaxRecords
    BY <2>1 DEF Reply
  <2>4. Held(c).item = Item(c, Got(c) + 1)
    BY <1>3 DEF Msg
  <2>5. Held(c).stop = (Got(c) + 1 = Count(c))
    BY <1>3 DEF Msg
  <2> QED BY <2>2, <2>3, <2>4, <2>5
<1>6. /\ Len(call'[c].got) = Got(c) + 1
      /\ \A i \in 1 .. Got(c) : call'[c].got[i] = call[c].got[i]
      /\ call'[c].got[Got(c) + 1] = Item(c, Got(c) + 1)
  BY <1>4, <1>5, AppendProperties DEF Got
<1>7. Got(c)' = Got(c) + 1 /\ Taken(c)' = Got(c)'
  <2>1. Len(consumer'[c].held) = 0
    BY <1>4
  <2> QED BY <1>6, <2>1, CountLemma DEF Got, Taken
<1>8. \A i \in 1 .. Got(c)' : call'[c].got[i] = Item(c, i)
  <2>1. \A i \in 1 .. Got(c) : call[c].got[i] = Item(c, i)
    BY <1>1 DEF InOrder
  <2>2. Got(c) \in Nat
    BY CountLemma
  <2>3. \A i \in 1 .. Got(c)' : i \in 1 .. Got(c) \/ i = Got(c) + 1
    BY <1>7, <2>2
  <2> QED BY <1>6, <2>1, <2>3
<1>9. consumer'[c].pc = (IF Got(c)' = Count(c) THEN "signal" ELSE "loop")
  BY <1>4, <1>5, <1>7
<1>10. c \notin Range(requests.ready)
  BY <1>3 DEF Inv, Waiters
<1> QED BY <1>1, <1>2, <1>3, <1>7, <1>8, <1>9, <1>10

LEMMA ReceiveInv ==
    ASSUME Typed, Inv, NEW c \in Calls, Quiet(c),
           ReceiveOne(c) \/ ReceiveMany(c) \/ SendFails(c)
    PROVE  Inv'
<1>1. PICK pc \in {"receive", "drain", "denied", "failed"} :
         Meets(c) /\ HandOver(c, pc)
  BY DEF ReceiveOne, ReceiveMany, SendFails
<1>2. /\ call[c].pc = "receive" /\ consumer[c].pc = "send" /\ call'[c].pc = pc
      /\ \A d \in Calls \ {c} : call'[d] = call[d] /\ consumer'[d] = consumer[d]
      /\ call'[c].op = call[c].op /\ call'[c].addr = call[c].addr
      /\ UNCHANGED <<queue, requests, dbd, found, crowded>>
      /\ consumer'[c].held = <<>>
  <2>1. call[c].pc = "receive" /\ consumer[c].pc = "send"
    BY <1>1 DEF Meets
  <2>2. /\ call'[c].pc = pc
        /\ \A d \in Calls \ {c} : call'[d] = call[d] /\ consumer'[d] = consumer[d]
        /\ call'[c].op = call[c].op /\ call'[c].addr = call[c].addr
        /\ UNCHANGED <<queue, requests, dbd, found, crowded>>
        /\ consumer'[c] = [pc |-> IF Held(c).stop THEN "signal" ELSE "loop",
                           held |-> <<>>]
    BY <1>1, HandOverLemma DEF Returned
  <2> QED BY <2>1, <2>2
<1>3. /\ Own(c) /\ InOrder(c) /\ found[c] # Unread /\ Held(c) = Msg(c, Got(c) + 1)
      /\ Taken(c) = Got(c) + 1 /\ Got(c)' = Got(c) + 1 /\ Taken(c)' = Got(c)'
      /\ \A i \in 1 .. Got(c)' : call'[c].got[i] = Item(c, i)
      /\ consumer'[c].pc = (IF Got(c)' = Count(c) THEN "signal" ELSE "loop")
      /\ Got(c)' <= Count(c)
      /\ c \notin Range(requests.ready)
  BY <1>1, ReceivedLemma
<1>4. /\ Count(c) \in Nat \ {0} /\ found[c] \in Nat /\ Got(c) \in Nat
      /\ Count(c)' = Count(c) /\ \A k : Item(c, k)' = Item(c, k) /\ Msg(c, k)' = Msg(c, k)
      /\ queue[Addr(c)].owner = c
  BY <1>2, <1>3, CountLemma DEF Count, Item, Msg, Inv, Steady, OwnedQueue, Attached
<1>5. pc \in {"drain", "denied"} => Got(c)' = Count(c)
  <2>1. CASE call[c].op \notin Streams
    <3>1. Count(c) = 1
      BY <1>4, <2>1 DEF Inv, Limited, Count
    <3> QED BY <1>3, <1>4, <3>1
  <2>2. CASE ReceiveMany(c) /\ call[c].op \in Streams
    <3> SUFFICES ASSUME pc \in {"drain", "denied"} PROVE Got(c)' = Count(c)
      OBVIOUS
    <3>1. ~Wants(c, Held(c).item)
      BY <1>2, <2>2, HandOverLemma DEF ReceiveMany, Meets, Returned
    <3>2. Held(c).item = 0 /\ Held(c).item = Item(c, Got(c) + 1)
      BY <1>3, <2>2, <3>1 DEF Wants, Streams, Msg
    <3>3. Count(c) = 1
      BY <1>4, <3>2 DEF Item, Count
    <3> QED BY <1>3, <1>4, <3>3
  <2>3. CASE SendFails(c)
    <3>1. call'[c].pc = "failed"
      BY <2>3, HandOverLemma DEF SendFails, Returned
    <3> QED BY <1>2, <3>1
  <2> QED BY <2>1, <2>2, <2>3 DEF ReceiveOne
<1>6. InStepAt(c)'
  BY <1>2, <1>3, <1>5 DEF InStepAt
<1>7. InFlight(c) => pc \notin {"drain", "denied"}
  BY <1>3, <1>5, NothingMore
<1>8. Own(c)' => InOrder(c)'
  <2> SUFFICES ASSUME Own(c)' PROVE InOrder(c)'
    OBVIOUS
  <2>1. Addr(c)' = Addr(c) /\ Taken(c)' = Taken(c) /\ Sent(c)' = Sent(c)
    BY <1>2, <1>3 DEF Addr, Sent
  <2>2. /\ \A i \in 1 .. Got(c)' : call'[c].got[i] = Item(c, i)'
        /\ consumer'[c].pc # "send"
        /\ consumer'[c].pc = "signal" => Got(c)' = Count(c)'
        /\ consumer'[c].pc # "signal" => Got(c)' < Count(c)'
    BY <1>3, <1>4
  <2>3. /\ \A i \in 1 .. Len(queue[Addr(c)].ready) :
              queue[Addr(c)].ready[i] = Msg(c, Taken(c) + i)
        /\ Sent(c) <= Count(c)
        /\ dbd.pc = "reply" /\ Asking = c => dbd.sent = Sent(c) /\ Sent(c) < Count(c)
    BY <1>3 DEF InOrder
  <2>4. Asking' = Asking
    BY <1>2 DEF Asking
  <2> QED BY <1>2, <1>3, <1>4, <2>1, <2>2, <2>3, <2>4 DEF InOrder
<1>9. pc = "drain" => DoneAt(c)'
  BY <1>2, <1>3, <1>4, <1>5 DEF DoneAt
<1>10. InFlight(c) => \/ call'[c].pc = "receive"
                      \/ Over(c)' /\ queue[Addr(c)].owner = c
  BY <1>2, <1>4, <1>7 DEF Over, Returned
<1>11. Steady'
  BY MeetingSteady DEF Inv
<1> QED BY <1>2, <1>3, <1>6, <1>8, <1>9, <1>10, <1>11, LocalStep

LEMMA SetupInv ==
    ASSUME Typed, Inv, NEW c \in Calls, Setup(c), Quiet(c)'
    PROVE  Inv'
<1>1. /\ call[c].pc = "idle" /\ call'[c].pc = "ask"
      /\ consumer[c].pc = "none" /\ consumer'[c].pc = "start"
      /\ \A d \in Calls \ {c} : call'[d] = call[d] /\ consumer'[d] = consumer[d]
      /\ \A d \in Calls : /\ call'[d].op = call[d].op /\ call'[d].addr = call[d].addr
                          /\ call'[d].got = call[d].got
                          /\ Addr(d)' = Addr(d) /\ Addr(d) \in Addrs
      /\ UNCHANGED <<requests, dbd, found>>
  BY GoToLemma, ConsumerGoToLemma, Places DEF Setup, Typed, IdleOK, Addr
<1>2. \A d \in Calls : Quiet(d)' = Quiet(d)
  <2>1. \/ crowded' = crowded
        \/ crowded' = crowded \cup {Addr(c)}
    BY DEF Setup
  <2>2. Addr(c)' = Addr(c) /\ Addr(c)' \notin crowded'
    BY <1>1 DEF Quiet
  <2>3. crowded' = crowded
    BY <2>1, <2>2
  <2> QED BY <1>1, <2>3 DEF Quiet
<1>3. \A a \in Addrs : /\ queue'[a].owner = queue[a].owner
                       /\ queue'[a].ready = queue[a].ready
                       /\ a # Addr(c) => queue'[a] = queue[a]
                       /\ a = Addr(c) => queue'[a].declared
  BY DEF Setup, Typed, TypeOK, Queue
<1>4. Steady'
  BY SetupSteady DEF Inv
<1>5. InStep'
  <2>1. InStepAt(c)'
    BY <1>1, <1>2 DEF Inv, InStep, InStepAt
  <2> QED BY <1>1, <1>2, <2>1 DEF Inv, InStep, InStepAt
<1>6. Waiters' /\ c \notin Range(requests.ready)
  <2>1. \A i \in DOMAIN requests.ready : requests.ready[i] \in Range(requests.ready)
    BY DEF Range
  <2> QED BY <1>1, <1>2, <2>1, Places DEF Inv, Waiters
<1>7. ASSUME NEW d \in Calls, Quiet(d)', InFlight(d)'
      PROVE  InFlight(d) /\ d # c
  <2>1. InFlight(d)
    BY <1>1, <1>3, <1>7 DEF InFlight, Asking
  <2> QED BY <1>1, <1>2, <1>7, <2>1 DEF Inv, Flight, Over, Returned
<1>8. Flight'
  BY <1>1, <1>2, <1>3, <1>7 DEF Inv, Flight, Over
<1>9. OwnInOrder'
  <2> SUFFICES ASSUME NEW d \in Calls, Quiet(d)', Own(d)' PROVE InOrder(d)'
    BY DEF OwnInOrder
  <2>1. d # c /\ Own(d)
    BY <1>1, <1>3 DEF Own
  <2> QED BY <1>1, <1>2, <1>3, <2>1, OrderFrame DEF Inv, OwnInOrder
<1>10. Finished'
  BY <1>1, <1>2, DoneFrame DEF Inv, Finished
<1>11. Limited'
  BY <1>1 DEF Inv, Limited
<1> QED BY <1>4, <1>5, <1>6, <1>8, <1>9, <1>10, <1>11 DEF Inv

LEMMA AskInv ==
    ASSUME Typed, Inv, NEW c \in Calls, Quiet(c), Ask(c)
    PROVE  Inv'
<1>1. /\ call[c].pc = "ask" /\ call'[c].pc = "receive"
      /\ \A d \in Calls \ {c} : call'[d] = call[d]
      /\ \A d \in Calls : /\ call'[d].op = call[d].op /\ call'[d].addr = call[d].addr
                          /\ call'[d].got = call[d].got
                          /\ Addr(d)' = Addr(d) /\ Addr(d) \in Addrs
                          /\ Quiet(d)' = Quiet(d)
      /\ UNCHANGED <<consumer, queue, dbd, found>>
  BY GoToLemma, Places DEF Ask, Typed, Addr, Quiet
<1>2. /\ found[c] = Unread /\ call[c].got = <<>>
      /\ consumer[c].pc \in {"start", "loop", "refused"}
      /\ ~InFlight(c) /\ c \notin Range(requests.ready)
  BY <1>1 DEF Inv, InStep, InStepAt, Flight, Waiters, Over, Returned
<1>3. /\ requests.ready \in Seq(Calls)
      /\ requests'.ready = Append(requests.ready, c)
      /\ requests'.current = requests.current
  BY QueueParts DEF Ask, Put, Typed, TypeOK
<1>4. Range(requests'.ready) = Range(requests.ready) \cup {c}
  BY <1>3, AppendRange
<1>5. Steady'
  BY MethodSteady DEF Inv
<1>6. InStep'
  <2>1. InStepAt(c)'
    BY <1>1, <1>2 DEF InStepAt
  <2> QED BY <1>1, <2>1 DEF Inv, InStep, InStepAt
<1>7. Waiters'
  <2>1. \A d \in Range(requests'.ready) :
           Quiet(d)' => call'[d].pc = "receive" /\ found'[d] = Unread
    BY <1>1, <1>2, <1>4, Places DEF Inv, Waiters
  <2>2. ASSUME NEW d \in Calls, Quiet(d)',
               NEW i \in DOMAIN requests'.ready, NEW j \in DOMAIN requests'.ready,
               requests'.ready[i] = d, requests'.ready[j] = d
        PROVE  i = j
    <3> DEFINE n == Len(requests.ready)
    <3>1. /\ n \in Nat /\ DOMAIN requests.ready = 1 .. n
          /\ DOMAIN requests'.ready = 1 .. (n + 1)
          /\ \A k \in 1 .. n : requests'.ready[k] = requests.ready[k]
          /\ requests'.ready[n + 1] = c
          /\ \A k \in 1 .. n : requests.ready[k] \in Calls
      BY <1>3, AppendProperties, LenProperties
    <3>2. \A k \in 1 .. n : requests.ready[k] # c
      BY <1>2, <3>1 DEF Range
    <3>3. \A k \in 1 .. (n + 1) : k \in 1 .. n \/ k = n + 1
      BY <3>1
    <3> HIDE DEF n
    <3> QED BY <1>1, <2>2, <3>1, <3>2, <3>3 DEF Inv, Waiters
  <2>3. \A i \in DOMAIN requests'.ready : requests'.ready[i] \in Calls
    BY <1>4, Places DEF Range
  <2> QED BY <2>1, <2>2, <2>3 DEF Waiters
<1>8. Flight'
  <2>1. \A d \in Calls : InFlight(d)' <=> InFlight(d)
    BY <1>1, <1>3 DEF InFlight, Asking
  <2> QED BY <1>1, <2>1 DEF Inv, Flight, Over
<1>9. OwnInOrder'
  <2>1. ASSUME NEW d \in Calls, d # c, Quiet(d)', Own(d)' PROVE InOrder(d)'
    <3>1. Own(d) /\ InOrder(d)
      BY <1>1, <2>1 DEF Own, Inv, OwnInOrder
    <3> QED BY <1>1, <1>3, <2>1, <3>1, OrderFrame
  <2>2. ASSUME Own(c)' PROVE InOrder(c)'
    <3>1. queue[Addr(c)].owner \in {c, NoCall}
      BY <1>1, <2>2 DEF Own
    <3>2. \A m \in Range(queue[Addr(c)].ready) : FALSE
      BY <1>1, <3>1, OwnMessages
    <3>3. queue[Addr(c)].ready = <<>>
      <4>1. queue[Addr(c)].ready \in Seq(Reply)
        BY <1>1, Places
      <4>2. ASSUME Len(queue[Addr(c)].ready) # 0 PROVE FALSE
        <5>1. 1 \in 1 .. Len(queue[Addr(c)].ready)
          BY <4>1, <4>2, LenProperties
        <5>2. queue[Addr(c)].ready[1] \in Range(queue[Addr(c)].ready)
          BY <4>1, <5>1, RangeEquality
        <5> QED BY <3>2, <5>2
      <4> QED BY <4>1, <4>2, EmptySeq
    <3>4. consumer[c].held = <<>>
      BY <1>2 DEF Typed, HeldOK
    <3>5. Got(c)' = 0 /\ Taken(c)' = 0 /\ Sent(c)' = 0
      <4>1. /\ call'[c].got = <<>> /\ consumer'[c].held = <<>>
            /\ queue'[Addr(c)'].ready = <<>> /\ Len(<<>>) = 0
        BY <1>1, <1>2, <3>3, <3>4
      <4>2. Got(c)' = 0
        BY <4>1 DEF Got
      <4>3. Taken(c)' = 0
        BY <4>1, <4>2 DEF Taken
      <4> QED BY <4>1, <4>2, <4>3 DEF Sent
    <3>6. ~(dbd.pc = "reply" /\ Asking = c)'
      BY <1>1, <1>2, <1>3 DEF InFlight, Asking
    <3> QED BY <1>1, <1>2, <3>3, <3>5, <3>6 DEF InOrder
  <2> QED BY <2>1, <2>2 DEF OwnInOrder
<1>10. Finished'
  BY <1>1, DoneFrame DEF Inv, Finished
<1>11. Limited'
  BY <1>1 DEF Inv, Limited
<1> QED BY <1>5, <1>6, <1>7, <1>8, <1>9, <1>10, <1>11 DEF Inv

LEMMA AttachInv ==
    ASSUME Typed, Inv, NEW c \in Calls, Quiet(c), Attach(c)
    PROVE  Inv'
<1>1. PICK pc \in {"loop", "refused"} :
         /\ ConsumerGoTo(c, pc)
         /\ IF pc = "loop"
            THEN /\ queue[Addr(c)].declared /\ queue[Addr(c)].owner = NoCall
                 /\ queue' = [queue EXCEPT ![Addr(c)].owner = c]
            ELSE UNCHANGED queue
  BY DEF Attach
<1>2. /\ consumer[c].pc = "start" /\ consumer'[c].pc = pc
      /\ consumer'[c].held = consumer[c].held
      /\ \A d \in Calls \ {c} : consumer'[d] = consumer[d]
      /\ UNCHANGED <<call, requests, dbd, found, crowded>>
      /\ \A d \in Calls : /\ Addr(d)' = Addr(d) /\ Addr(d) \in Addrs
                          /\ Quiet(d)' = Quiet(d)
  BY <1>1, ConsumerGoToLemma, Places DEF Attach, Typed, Addr, Quiet
<1>3. InStepAt(c)'
  BY <1>2 DEF Inv, InStep, InStepAt
<1>4. CASE pc = "refused"
  <2>1. ~Attached(c) /\ ~Attached(c)'
    BY <1>2, <1>4 DEF Attached
  <2>2. ~Own(c)'
    BY <1>1, <1>2, <1>4, <2>1, Parts DEF Own, Inv, Steady, OwnedQueue, Typed
  <2>3. /\ c \in Range(requests.ready) => call'[c].pc = "receive"
        /\ InFlight(c) => \/ call'[c].pc = "receive"
                          \/ Over(c)' /\ queue[Addr(c)].owner = c
    BY <1>2 DEF Inv, Waiters, Flight, Over
  <2>4. call'[c].pc \in {"drain", "join", "ok"} => DoneAt(c)'
    BY <1>2, DoneFrame DEF Inv, Finished
  <2>5. Steady'
    BY AttachSteady DEF Inv
  <2> QED BY <1>1, <1>2, <1>3, <1>4, <2>2, <2>3, <2>4, <2>5, LocalStep
<1>5. CASE pc = "loop"
  <2>1. \A a \in Addrs : /\ queue'[a].ready = queue[a].ready
                         /\ queue'[a].declared = queue[a].declared
                         /\ a # Addr(c) => queue'[a] = queue[a]
                         /\ a = Addr(c) => queue'[a].owner = c
    BY <1>1, <1>5 DEF Typed, TypeOK, Queue
  <2>2. queue[Addr(c)].owner = NoCall /\ queue[Addr(c)].declared
    BY <1>1, <1>5
  <2>3. Steady'
    BY AttachSteady DEF Inv
  <2>4. InStep'
    BY <1>2, <1>3 DEF Inv, InStep, InStepAt
  <2>5. Waiters'
    <3>1. \A i \in DOMAIN requests.ready : requests.ready[i] \in Range(requests.ready)
      BY DEF Range
    <3> QED BY <1>2, <3>1, Places DEF Inv, Waiters
  <2>6. Flight'
    <3> SUFFICES ASSUME NEW d \in Calls, Quiet(d)', InFlight(d)'
                 PROVE  (call[d].pc = "receive"
                         \/ (Over(d) /\ queue[Addr(d)].owner = d))'
      BY DEF Flight
    <3>1. InFlight(d)
      BY <1>2, <2>1 DEF InFlight, Asking
    <3>2. CASE Addr(d) = Addr(c)
      BY <1>2, <2>2, <3>1, <3>2, Parts DEF Inv, Flight, Typed
    <3>3. CASE Addr(d) # Addr(c)
      BY <1>2, <2>1, <3>1, <3>3 DEF Inv, Flight, Over
    <3> QED BY <3>2, <3>3
  <2>7. OwnInOrder'
    <3>1. ASSUME NEW d \in Calls, d # c, Quiet(d)', Own(d)' PROVE InOrder(d)'
      <4>1. Addr(d) # Addr(c)
        BY <1>2, <2>1, <3>1, Parts DEF Own, Typed
      <4>2. Own(d) /\ InOrder(d)
        BY <1>2, <2>1, <3>1, <4>1 DEF Own, Inv, OwnInOrder
      <4> QED BY <1>2, <2>1, <3>1, <4>1, <4>2, OrderFrame
    <3>2. ASSUME Own(c)' PROVE InOrder(c)'
      <4>1. Own(c) /\ InOrder(c)
        BY <1>2, <2>2, <3>2 DEF Own, Inv, OwnInOrder
      <4>2. /\ Got(c)' = Got(c) /\ Taken(c)' = Taken(c) /\ Sent(c)' = Sent(c)
            /\ Count(c)' = Count(c) /\ Asking' = Asking
            /\ \A k : Item(c, k)' = Item(c, k) /\ Msg(c, k)' = Msg(c, k)
        BY <1>2, <2>1 DEF Got, Taken, Sent, Count, Item, Msg, Asking
      <4> QED BY <1>2, <1>5, <2>1, <4>1, <4>2 DEF InOrder
    <3> QED BY <3>1, <3>2 DEF OwnInOrder
  <2>8. Finished'
    BY <1>2, DoneFrame DEF Inv, Finished
  <2>9. Limited'
    BY <1>2 DEF Inv, Limited
  <2> QED BY <2>3, <2>4, <2>5, <2>6, <2>7, <2>8, <2>9 DEF Inv
<1> QED BY <1>4, <1>5

LEMMA DeliverInv ==
    ASSUME Typed, Inv, NEW c \in Calls, Quiet(c), Deliver(c)
    PROVE  Inv'
<1> DEFINE A == Addr(c)
           q == queue[A].ready
<1>1. /\ consumer[c].pc = "loop"
      /\ consumer'[c] = [pc |-> "send", held |-> <<Head(q)>>]
      /\ \A d \in Calls \ {c} : consumer'[d] = consumer[d]
      /\ queue'[A].ready = Tail(q) /\ q # <<>>
      /\ \A a \in Addrs : /\ queue'[a].owner = queue[a].owner
                          /\ queue'[a].declared = queue[a].declared
                          /\ a # A => queue'[a] = queue[a]
  BY DeliverLemma DEF Deliver
<1>2. /\ UNCHANGED <<call, requests, dbd, found, crowded>>
      /\ \A d \in Calls : /\ Addr(d)' = Addr(d) /\ Addr(d) \in Addrs
                          /\ Quiet(d)' = Quiet(d)
  BY Places DEF Deliver, Addr, Quiet
<1>3. /\ q \in Seq(Reply) /\ Head(q) \in Range(q) /\ Range(q) = {Head(q)} \cup Range(Tail(q))
      /\ Len(q) \in Nat /\ Len(Tail(q)) = Len(q) - 1
      /\ \A i \in 1 .. Len(q) - 1 : Tail(q)[i] = q[i + 1]
      /\ Head(q) = q[1] /\ Len(q) >= 1
  <2>1. q \in Seq(Reply)
    BY <1>2, Places
  <2>2. Len(q) \in Nat \ {0}
    BY <1>1, <2>1, EmptySeq, LenProperties
  <2> QED BY <1>1, <2>1, <2>2, HeadTailRange, HeadTailProperties
<1> HIDE DEF q
<1>4. queue[A].owner = c
  BY <1>1 DEF Inv, Steady, OwnedQueue, Attached
<1>5. call[c].pc # "ask"
  BY <1>3, <1>4, OwnMessages DEF q
<1>6. Steady'
  BY DeliverSteady DEF Inv
<1>7. InStep'
  <2>1. InStepAt(c)'
    BY <1>1, <1>2, <1>5 DEF Inv, InStep, InStepAt
  <2> QED BY <1>1, <1>2, <2>1 DEF Inv, InStep, InStepAt
<1>8. Waiters'
  <2>1. \A i \in DOMAIN requests.ready : requests.ready[i] \in Range(requests.ready)
    BY DEF Range
  <2> QED BY <1>2, <2>1, Places DEF Inv, Waiters
<1>9. Flight'
  <2> SUFFICES ASSUME NEW d \in Calls, Quiet(d)', InFlight(d)'
               PROVE  (call[d].pc = "receive" \/ (Over(d) /\ queue[Addr(d)].owner = d))'
    BY DEF Flight
  <2>1. Range(queue'[Addr(d)].ready) \subseteq Range(queue[Addr(d)].ready)
    BY <1>1, <1>2, <1>3 DEF q
  <2>2. InFlight(d)
    BY <1>2, <2>1 DEF InFlight, Asking
  <2> QED BY <1>1, <1>2, <2>2 DEF Inv, Flight, Over
<1>10. OwnInOrder'
  <2>1. ASSUME NEW d \in Calls, d # c, Quiet(d)', Own(d)' PROVE InOrder(d)'
    <3>1. Addr(d) # A
      BY <1>1, <1>2, <1>4, <2>1, Parts DEF Own, Typed
    <3>2. Own(d) /\ InOrder(d)
      BY <1>1, <1>2, <2>1, <3>1 DEF Own, Inv, OwnInOrder
    <3> QED BY <1>1, <1>2, <2>1, <3>1, <3>2, OrderFrame
  <2>2. ASSUME Own(c)' PROVE InOrder(c)'
    <3>1. Own(c) /\ InOrder(c)
      BY <1>2, <1>4, <2>2 DEF Own, Inv, OwnInOrder
    <3>2. /\ Got(c)' = Got(c) /\ Count(c)' = Count(c) /\ Asking' = Asking
          /\ \A k : Item(c, k)' = Item(c, k) /\ Msg(c, k)' = Msg(c, k)
      BY <1>2 DEF Got, Count, Item, Msg, Asking
    <3>3. /\ Got(c) \in Nat /\ Taken(c) = Got(c) /\ Sent(c) = Taken(c) + Len(q)
      BY <1>1, CountLemma DEF q
    <3>4. Taken(c)' = Taken(c) + 1
      <4>1. Len(consumer'[c].held) = 1
        BY <1>1
      <4> QED BY <3>2, <3>3, <4>1 DEF Taken
    <3>5. queue'[Addr(c)'].ready = Tail(q) /\ Sent(c)' = Sent(c)
      <4>1. queue'[Addr(c)'].ready = Tail(q)
        BY <1>1, <1>2
      <4>2. Sent(c)' = Taken(c)' + Len(Tail(q))
        BY <4>1 DEF Sent
      <4> QED BY <1>2, <1>3, <3>3, <3>4, <4>1, <4>2
    <3>6. Held(c)' = Msg(c, Taken(c) + 1)
      <4>1. Held(c)' = q[1]
        BY <1>1, <1>3 DEF Held
      <4> QED BY <1>3, <3>1, <4>1 DEF InOrder, q
    <3>7. \A i \in 1 .. Len(Tail(q)) : Tail(q)[i] = Msg(c, Taken(c) + 1 + i)
      <4> SUFFICES ASSUME NEW i \in 1 .. Len(Tail(q))
                   PROVE  Tail(q)[i] = Msg(c, Taken(c) + 1 + i)
        OBVIOUS
      <4>1. /\ i \in 1 .. Len(q) - 1 /\ i + 1 \in 1 .. Len(q)
            /\ Taken(c) + (i + 1) = Taken(c) + 1 + i
        BY <1>3, <3>3
      <4>2. q[i + 1] = Msg(c, Taken(c) + (i + 1))
        BY <3>1, <4>1 DEF InOrder, q
      <4> QED BY <1>3, <4>1, <4>2
    <3>8. consumer'[c].pc = "send" /\ found[c] # Unread
      BY <1>1, <1>3, <3>1, <3>3 DEF InOrder
    <3>9. /\ Got(c) < Count(c) /\ Sent(c) <= Count(c)
          /\ dbd.pc = "reply" /\ Asking = c => dbd.sent = Sent(c) /\ Sent(c) < Count(c)
          /\ \A i \in 1 .. Got(c) : call[c].got[i] = Item(c, i)
      BY <1>1, <3>1, <3>8 DEF InOrder
    <3> QED BY <1>2, <3>2, <3>4, <3>5, <3>6, <3>7, <3>8, <3>9 DEF InOrder
  <2> QED BY <2>1, <2>2 DEF OwnInOrder
<1>11. Finished'
  BY <1>2, DoneFrame DEF Inv, Finished
<1>12. Limited'
  BY <1>2 DEF Inv, Limited
<1> QED BY <1>6, <1>7, <1>8, <1>9, <1>10, <1>11, <1>12 DEF Inv

LEMMA CloseInv ==
    ASSUME Typed, Inv, NEW c \in Calls, Quiet(c), Close(c)
    PROVE  Inv'
<1> DEFINE A == Addr(c)
<1>1. /\ consumer[c].pc = "close" /\ consumer'[c].pc = "ended"
      /\ consumer'[c].held = consumer[c].held
      /\ \A d \in Calls \ {c} : consumer'[d] = consumer[d]
      /\ UNCHANGED <<call, requests, dbd, found, crowded>>
      /\ \A d \in Calls : /\ Addr(d)' = Addr(d) /\ Addr(d) \in Addrs
                          /\ Quiet(d)' = Quiet(d)
      /\ A \in Addrs
  BY ConsumerGoToLemma, Places DEF Close, Typed, Addr, Quiet
<1>2. queue'[A] = NoQueue /\ \A a \in Addrs \ {A} : queue'[a] = queue[a]
  BY <1>1 DEF Close, Typed, TypeOK
<1>3. call[c].pc = "join" /\ queue[A].owner = c
  BY <1>1 DEF Inv, Steady, Joins, JoinsAt, OwnedQueue, Attached
<1>4. \A d \in Calls : d # c /\ Addr(d) = A => ~Active(d) /\ ~Attached(d)
  BY <1>3 DEF Inv, Steady, Alone, OwnedQueue, Active, Quiet
<1>5. Steady'
  BY CloseSteady DEF Inv
<1>6. InStep'
  <2>1. InStepAt(c)'
    BY <1>1, <1>3 DEF InStepAt
  <2> QED BY <1>1, <2>1 DEF Inv, InStep, InStepAt
<1>7. Range(queue'[A].ready) = {}
  BY <1>2, EmptyRange DEF NoQueue
<1>8. Waiters'
  <2>1. \A i \in DOMAIN requests.ready : requests.ready[i] \in Range(requests.ready)
    BY DEF Range
  <2> QED BY <1>1, <2>1, Places DEF Inv, Waiters
<1>9. Flight'
  <2> SUFFICES ASSUME NEW d \in Calls, Quiet(d)', InFlight(d)'
               PROVE  (call[d].pc = "receive" \/ (Over(d) /\ queue[Addr(d)].owner = d))'
    BY DEF Flight
  <2>1. InFlight(d)
    BY <1>1, <1>2, <1>7 DEF InFlight, Asking
  <2>2. Addr(d) # A
    BY <1>1, <1>3, <1>4, <2>1 DEF Inv, Flight, Over, Returned, Active
  <2> QED BY <1>1, <1>2, <2>1, <2>2 DEF Inv, Flight, Over
<1>10. OwnInOrder'
  <2> SUFFICES ASSUME NEW d \in Calls, Quiet(d)', Own(d)' PROVE InOrder(d)'
    BY DEF OwnInOrder
  <2>1. Addr(d) # A
    BY <1>1, <1>3, <1>4 DEF Own, Active
  <2>2. d # c /\ Own(d) /\ InOrder(d)
    BY <1>1, <1>2, <2>1 DEF Own, Inv, OwnInOrder
  <2> QED BY <1>1, <1>2, <2>1, <2>2, OrderFrame
<1>11. Finished'
  BY <1>1, DoneFrame DEF Inv, Finished
<1>12. Limited'
  BY <1>1 DEF Inv, Limited
<1> QED BY <1>5, <1>6, <1>8, <1>9, <1>10, <1>11, <1>12 DEF Inv

(* A step of dbd that leaves methods, goroutines and reply queues alone.   *)
LEMMA DbdStep ==
    ASSUME Typed, Inv, UNCHANGED <<call, consumer, queue, crowded>>, Steady',
           Waiters', Flight', OwnInOrder', Limited',
           \A c \in Calls :
              Quiet(c) /\ call[c].pc # "receive" => found'[c] = found[c]
    PROVE  Inv'
<1>1. \A c \in Calls : Addr(c)' = Addr(c) /\ Quiet(c)' = Quiet(c)
  BY DEF Addr, Quiet
<1>2. InStep'
  BY <1>1 DEF Inv, InStep, InStepAt
<1>3. Finished'
  BY <1>1, DoneFrame DEF Inv, Finished
<1> QED BY <1>2, <1>3 DEF Inv

(* Taking a request leaves each of the others queued once, as before. *)
LEMMA TakenRequest ==
    ASSUME Typed, Inv, requests.ready # <<>>, requests'.ready = Tail(requests.ready)
    PROVE  /\ Head(requests.ready) \in Range(requests.ready)
           /\ Range(requests'.ready) \subseteq Range(requests.ready)
           /\ Quiet(Head(requests.ready)) => Head(requests.ready) \notin Range(requests'.ready)
           /\ \A i, j \in DOMAIN requests'.ready :
                 requests'.ready[i] = requests'.ready[j] /\ Quiet(requests'.ready[i])
                     => i = j
<1> DEFINE s == requests.ready
           n == Len(s)
<1>1. s \in Seq(Calls) /\ s # <<>> /\ n \in Nat \ {0}
  BY QueueParts, EmptySeq, LenProperties DEF Typed, TypeOK
<1>2. /\ Range(s) = {Head(s)} \cup Range(Tail(s))
      /\ Head(s) = s[1] /\ Tail(s) \in Seq(Calls) /\ Len(Tail(s)) = n - 1
      /\ \A i \in 1 .. n - 1 : Tail(s)[i] = s[i + 1]
  BY <1>1, HeadTailRange, HeadTailProperties
<1>3. DOMAIN s = 1 .. n /\ DOMAIN Tail(s) = 1 .. n - 1
  BY <1>1, <1>2, LenProperties
<1>4. \A i, j \in 1 .. n : s[i] = s[j] /\ Quiet(s[i]) => i = j
  BY <1>3 DEF Inv, Waiters
<1> HIDE DEF s, n
<1>5. \A i \in 1 .. n - 1 : i + 1 \in 1 .. n /\ i + 1 # 1 /\ 1 \in 1 .. n
  BY <1>1
<1>6. Quiet(Head(s)) => \A i \in 1 .. n - 1 : Tail(s)[i] # Head(s)
  BY <1>2, <1>4, <1>5
<1>7. Quiet(Head(s)) => Head(s) \notin Range(Tail(s))
  BY <1>3, <1>6 DEF Range
<1>8. \A i, j \in 1 .. n - 1 : Tail(s)[i] = Tail(s)[j] /\ Quiet(Tail(s)[i]) => i = j
  <2> SUFFICES ASSUME NEW i \in 1 .. n - 1, NEW j \in 1 .. n - 1,
                      Tail(s)[i] = Tail(s)[j], Quiet(Tail(s)[i])
               PROVE  i = j
    OBVIOUS
  <2>1. i + 1 = j + 1
    BY <1>2, <1>4, <1>5
  <2> QED BY <1>1, <2>1
<1> QED BY <1>2, <1>3, <1>7, <1>8 DEF s

LEMMA QueryInv ==
    ASSUME Typed, Inv, Query, Quiet(Head(requests.ready))
    PROVE  Inv'
<1>1. PICK c \in Calls, n \in 0 .. MaxRecords :
         /\ c = Head(requests.ready) /\ requests.ready # <<>>
         /\ n <= Limit(c)
         /\ found' = [found EXCEPT ![c] = n]
         /\ requests'.ready = Tail(requests.ready)
         /\ requests'.current = <<c>>
         /\ dbd' = [pc |-> "reply", sent |-> 0]
         /\ UNCHANGED <<call, consumer, queue, faults, crowded>>
  BY QueryLemma
<1>2. dbd.pc = "idle" /\ Asking' = c
  BY <1>1 DEF Query, Asking
<1>3. /\ c \in Range(requests.ready) /\ c \notin Range(requests'.ready)
      /\ Range(requests'.ready) \subseteq Range(requests.ready)
      /\ \A i, j \in DOMAIN requests'.ready :
            requests'.ready[i] = requests'.ready[j] /\ Quiet(requests'.ready[i]) => i = j
  BY <1>1, TakenRequest
<1>4. call[c].pc = "receive" /\ found[c] = Unread /\ Quiet(c)
  BY <1>1, <1>3 DEF Inv, Waiters
<1>5. /\ found'[c] = n /\ \A d \in Calls \ {c} : found'[d] = found[d]
      /\ n \in Nat /\ n # Unread
  BY <1>1, Parts DEF Typed, TypeOK
<1>6. \A d \in Calls : Addr(d)' = Addr(d) /\ Quiet(d)' = Quiet(d)
  BY <1>1 DEF Addr, Quiet
<1>7. Waiters'
  <2>1. \A i \in DOMAIN requests'.ready : requests'.ready[i] \in Range(requests'.ready)
    BY DEF Range
  <2> QED BY <1>1, <1>3, <1>5, <1>6, <2>1, Places DEF Inv, Waiters
<1>8. Flight'
  <2> SUFFICES ASSUME NEW d \in Calls, Quiet(d)', InFlight(d)', d # c
               PROVE  call[d].pc = "receive" \/ (Over(d) /\ queue[Addr(d)].owner = d)
    BY <1>1, <1>4, <1>6 DEF Flight, Over
  <2>1. InFlight(d)
    BY <1>1, <1>2, <1>6 DEF InFlight
  <2> QED BY <1>6, <2>1 DEF Inv, Flight
<1>9. OwnInOrder'
  <2>1. ASSUME NEW d \in Calls, d # c, Quiet(d)', Own(d)' PROVE InOrder(d)'
    <3>1. Own(d) /\ InOrder(d)
      BY <1>1, <1>6, <2>1 DEF Own, Inv, OwnInOrder
    <3>2. ~(dbd.pc = "reply" /\ Asking = d)'
      BY <1>2, <2>1
    <3> QED BY <1>1, <1>5, <2>1, <3>1, <3>2, OrderFrame
  <2>2. ASSUME Own(c)' PROVE InOrder(c)'
    <3>1. InOrder(c)
      BY <1>1, <1>4, <1>6, <2>2 DEF Own, Inv, OwnInOrder
    <3>2. Sent(c) = 0 /\ consumer[c].pc # "signal"
      BY <1>4, <3>1 DEF InOrder
    <3>3. /\ Got(c) = 0 /\ Taken(c) = 0 /\ Len(queue[Addr(c)].ready) = 0
          /\ consumer[c].pc # "send"
      <4>1. /\ Got(c) \in Nat /\ Len(consumer[c].held) \in Nat
            /\ Len(queue[Addr(c)].ready) \in Nat
            /\ Taken(c) = Got(c) + Len(consumer[c].held)
            /\ Sent(c) = Taken(c) + Len(queue[Addr(c)].ready)
            /\ consumer[c].pc = "send" => Len(consumer[c].held) = 1
        BY CountLemma
      <4>2. /\ Got(c) = 0 /\ Len(consumer[c].held) = 0
            /\ Len(queue[Addr(c)].ready) = 0 /\ Taken(c) = 0
        BY <3>2, <4>1
      <4> QED BY <4>1, <4>2
    <3>4. /\ Got(c)' = Got(c) /\ Taken(c)' = Taken(c) /\ Sent(c)' = Sent(c)
      BY <1>1, <1>6 DEF Got, Taken, Sent
    <3>5. Count(c)' \in Nat \ {0}
      BY <1>5 DEF Count
    <3>6. Got(c)' = 0 /\ Taken(c)' = 0 /\ Sent(c)' = 0
      BY <3>2, <3>3, <3>4
    <3>7. /\ consumer'[c].pc \notin {"send", "signal"} /\ dbd'.sent = 0
          /\ Len(queue'[Addr(c)'].ready) = 0 /\ found'[c] # Unread
      BY <1>1, <1>5, <1>6, <3>2, <3>3
    <3> QED BY <3>5, <3>6, <3>7 DEF InOrder
  <2> QED BY <2>1, <2>2 DEF OwnInOrder
<1>10. Limited'
  BY <1>1, <1>5 DEF Inv, Limited, Limit
<1>11. Steady'
  BY DbdSteady DEF Inv, DbdNext
<1> QED BY <1>1, <1>4, <1>5, <1>7, <1>8, <1>9, <1>10, <1>11, DbdStep

LEMMA RequestsInv ==
    ASSUME Typed, Inv, QueryFails \/ SendReplyFails \/ Finish
    PROVE  Inv'
<1>1. /\ dbd'.pc = "idle"
      /\ IF QueryFails
         THEN requests.ready # <<>> /\ requests'.ready = Tail(requests.ready)
         ELSE requests'.ready = requests.ready
      /\ UNCHANGED <<call, consumer, queue, found, crowded>>
      /\ \A d \in Calls : Addr(d)' = Addr(d) /\ Quiet(d)' = Quiet(d)
  BY RequestsLemma DEF Addr, Quiet
<1>2. Waiters'
  <2>1. /\ Range(requests'.ready) \subseteq Range(requests.ready)
        /\ \A i, j \in DOMAIN requests'.ready :
              requests'.ready[i] = requests'.ready[j] /\ Quiet(requests'.ready[i])
                  => i = j
    <3>1. CASE QueryFails
      BY <1>1, <3>1, TakenRequest
    <3>2. CASE ~QueryFails
      BY <1>1, <3>2 DEF Inv, Waiters
    <3> QED BY <3>1, <3>2
  <2>2. \A i \in DOMAIN requests'.ready : requests'.ready[i] \in Range(requests'.ready)
    BY DEF Range
  <2> QED BY <1>1, <2>1, <2>2, Places DEF Inv, Waiters
<1>3. Flight'
  BY <1>1 DEF Inv, Flight, InFlight, Over
<1>4. OwnInOrder'
  <2> SUFFICES ASSUME NEW d \in Calls, Quiet(d)', Own(d)' PROVE InOrder(d)'
    BY DEF OwnInOrder
  <2>1. Own(d) /\ InOrder(d)
    BY <1>1 DEF Own, Inv, OwnInOrder
  <2>2. ~(dbd.pc = "reply" /\ Asking = d)'
    BY <1>1
  <2> QED BY <1>1, <2>1, <2>2, OrderFrame
<1>5. Limited'
  BY <1>1 DEF Inv, Limited
<1>6. Steady'
  BY DbdSteady DEF Inv, DbdNext
<1> QED BY <1>1, <1>2, <1>3, <1>4, <1>5, <1>6, DbdStep

LEMMA SendReplyInv ==
    ASSUME Typed, Inv, SendReply, Quiet(Asking)
    PROVE  Inv'
<1>0. Asking \in Calls /\ Asking' = Asking
  BY AskingLemma, SendReplyLemma DEF SendReply, Asking
<1> PICK c \in Calls : c = Asking
  BY <1>0
<1> DEFINE A == Addr(c)
           q == queue[A].ready
<1>1. /\ Answer \in Reply
      /\ IF Next1 = Count(c) THEN dbd'.pc = "ack"
         ELSE dbd'.pc = "reply" /\ dbd'.sent = Next1 /\ Next1 < Count(c)
      /\ \A a \in Addrs :
            /\ queue'[a].owner = queue[a].owner
            /\ queue'[a].declared = queue[a].declared
            /\ queue'[a].ready = IF a = A /\ queue[a].declared
                                 THEN Append(queue[a].ready, Answer) ELSE queue[a].ready
            /\ a # A => queue'[a] = queue[a]
            /\ ~queue[a].declared => queue'[a] = queue[a]
      /\ UNCHANGED <<call, consumer, requests, found, faults, crowded>>
  BY SendReplyLemma
<1>2. /\ c \in Calls /\ dbd.pc = "reply" /\ Asking' = c
      /\ found[c] # Unread /\ found[c] \in Nat
      /\ A \in Addrs /\ q \in Seq(Reply)
      /\ \A d \in Calls : /\ Addr(d)' = Addr(d) /\ Addr(d) \in Addrs
                          /\ Quiet(d)' = Quiet(d)
  <2>1. dbd.pc = "reply" /\ Asking' = c
    BY <1>0 DEF SendReply
  <2>2. found[c] # Unread /\ found[c] \in Nat
    BY <2>1, CountLemma DEF DbdOK, Typed
  <2>3. \A d \in Calls : /\ Addr(d)' = Addr(d) /\ Addr(d) \in Addrs
                          /\ Quiet(d)' = Quiet(d)
    BY <1>1, Places DEF Addr, Quiet
  <2>4. A \in Addrs /\ q \in Seq(Reply)
    BY <2>3, Places
  <2> QED BY <2>1, <2>2, <2>3, <2>4
<1>3. InFlight(c) /\ Answer.call = c
  BY <1>2 DEF InFlight, Answer
<1>4. Range(Append(q, Answer)) = Range(q) \cup {Answer}
  BY <1>1, <1>2, AppendRange
<1>5. \A a \in Addrs : \A m \in Range(queue'[a].ready) :
         m \in Range(queue[a].ready) \/ (a = A /\ m = Answer)
  BY <1>1, <1>4
<1>6. Steady'
  BY DbdSteady DEF Inv, DbdNext
<1>7. InStep'
  BY <1>1, <1>2 DEF Inv, InStep, InStepAt
<1>8. Waiters'
  <2>1. \A i \in DOMAIN requests.ready : requests.ready[i] \in Range(requests.ready)
    BY DEF Range
  <2> QED BY <1>1, <1>2, <2>1, Places DEF Inv, Waiters
<1>9. Flight'
  <2> SUFFICES ASSUME NEW d \in Calls, Quiet(d)', InFlight(d)'
               PROVE  (call[d].pc = "receive" \/ (Over(d) /\ queue[Addr(d)].owner = d))'
    BY DEF Flight
  <2>1. InFlight(d)
    <3>1. CASE d = c
      BY <1>3, <3>1
    <3>2. CASE d # c
      BY <1>2, <1>3, <1>5, <3>2 DEF InFlight
    <3> QED BY <3>1, <3>2
  <2> QED BY <1>1, <1>2, <2>1 DEF Inv, Flight, Over
<1>10. OwnInOrder'
  <2>1. ASSUME NEW d \in Calls, d # c, Quiet(d)', Own(d)' PROVE InOrder(d)'
    <3>1. Own(d)
      BY <1>1, <1>2, <2>1 DEF Own
    <3>2. Addr(d) # A
      <4>1. CASE call[c].pc = "receive"
        BY <1>2, <2>1, <3>1, <4>1 DEF Inv, Steady, Alone, Active, Own, Quiet
      <4>2. CASE Over(c) /\ queue[Addr(c)].owner = c
        <5>1. consumer[d].pc = "start" \/ queue[Addr(d)].owner = d
          BY <3>1 DEF Own
        <5> QED BY <1>2, <2>1, <3>1, <4>2, <5>1, Parts DEF Own, Typed
      <4> QED BY <1>2, <1>3, <4>1, <4>2 DEF Inv, Flight
    <3>3. InOrder(d)
      BY <1>2, <2>1, <3>1 DEF Inv, OwnInOrder
    <3>4. ~(dbd.pc = "reply" /\ Asking = d)'
      BY <1>2, <2>1
    <3> QED BY <1>1, <1>2, <2>1, <3>2, <3>3, <3>4, OrderFrame
  <2>2. ASSUME Own(c)' PROVE InOrder(c)'
    <3>1. Own(c) /\ InOrder(c)
      BY <1>1, <1>2, <2>2 DEF Own, Inv, OwnInOrder
    <3>2. queue[A].declared
      <4>1. CASE queue[A].owner = c
        BY <1>2, <4>1, Parts DEF Inv, Steady, OwnedQueue, NoQueue, Typed
      <4>2. CASE consumer[c].pc = "start"
        BY <1>2, <3>1, <4>2 DEF Inv, Steady, OwnedQueue, Own, Active
      <4> QED BY <3>1, <4>1, <4>2 DEF Own
    <3>3. /\ Got(c)' = Got(c) /\ Taken(c)' = Taken(c) /\ Count(c)' = Count(c)
          /\ \A k : Item(c, k)' = Item(c, k) /\ Msg(c, k)' = Msg(c, k)
          /\ Held(c)' = Held(c)
      BY <1>1 DEF Got, Taken, Count, Item, Msg, Held
    <3>4. /\ Len(q) \in Nat /\ Taken(c) \in Nat /\ Sent(c) = Taken(c) + Len(q)
          /\ Count(c) \in Nat
      BY <1>2, CountLemma
    <3>5. dbd.sent = Sent(c) /\ Sent(c) < Count(c)
      BY <1>2, <3>1 DEF InOrder
    <3>6. Answer = Msg(c, Taken(c) + Len(q) + 1)
      BY <3>4, <3>5 DEF Answer, Next1, Msg
    <3>7. queue'[Addr(c)'].ready = Append(q, Answer)
      BY <1>1, <1>2, <3>2
    <3>8. /\ Len(Append(q, Answer)) = Len(q) + 1
          /\ \A i \in 1 .. Len(q) : Append(q, Answer)[i] = q[i]
          /\ Append(q, Answer)[Len(q) + 1] = Answer
      BY <1>1, <1>2, AppendProperties
    <3>9. Sent(c)' = Sent(c) + 1
      <4>1. Sent(c)' = Taken(c)' + Len(Append(q, Answer))
        BY <3>7 DEF Sent
      <4>2. Sent(c)' = Taken(c) + (Len(q) + 1)
        BY <3>3, <3>8, <4>1
      <4>3. Sent(c) = Taken(c) + Len(q) /\ Taken(c) \in Nat /\ Len(q) \in Nat
        BY <3>4
      <4> HIDE DEF q
      <4> QED BY <4>2, <4>3
    <3>10. \A i \in 1 .. Len(q) + 1 : Append(q, Answer)[i] = Msg(c, Taken(c) + i)
      <4>1. \A i \in 1 .. Len(q) : q[i] = Msg(c, Taken(c) + i)
        BY <3>1 DEF InOrder
      <4>2. \A i \in 1 .. Len(q) + 1 : i \in 1 .. Len(q) \/ i = Len(q) + 1
        <5>1. Len(q) \in Nat
          BY <3>4
        <5> HIDE DEF q
        <5> QED BY <5>1
      <4>3. Taken(c) + Len(q) + 1 = Taken(c) + (Len(q) + 1)
        <5>1. Taken(c) \in Nat /\ Len(q) \in Nat
          BY <3>4
        <5> HIDE DEF q
        <5> QED BY <5>1
      <4> QED BY <3>6, <3>8, <4>1, <4>2, <4>3
    <3>11. Sent(c)' <= Count(c)
      BY <3>4, <3>5, <3>9
    <3>12. dbd'.pc = "reply" => dbd'.sent = Sent(c)' /\ Sent(c)' < Count(c)
      BY <1>1, <3>5, <3>9 DEF Next1
    <3>13. /\ consumer[c].pc = "send" => Held(c) = Msg(c, Taken(c))
           /\ consumer[c].pc = "signal" => Got(c) = Count(c)
           /\ consumer[c].pc # "signal" => Got(c) < Count(c)
           /\ \A i \in 1 .. Got(c) : call[c].got[i] = Item(c, i)
      BY <1>2, <3>1 DEF InOrder
    <3> QED BY <1>1, <1>2, <3>3, <3>7, <3>8, <3>10, <3>11, <3>12, <3>13 DEF InOrder
  <2> QED BY <2>1, <2>2 DEF OwnInOrder
<1>11. Finished'
  BY <1>1, <1>2, DoneFrame DEF Inv, Finished
<1>12. Limited'
  BY <1>1 DEF Inv, Limited
<1> QED BY <1>6, <1>7, <1>8, <1>9, <1>10, <1>11, <1>12 DEF Inv

(* What a method and its goroutine leave alone. *)
LEMMA Footprint ==
    ASSUME Typed, NEW c \in Calls, Handler(c) \/ Goroutine(c)
    PROVE  /\ \A d \in Calls \ {c} : call'[d] = call[d] /\ consumer'[d] = consumer[d]
           /\ call'[c].op = call[c].op /\ call'[c].addr = call[c].addr
           /\ \A a \in Addrs \ {Addr(c)} : queue'[a] = queue[a]
           /\ requests' = requests \/ requests' = Put(requests, c)
           /\ crowded' = crowded \/ crowded' = crowded \cup {Addr(c)}
           /\ UNCHANGED <<dbd, found>>
<1>1. CASE Setup(c)
  <2>1. \A a \in Addrs \ {Addr(c)} : queue'[a] = queue[a]
    BY <1>1 DEF Setup, Typed, TypeOK
  <2>2. /\ \A d \in Calls \ {c} : call'[d] = call[d] /\ consumer'[d] = consumer[d]
        /\ call'[c].op = call[c].op /\ call'[c].addr = call[c].addr
    BY <1>1, GoToLemma, ConsumerGoToLemma DEF Setup, Typed
  <2> QED BY <1>1, <2>1, <2>2 DEF Setup
<1>2. CASE SetupFails(c) \/ Ask(c) \/ AskFails(c) \/ Return(c)
  BY <1>2, GoToLemma DEF SetupFails, Ask, AskFails, Return, Typed, Returned
<1>3. CASE ReceiveOne(c) \/ ReceiveMany(c) \/ SendFails(c)
  <2>1. PICK pc \in {"receive", "drain", "denied", "failed"} :
           Meets(c) /\ HandOver(c, pc)
    BY <1>3 DEF ReceiveOne, ReceiveMany, SendFails
  <2> QED BY <2>1, HandOverLemma DEF Returned
<1>4. CASE Signal(c)
  BY <1>4, GoToLemma, ConsumerGoToLemma DEF Signal, Typed
<1>5. CASE Attach(c)
  <2>1. \A a \in Addrs \ {Addr(c)} : queue'[a] = queue[a]
    BY <1>5 DEF Attach, Typed, TypeOK
  <2>2. \A d \in Calls \ {c} : consumer'[d] = consumer[d]
    BY <1>5, ConsumerGoToLemma DEF Attach, Typed
  <2> QED BY <1>5, <2>1, <2>2 DEF Attach
<1>6. CASE Deliver(c)
  BY <1>6, DeliverLemma DEF Deliver
<1>7. CASE Close(c)
  <2>1. \A a \in Addrs \ {Addr(c)} : queue'[a] = queue[a]
    BY <1>7 DEF Close, Typed, TypeOK
  <2>2. \A d \in Calls \ {c} : consumer'[d] = consumer[d]
    BY <1>7, ConsumerGoToLemma DEF Close, Typed
  <2> QED BY <1>7, <2>1, <2>2 DEF Close
<1> QED BY <1>1, <1>2, <1>3, <1>4, <1>5, <1>6, <1>7 DEF Handler, Goroutine

(* A step that calls from addresses never crowded do not notice.           *)
LEMMA ElsewhereInv ==
    ASSUME Typed, Inv, Steady', Limited',
           \A d \in Calls : Addr(d)' = Addr(d), crowded \subseteq crowded',
           \A d \in Calls :
              Quiet(d)' => /\ call'[d] = call[d] /\ consumer'[d] = consumer[d]
                          /\ found'[d] = found[d]
                          /\ queue'[Addr(d)] = queue[Addr(d)]
                          /\ \/ UNCHANGED <<dbd, requests.current>>
                             \/ ~(dbd.pc = "reply" /\ Asking = d)',
           requests'.ready \in Seq(Calls),
           \A d \in Range(requests'.ready) :
              Quiet(d)' => d \in Range(requests.ready),
           \A i, j \in DOMAIN requests'.ready : \A d \in Calls :
              Quiet(d)' /\ requests'.ready[i] = d /\ requests'.ready[j] = d => i = j
    PROVE  Inv'
<1>0. \A d \in Calls : Quiet(d)' => Quiet(d)
  BY DEF Quiet
<1>1. InStep'
  BY <1>0 DEF Inv, InStep, InStepAt
<1>2. Waiters'
  <2>1. \A d \in Range(requests'.ready) : d \in Calls
    BY RangeOfSeq
  <2>2. \A i \in DOMAIN requests'.ready : requests'.ready[i] \in Calls
    BY <2>1 DEF Range
  <2>3. ASSUME NEW d \in Range(requests'.ready), Quiet(d)'
        PROVE  (call[d].pc = "receive" /\ found[d] = Unread)'
    BY <1>0, <2>1, <2>3 DEF Inv, Waiters
  <2> QED BY <2>2, <2>3 DEF Waiters
<1>3. Flight'
  <2> SUFFICES ASSUME NEW d \in Calls, Quiet(d)', InFlight(d)'
               PROVE  (call[d].pc = "receive" \/ (Over(d) /\ queue[Addr(d)].owner = d))'
    BY DEF Flight
  <2>1. InFlight(d)
    BY DEF InFlight, Asking
  <2> QED BY <1>0, <2>1 DEF Inv, Flight, Over
<1>4. OwnInOrder'
  <2> SUFFICES ASSUME NEW d \in Calls, Quiet(d)', Own(d)' PROVE InOrder(d)'
    BY DEF OwnInOrder
  <2>1. Own(d) /\ InOrder(d)
    BY <1>0 DEF Own, Inv, OwnInOrder
  <2>2. call'[d].addr = call[d].addr
    BY DEF Addr
  <2> QED BY <2>1, <2>2, OrderFrame
<1>5. Finished'
  BY <1>0, DoneFrame DEF Inv, Finished
<1> QED BY <1>1, <1>2, <1>3, <1>4, <1>5 DEF Inv

(* A step of a call whose address is crowded. *)
LEMMA CrowdedInv ==
    ASSUME Typed, Inv, NEW c \in Calls, Handler(c) \/ Goroutine(c), ~Quiet(c)'
    PROVE  Inv'
<1>1. \A d \in Calls : /\ Addr(d)' = Addr(d) /\ Addr(d) \in Addrs
                       /\ call'[d].op = call[d].op /\ found'[d] = found[d]
  BY Footprint, Places DEF Addr
<1>2. \A d \in Calls : Quiet(d)' => Addr(d) # Addr(c) /\ d # c
  BY <1>1 DEF Quiet
<1>3. Steady'
  BY SteadyStep DEF Inv, Next
<1>4. Limited'
  BY <1>1 DEF Inv, Limited
<1>5. /\ requests.ready \in Seq(Calls) /\ requests'.ready \in Seq(Calls)
      /\ requests'.current = requests.current
      /\ requests'.ready = requests.ready \/ requests'.ready = Append(requests.ready, c)
  <2>1. requests.ready \in Seq(Calls) /\ requests \in QueueOf(Calls)
    BY QueueParts DEF Typed, TypeOK
  <2>2. Put(requests, c).ready = Append(requests.ready, c)
        /\ Put(requests, c).current = requests.current
    BY <2>1, QueueParts DEF Put
  <2>3. Append(requests.ready, c) \in Seq(Calls)
    BY <2>1, AppendProperties
  <2> QED BY <2>1, <2>2, <2>3, Footprint
<1>6. ASSUME NEW d \in Range(requests'.ready), Quiet(d)'
      PROVE  d \in Range(requests.ready)
  <2>1. Range(Append(requests.ready, c)) = Range(requests.ready) \cup {c}
    BY <1>5, AppendRange
  <2> QED BY <1>2, <1>5, <1>6, <2>1
<1>7. ASSUME NEW d \in Calls, Quiet(d)',
             NEW i \in DOMAIN requests'.ready, NEW j \in DOMAIN requests'.ready,
             requests'.ready[i] = d, requests'.ready[j] = d
      PROVE  i = j
  <2> DEFINE n == Len(requests.ready)
  <2>1. Quiet(d) /\ d # c
    <3>1. Addr(d)' = Addr(d) /\ crowded \subseteq crowded'
      BY <1>1, Footprint
    <3> QED BY <1>2, <1>7, <3>1 DEF Quiet
  <2>2. CASE requests'.ready = requests.ready
    BY <1>7, <2>1, <2>2 DEF Inv, Waiters
  <2>3. CASE requests'.ready = Append(requests.ready, c)
    <3>1. /\ n \in Nat /\ DOMAIN requests.ready = 1 .. n
          /\ DOMAIN requests'.ready = 1 .. (n + 1)
          /\ \A k \in 1 .. n : requests'.ready[k] = requests.ready[k]
          /\ requests'.ready[n + 1] = c
      BY <1>5, <2>3, AppendProperties, LenProperties
    <3>2. \A k \in 1 .. (n + 1) : k \in 1 .. n \/ k = n + 1
      BY <3>1
    <3> HIDE DEF n
    <3>3. i \in 1 .. n /\ j \in 1 .. n
      BY <1>7, <2>1, <3>1, <3>2
    <3> QED BY <1>7, <2>1, <3>1, <3>3 DEF Inv, Waiters
  <2> QED BY <1>5, <2>2, <2>3
<1> QED BY <1>1, <1>2, <1>3, <1>4, <1>5, <1>6, <1>7, Footprint, ElsewhereInv

(* dbd takes or answers the request of such a call. *)
LEMMA CrowdedDbdInv ==
    ASSUME Typed, Inv,
           \/ Query /\ ~Quiet(Head(requests.ready))
           \/ SendReply /\ ~Quiet(Asking)
    PROVE  Inv'
<1>1. Steady'
  BY DbdSteady DEF Inv, DbdNext
<1>2. CASE Query
  <2>1. PICK c \in Calls, n \in 0 .. MaxRecords :
           /\ c = Head(requests.ready) /\ requests.ready # <<>>
           /\ n <= Limit(c)
           /\ found' = [found EXCEPT ![c] = n]
           /\ requests' \in QueueOf(Calls)
           /\ requests'.ready = Tail(requests.ready)
           /\ requests'.current = <<c>>
           /\ UNCHANGED <<call, consumer, queue, crowded>>
    BY <1>2, QueryLemma
  <2>2. ~Quiet(c) /\ Asking' = c
    BY <1>2, <2>1 DEF Query, SendReply, Asking
  <2>3. \A d \in Calls : Addr(d)' = Addr(d) /\ Quiet(d)' = Quiet(d)
    BY <2>1 DEF Addr, Quiet
  <2>4. found'[c] = n /\ \A d \in Calls \ {c} : found'[d] = found[d]
    BY <2>1 DEF Typed, TypeOK
  <2>5. Limited'
    BY <2>1, <2>4, Parts DEF Inv, Limited, Limit, Typed
  <2>6. /\ Range(requests'.ready) \subseteq Range(requests.ready)
        /\ \A i, j \in DOMAIN requests'.ready :
              requests'.ready[i] = requests'.ready[j] /\ Quiet(requests'.ready[i])
                  => i = j
    BY <2>1, TakenRequest
  <2>7. requests'.ready \in Seq(Calls)
    BY <2>1, QueueParts
  <2>8. \A d \in Calls : Quiet(d)' => found'[d] = found[d] /\ Asking' # d
    BY <2>2, <2>3, <2>4
  <2> QED BY <1>1, <2>1, <2>3, <2>5, <2>6, <2>7, <2>8, ElsewhereInv
<1>3. CASE SendReply /\ ~Quiet(Asking)
  <2>1. /\ UNCHANGED <<call, consumer, requests, found, crowded>>
        /\ \A a \in Addrs : a # Addr(Asking) => queue'[a] = queue[a]
    BY <1>3, SendReplyLemma
  <2>2. Asking' = Asking /\ Asking \in Calls
    BY <1>3, <2>1, AskingLemma DEF SendReply, Asking
  <2>3. \A d \in Calls : /\ Addr(d)' = Addr(d) /\ Quiet(d)' = Quiet(d)
                         /\ Addr(d) \in Addrs
    BY <2>1, Places DEF Addr, Quiet
  <2>4. \A d \in Calls : Quiet(d)' => Addr(d) # Addr(Asking) /\ d # Asking
    BY <1>3, <2>2, <2>3 DEF Quiet
  <2>5. Limited'
    BY <2>1 DEF Inv, Limited
  <2>6. requests.ready \in Seq(Calls)
    BY QueueParts DEF Typed, TypeOK
  <2>7. \A i, j \in DOMAIN requests'.ready : \A d \in Calls :
           Quiet(d)' /\ requests'.ready[i] = d /\ requests'.ready[j] = d => i = j
    BY <2>1, <2>3 DEF Inv, Waiters
  <2> QED BY <1>1, <2>1, <2>2, <2>3, <2>4, <2>5, <2>6, <2>7, ElsewhereInv
<1> QED BY <1>2, <1>3
-----------------------------------------------------------------------------
LEMMA InitInv == Init => Inv
<1> SUFFICES ASSUME Init PROVE Inv
  OBVIOUS
<1>1. /\ \A c \in Calls : call[c].pc = "idle" /\ call[c].got = <<>>
      /\ \A c \in Calls : consumer[c].pc = "none" /\ found[c] = Unread
      /\ \A c \in Calls : Addr(c) \in Addrs
      /\ \A a \in Addrs : queue[a] = NoQueue
      /\ requests.ready = <<>> /\ dbd.pc = "idle"
  BY DEF Init, NoConsumer, EmptyQueue, DbdIdle, Addr
<1>2. NoQueue.ready = <<>> /\ Range(<<>>) = {}
  BY EmptyRange DEF NoQueue
<1>3. InStep /\ Finished /\ OwnInOrder
  BY <1>1 DEF InStep, InStepAt, Finished, OwnInOrder, Own
<1>4. Steady
  BY InitSteady
<1>5. Waiters /\ Flight
  BY <1>1, <1>2, EmptySeq DEF Waiters, Flight, InFlight
<1>6. Limited
  BY <1>1 DEF Limited, Unread
<1> QED BY <1>3, <1>4, <1>5, <1>6 DEF Inv

LEMMA StepInv ==
    ASSUME NoCrash, Typed, Inv, [Next]_vars
    PROVE  Inv'
<1>1. CASE DbdNext
  <2>1. ~DbdCrash
    BY FaultLemma DEF NoCrash, DbdCrash, Typed
  <2> QED BY <1>1, <2>1, QueryInv, RequestsInv, SendReplyInv, CrowdedDbdInv
          DEF DbdNext
<1>2. ASSUME NEW c \in Calls, Handler(c) \/ Goroutine(c) PROVE Inv'
  <2>1. CASE ~Quiet(c)'
    BY <1>2, <2>1, CrowdedInv
  <2>2. CASE Quiet(c)'
    <3>1. Quiet(c)
      <4>1. Addr(c)' = Addr(c) /\ crowded \subseteq crowded'
        BY <1>2, Footprint DEF Addr
      <4> QED BY <2>2, <4>1 DEF Quiet
    <3>2. CASE Handler(c)
      BY <2>2, <3>1, <3>2, SetupInv, AskInv, EarlyInv, ReturnInv DEF Handler
    <3>3. CASE Goroutine(c)
      BY <3>1, <3>3, AttachInv, DeliverInv, ReceiveInv, SignalInv, CloseInv
         DEF Goroutine
    <3> QED BY <1>2, <3>2, <3>3
  <2> QED BY <2>1, <2>2
<1>3. CASE UNCHANGED vars
  <2>1. UNCHANGED <<call, consumer, queue, requests, dbd, found, crowded>>
    BY <1>3 DEF vars
  <2>2. Steady' /\ Limited'
    BY <2>1, SteadyStep DEF Inv, Limited
  <2>3. \A d \in Calls : Addr(d)' = Addr(d) /\ Quiet(d)' = Quiet(d)
    BY <2>1 DEF Addr, Quiet
  <2>4. requests.ready \in Seq(Calls)
    BY QueueParts DEF Typed, TypeOK
  <2>5. \A i, j \in DOMAIN requests'.ready : \A d \in Calls :
           Quiet(d)' /\ requests'.ready[i] = d /\ requests'.ready[j] = d => i = j
    BY <2>1, <2>3 DEF Inv, Waiters
  <2> QED BY <2>1, <2>2, <2>3, <2>4, <2>5, ElsewhereInv
<1> QED BY <1>1, <1>2, <1>3 DEF Next

THEOREM AlwaysInv == ASSUME NoCrash PROVE Spec => [](Typed /\ Inv)
<1>1. Init => Typed /\ Inv
  BY InitTyped, InitInv
<1>2. Typed /\ [Next]_vars => Typed'
  <2>1. ASSUME Typed, UNCHANGED vars PROVE TypeOK' /\ HeldOK' /\ DbdOK'
    BY <2>1 DEF vars, Typed, TypeOK, HeldOK, DbdOK, Asking, Count
  <2> QED BY <2>1, HandlerTyped, GoroutineTyped, DbdTyped, IdleStep DEF Next, Typed
<1>3. Typed /\ Inv /\ [Next]_vars => Inv'
  BY StepInv
<1> QED BY <1>1, <1>2, <1>3, PTL DEF Spec

(* No method is handed the answer to another call, although calls from one *)
(* address share the name of their queue and leave answers behind in it,   *)
(* as long as no two of them are under way at once.                        *)
THEOREM OwnRepliesHolds == ASSUME NoCrash PROVE Spec => []OwnReplies
<1>1. Typed /\ Inv => OwnReplies
  <2> SUFFICES ASSUME Typed, Inv, NEW c \in Calls, Quiet(c), call[c].pc = "receive",
                      NEW m \in Range(consumer[c].held)
               PROVE  m.call = c
    BY DEF OwnReplies
  <2>1. consumer[c].pc = "send"
    BY EmptyRange DEF Typed, HeldOK
  <2>2. InOrder(c)
    BY <2>1, OwnOwner DEF Attached
  <2>3. consumer[c].held \in Seq(Reply) /\ Len(consumer[c].held) = 1
    BY <2>1, Parts DEF Typed, HeldOK
  <2>4. m = Held(c)
    BY <2>3 DEF Range, Held
  <2> QED BY <2>1, <2>2, <2>4 DEF InOrder, Msg
<1> QED BY <1>1, AlwaysInv, PTL

(* A method that succeeded delivered every record that dbd found for it,   *)
(* once and in order, whatever other calls and failures came between,      *)
(* unless another call from its address was made while one was under way.  *)
THEOREM CompleteHolds == ASSUME NoCrash PROVE Spec => []Complete
<1>1. Typed /\ Inv => Complete
  <2> SUFFICES ASSUME Typed, Inv, NEW c \in Calls, Quiet(c), call[c].pc = "ok"
               PROVE  call[c].got = Records(found[c])
    BY DEF Complete
  <2> DEFINE r == Records(found[c])
  <2>1. DoneAt(c) /\ found[c] \in Nat
    BY CountLemma DEF Inv, Finished, DoneAt
  <2>2. call[c].got \in Seq(Nat)
    <3>1. call[c].got \in Seq(0 .. MaxRecords)
      BY Parts DEF Typed
    <3> QED BY <3>1, Parts DEF Typed
  <2>3. /\ r \in Seq(Nat) /\ Len(r) = Count(c)
        /\ \A i \in 1 .. Count(c) : r[i] = Item(c, i)
    <3>1. CASE found[c] = 0
      BY <3>1 DEF Records, Count, Item
    <3>2. CASE found[c] # 0
      BY <2>1, <3>2 DEF Records, Count, Item
    <3> QED BY <3>1, <3>2
  <2>4. Len(call[c].got) = Len(r) /\ \A i \in 1 .. Len(r) : call[c].got[i] = r[i]
    BY <2>1, <2>3 DEF DoneAt, Got
  <2> HIDE DEF r
  <2>5. call[c].got = r
    BY <2>2, <2>3, <2>4, SeqEqual
  <2> QED BY <2>5 DEF r
<1> QED BY <1>1, AlwaysInv, PTL

(* A call that succeeded leaves neither a goroutine nor an answer behind   *)
(* for the next call from its address, if no two were under way at once.   *)
THEOREM LeavesNothingHolds == ASSUME NoCrash PROVE Spec => []LeavesNothing
<1>1. Typed /\ Inv => LeavesNothing
  <2> SUFFICES ASSUME Typed, Inv, NEW c \in Calls, Quiet(c), call[c].pc = "ok"
               PROVE  /\ consumer[c].pc = "ended"
                      /\ \A a \in Addrs : \A m \in Range(queue[a].ready) : m.call # c
    BY DEF LeavesNothing
  <2>1. consumer[c].pc = "ended" /\ ~Attached(c)
    BY DEF Inv, Steady, Joins, JoinsAt, Attached
  <2>2. ~InFlight(c)
    BY <2>1 DEF Inv, Steady, Flight, OwnedQueue
  <2> QED BY <2>1, <2>2 DEF InFlight, Inv, Steady, Routed
<1> QED BY <1>1, AlwaysInv, PTL
-----------------------------------------------------------------------------
(* Queues belong to goroutines of calls from their address. *)
Placed == \A c \in Calls : \A a \in Addrs : queue[a].owner = c => Addr(c) = a

Refusals == Placed /\ RefusedOnlyByLeak

LEMMA PlacedStep ==
    ASSUME Typed, Placed, [Next]_vars
    PROVE  /\ Placed' /\ \A c \in Calls : Addr(c)' = Addr(c)
<1>1. \A c \in Calls : Addr(c)' = Addr(c)
  <2>1. ASSUME NEW c \in Calls, Handler(c) PROVE \A d \in Calls : Addr(d)' = Addr(d)
    BY <2>1, GoToLemma DEF Handler, Setup, SetupFails, Ask, AskFails, Return, Typed, Returned, Addr
  <2>2. ASSUME NEW c \in Calls, Goroutine(c) PROVE \A d \in Calls : Addr(d)' = Addr(d)
    <3>1. CASE ReceiveOne(c) \/ ReceiveMany(c) \/ SendFails(c)
      <4>1. PICK pc \in {"receive", "drain", "denied", "failed"} :
               Meets(c) /\ HandOver(c, pc)
        BY <3>1 DEF ReceiveOne, ReceiveMany, SendFails
      <4> QED BY <4>1, HandOverLemma DEF Returned, Addr
    <3>2. CASE Signal(c)
      BY <3>2, GoToLemma DEF Signal, Typed, Addr
    <3>3. CASE Attach(c) \/ Deliver(c) \/ Close(c)
      BY <3>3 DEF Attach, Deliver, Close, Addr
    <3> QED BY <2>2, <3>1, <3>2, <3>3 DEF Goroutine
  <2>3. CASE DbdNext \/ UNCHANGED vars
    BY <2>3 DEF DbdNext, Query, QueryFails, SendReply, SendReplyFails, Finish,
                DbdCrash, vars, Addr
  <2> QED BY <2>1, <2>2, <2>3 DEF Next
<1>2. \A a \in Addrs : \/ queue'[a].owner \in {queue[a].owner, NoCall}
                       \/ queue'[a].owner \in Calls /\ Addr(queue'[a].owner) = a
  <2>0. queue \in [Addrs -> Queue] /\ \A c \in Calls : Addr(c) \in Addrs
    BY Places DEF Typed, TypeOK
  <2>1. ASSUME NEW c \in Calls, Handler(c)
        PROVE  \A a \in Addrs : queue'[a].owner = queue[a].owner
    <3>1. CASE Setup(c)
      BY <2>0, <3>1 DEF Setup, Queue
    <3>2. CASE ~Setup(c)
      BY <2>1, <3>2 DEF Handler, SetupFails, Ask, AskFails, Return
    <3> QED BY <3>1, <3>2
  <2>2. ASSUME NEW c \in Calls, Goroutine(c), NEW a \in Addrs
        PROVE  \/ queue'[a].owner \in {queue[a].owner, NoCall}
               \/ queue'[a].owner = c /\ Addr(c) = a
    <3>1. CASE Attach(c)
      BY <2>0, <3>1 DEF Attach, Queue
    <3>2. CASE Deliver(c)
      BY <3>2, DeliverLemma
    <3>3. CASE Close(c)
      BY <2>0, <3>3 DEF Close, NoQueue, Queue
    <3>4. CASE ReceiveOne(c) \/ ReceiveMany(c) \/ SendFails(c) \/ Signal(c)
      BY <3>4 DEF ReceiveOne, ReceiveMany, SendFails, Signal, HandOver
    <3> QED BY <2>2, <3>1, <3>2, <3>3, <3>4 DEF Goroutine
  <2>3. CASE SendReply
    BY <2>3, SendReplyLemma
  <2>4. CASE (DbdNext /\ ~SendReply) \/ UNCHANGED vars
    BY <2>4 DEF DbdNext, Query, QueryFails, SendReplyFails, Finish, DbdCrash, vars
  <2> QED BY <2>1, <2>2, <2>3, <2>4 DEF Next
<1> QED BY <1>1, <1>2, RepliesAssumption DEF Placed

(* What was crowded remains so. *)
LEMMA CrowdedGrows ==
    ASSUME Typed, [Next]_vars
    PROVE  crowded \subseteq crowded'
<1>1. CASE DbdNext \/ UNCHANGED vars
  BY <1>1 DEF DbdNext, Query, QueryFails, SendReply, SendReplyFails, Finish,
              DbdCrash, vars
<1>2. CASE \E c \in Calls : Handler(c) \/ Goroutine(c)
  BY <1>2, Footprint
<1> QED BY <1>1, <1>2 DEF Next

(* A goroutine left behind stays: only a method that waits for its         *)
(* goroutine can end it.                                                   *)
LEMMA LeakedStays ==
    ASSUME Typed, Steady, [Next]_vars, NEW d \in Calls, Leaked(d)
    PROVE  Leaked(d)'
<1>0. call[d].pc \in {"denied", "failed"} /\ consumer[d].pc \notin {"none", "close", "ended"}
  BY DEF Leaked, Steady, Joins, JoinsAt
<1>1. ASSUME NEW c \in Calls, Handler(c)
      PROVE  call'[d] = call[d] /\ consumer'[d] = consumer[d]
  <2>1. c # d
    BY <1>0, <1>1 DEF Handler, Setup, SetupFails, Ask, AskFails, Return
  <2> QED BY <1>1, <2>1 DEF Handler, Setup, SetupFails, Ask, AskFails, Return, GoTo,
                            ConsumerGoTo, Typed, TypeOK
<1>2. ASSUME NEW c \in Calls, Goroutine(c)
      PROVE  call'[d].pc = call[d].pc /\ consumer'[d].pc \notin {"none", "ended"}
  <2>1. CASE ReceiveOne(c) \/ ReceiveMany(c) \/ SendFails(c)
    <3>1. PICK pc \in {"receive", "drain", "denied", "failed"} :
             Meets(c) /\ HandOver(c, pc)
      BY <2>1 DEF ReceiveOne, ReceiveMany, SendFails
    <3>2. c # d
      BY <1>0, <3>1 DEF Meets
    <3>3. call'[d] = call[d] /\ consumer'[d] = consumer[d]
      BY <3>1, <3>2, HandOverLemma DEF Returned
    <3> QED BY <1>0, <3>3
  <2>2. CASE Signal(c)
    BY <1>0, <2>2, GoToLemma, ConsumerGoToLemma DEF Signal, Typed
  <2>3. CASE Deliver(c)
    BY <1>0, <2>3, DeliverLemma DEF Deliver
  <2>4. CASE Attach(c)
    BY <1>0, <2>4, ConsumerGoToLemma DEF Attach, Typed
  <2>5. CASE Close(c)
    BY <1>0, <2>5, ConsumerGoToLemma DEF Close, Typed
  <2> QED BY <1>2, <2>1, <2>2, <2>3, <2>4, <2>5 DEF Goroutine
<1>3. CASE DbdNext \/ UNCHANGED vars
  <2>1. UNCHANGED <<call, consumer>>
    BY <1>3 DEF DbdNext, Query, QueryFails, SendReply, SendReplyFails, Finish,
                DbdCrash, vars
  <2> QED BY <1>0, <2>1 DEF Leaked
<1> QED BY <1>0, <1>1, <1>2, <1>3 DEF Next, Leaked

(* Whoever is refused finds the goroutine of a call that did not wait for  *)
(* it, or is one itself and finds no queue.                                *)
LEMMA RefusedLemma ==
    ASSUME Typed, Steady, Placed, NEW c \in Calls, Quiet(c), Attach(c),
           consumer'[c].pc = "refused"
    PROVE  \E d \in Calls : Addr(d) = Addr(c) /\ Leaked(d)
<1>1. /\ consumer[c].pc = "start" /\ Addr(c) \in Addrs
      /\ ~queue[Addr(c)].declared \/ queue[Addr(c)].owner # NoCall
  BY ConsumerGoToLemma, Places DEF Attach, Typed
<1>2. call[c].pc # "idle"
  BY <1>1 DEF Typed, IdleOK
<1>3. CASE ~Active(c)
  <2>1. call[c].pc \in {"ok", "denied", "failed"}
    BY <1>2, <1>3, Parts DEF Active, Typed, Method, Returned
  <2>2. call[c].pc # "ok"
    BY <1>1 DEF Steady, Joins, JoinsAt
  <2> QED BY <1>1, <2>1, <2>2 DEF Leaked
<1>4. CASE Active(c)
  <2>1. queue[Addr(c)].owner \in Calls
    <3>1. queue[Addr(c)].declared
      BY <1>1, <1>4 DEF Steady, OwnedQueue
    <3> QED BY <1>1, <3>1, Parts DEF Typed, Queue
  <2>2. PICK d \in Calls : d = queue[Addr(c)].owner
    BY <2>1
  <2>3. Addr(d) = Addr(c) /\ Attached(d)
    BY <1>1, <2>2 DEF Placed, Steady, OwnedQueue
  <2>4. d # c
    BY <1>1, <2>3 DEF Attached
  <2>5. ~Active(d)
    BY <1>4, <2>3, <2>4 DEF Steady, Alone, Quiet
  <2>6. call[d].pc \in {"denied", "failed"}
    <3>1. call[d].pc # "idle"
      BY <2>3 DEF Attached, Typed, IdleOK
    <3>2. call[d].pc # "ok"
      BY <2>3 DEF Attached, Steady, Joins, JoinsAt
    <3> QED BY <2>5, <3>1, <3>2, Parts DEF Active, Typed, Method, Returned
  <2> QED BY <2>3, <2>6 DEF Attached, Leaked
<1> QED BY <1>3, <1>4

LEMMA RefusedFrame ==
    ASSUME Typed, [Next]_vars, NEW c \in Calls, consumer'[c].pc = "refused",
           consumer[c].pc # "refused"
    PROVE  Attach(c)
<1>1. ASSUME NEW e \in Calls, Handler(e) PROVE FALSE
  BY <1>1, ConsumerGoToLemma DEF Handler, Setup, SetupFails, Ask, AskFails, Return, Typed
<1>2. ASSUME NEW e \in Calls, Goroutine(e) PROVE Attach(c)
  <2>1. CASE ReceiveOne(e) \/ ReceiveMany(e) \/ SendFails(e)
    <3>1. PICK pc \in {"receive", "drain", "denied", "failed"} :
             Meets(e) /\ HandOver(e, pc)
      BY <2>1 DEF ReceiveOne, ReceiveMany, SendFails
    <3>2. /\ consumer'[e] = [pc |-> IF Held(e).stop THEN "signal" ELSE "loop",
                             held |-> <<>>]
          /\ \A d \in Calls \ {e} : consumer'[d] = consumer[d]
      BY <3>1, HandOverLemma DEF Returned
    <3>3. consumer'[e].pc \in {"signal", "loop"}
      BY <3>2
    <3> QED BY <3>2, <3>3
  <2>2. CASE Signal(e) \/ Close(e)
    BY <2>2, ConsumerGoToLemma DEF Signal, Close, Typed
  <2>3. CASE Deliver(e)
    <3>1. /\ consumer'[e] = [pc |-> "send",
                             held |-> <<Head(queue[Addr(e)].ready)>>]
          /\ \A d \in Calls \ {e} : consumer'[d] = consumer[d]
      BY <2>3, DeliverLemma
    <3>2. consumer'[e].pc = "send"
      BY <3>1
    <3> QED BY <3>1, <3>2
  <2>4. CASE Attach(e)
    <3>1. e = c
      BY <2>4, ConsumerGoToLemma DEF Attach, Typed
    <3> QED BY <2>4, <3>1
  <2> QED BY <1>2, <2>1, <2>2, <2>3, <2>4 DEF Goroutine
<1>3. CASE DbdNext \/ UNCHANGED vars
  BY <1>3 DEF DbdNext, Query, QueryFails, SendReply, SendReplyFails, Finish,
              DbdCrash, vars
<1> QED BY <1>1, <1>2, <1>3 DEF Next

(* Of all the failures only one keeps a goroutine from its queue, unless   *)
(* two calls were under way from its address at once: a call that returned *)
(* an error and left its own goroutine waiting.                            *)
THEOREM RefusedOnlyByLeakHolds == Spec => []RefusedOnlyByLeak
<1>1. Init => Refusals
  BY Parts, InitTyped, RepliesAssumption
     DEF Init, Refusals, Placed, RefusedOnlyByLeak, NoQueue, NoConsumer
<1>2. Typed /\ Steady /\ Refusals /\ [Next]_vars => Refusals'
  <2> SUFFICES ASSUME Typed, Steady, Refusals, [Next]_vars PROVE Refusals'
    OBVIOUS
  <2>1. Placed' /\ \A c \in Calls : Addr(c)' = Addr(c)
    BY PlacedStep DEF Refusals
  <2>2. \A c \in Calls : Quiet(c)' => Quiet(c)
    BY <2>1, CrowdedGrows DEF Quiet
  <2>3. \A c \in Calls : Quiet(c)' /\ consumer'[c].pc = "refused" =>
           \E d \in Calls : Addr(d) = Addr(c) /\ Leaked(d)
    BY <2>2, RefusedFrame, RefusedLemma DEF Refusals, RefusedOnlyByLeak
  <2>4. RefusedOnlyByLeak'
    BY <2>1, <2>3, LeakedStays DEF RefusedOnlyByLeak
  <2> QED BY <2>1, <2>4 DEF Refusals
<1>3. Refusals => RefusedOnlyByLeak
  BY DEF Refusals
<1> QED BY <1>1, <1>2, <1>3, AlwaysSteady, PTL DEF Spec
-----------------------------------------------------------------------------
(* Calls whose addresses are all different share no queue.  Then dbd may   *)
(* die as well: what it sends a second time goes to the call that asked,   *)
(* or is dropped with the queue of a call that is over.                    *)
Apart == \A c, d \in Calls : c # d => Addr(c) # Addr(d)

SoleAt(c) ==
    /\ consumer[c].pc = "start" => queue[Addr(c)].declared
    /\ consumer[c].pc = "ended" => ~queue[Addr(c)].declared
    /\ consumer[c].pc # "refused"
    /\ \A m \in Range(consumer[c].held) : m.call = c

Sole == \A c \in Calls : SoleAt(c)

(* What another call does leaves the queue of this one alone.              *)
LEMMA SoleFrame ==
    ASSUME Typed, Sole, NEW c \in Calls,
           consumer'[c] = consumer[c], Addr(c)' = Addr(c),
           queue'[Addr(c)].declared = queue[Addr(c)].declared
    PROVE  SoleAt(c)'
BY DEF Sole, SoleAt

LEMMA SoleHandler ==
    ASSUME Typed, Apart, Sole, NEW c \in Calls, Handler(c)
    PROVE  Sole'
<1>1. \A d \in Calls : Addr(d)' = Addr(d) /\ Addr(d) \in Addrs
  BY GoToLemma, Places
     DEF Handler, Setup, SetupFails, Ask, AskFails, Return, Typed, Returned, Addr
<1>2. CASE Setup(c)
  <2>1. /\ consumer[c].pc = "none" /\ consumer'[c].pc = "start"
        /\ consumer'[c].held = consumer[c].held
        /\ \A d \in Calls \ {c} : consumer'[d] = consumer[d]
    BY <1>2, ConsumerGoToLemma DEF Setup, Typed, IdleOK
  <2>2. /\ queue'[Addr(c)].declared
        /\ \A a \in Addrs : a # Addr(c) => queue'[a] = queue[a]
    BY <1>1, <1>2 DEF Setup, Typed, TypeOK, Queue
  <2>3. SoleAt(c)'
    BY <1>1, <2>1, <2>2 DEF Sole, SoleAt
  <2>4. ASSUME NEW d \in Calls, d # c PROVE SoleAt(d)'
    BY <1>1, <2>1, <2>2, <2>4, SoleFrame DEF Apart
  <2> QED BY <2>3, <2>4 DEF Sole
<1>3. CASE ~Setup(c)
  <2>1. UNCHANGED <<consumer, queue>>
    BY <1>3 DEF Handler, SetupFails, Ask, AskFails, Return
  <2> QED BY <1>1, <2>1, SoleFrame DEF Sole
<1> QED BY <1>2, <1>3

LEMMA SoleGoroutine ==
    ASSUME Typed, Steady, Placed, Apart, Sole, NEW c \in Calls, Goroutine(c),
           \A d \in Calls : Addr(d)' = Addr(d)
    PROVE  Sole'
<1>1. \A d \in Calls : Addr(d) \in Addrs
  BY Places
<1>2. CASE Attach(c)
  <2>1. consumer[c].pc = "start" /\ queue[Addr(c)].declared
    BY <1>2 DEF Attach, Sole, SoleAt
  <2>2. queue[Addr(c)].owner = NoCall
    <3>1. queue[Addr(c)].owner \in Calls \cup {NoCall}
      BY Parts DEF Typed, Queue
    <3>2. queue[Addr(c)].owner # c
      BY <2>1 DEF Steady, OwnedQueue, Attached
    <3>3. \A d \in Calls : queue[Addr(c)].owner = d => d = c
      BY <1>1 DEF Placed, Apart
    <3> QED BY <3>1, <3>2, <3>3
  <2>3. /\ queue' = [queue EXCEPT ![Addr(c)].owner = c]
        /\ ConsumerGoTo(c, "loop")
    BY <1>2, <2>1, <2>2 DEF Attach
  <2>4. \A a \in Addrs : queue'[a].declared = queue[a].declared
    BY <2>3 DEF Typed, TypeOK, Queue
  <2>5. /\ consumer'[c].pc = "loop" /\ consumer'[c].held = consumer[c].held
        /\ \A d \in Calls \ {c} : consumer'[d] = consumer[d]
    BY <2>3, ConsumerGoToLemma DEF Typed
  <2>6. SoleAt(c)'
    BY <2>5 DEF Sole, SoleAt
  <2>7. ASSUME NEW d \in Calls, d # c PROVE SoleAt(d)'
    BY <1>1, <2>4, <2>5, <2>7, SoleFrame
  <2> QED BY <2>6, <2>7 DEF Sole
<1>3. CASE Deliver(c)
  <2>1. /\ consumer'[c] = [pc |-> "send", held |-> <<Head(queue[Addr(c)].ready)>>]
        /\ \A d \in Calls \ {c} : consumer'[d] = consumer[d]
        /\ \A a \in Addrs : queue'[a].declared = queue[a].declared
        /\ queue[Addr(c)].ready # <<>>
    BY <1>3, DeliverLemma
  <2>2. /\ Head(queue[Addr(c)].ready) \in Range(queue[Addr(c)].ready)
        /\ Head(queue[Addr(c)].ready) \in Reply
    <3>1. queue[Addr(c)].ready \in Seq(Reply)
      BY <1>1, Places
    <3>2. Head(queue[Addr(c)].ready) \in Range(queue[Addr(c)].ready)
      BY <2>1, <3>1, HeadTailRange
    <3> QED BY <1>1, <3>2, Places
  <2>3. Head(queue[Addr(c)].ready).call = c
    BY <1>1, <2>2, Places DEF Steady, Routed, Apart
  <2>4. \A m \in Range(consumer'[c].held) : m = Head(queue[Addr(c)].ready)
    <3>1. consumer'[c].held = <<Head(queue[Addr(c)].ready)>>
      BY <2>1
    <3> QED BY <3>1 DEF Range
  <2>5. consumer'[c].pc = "send"
    BY <2>1
  <2>6. SoleAt(c)'
    BY <2>3, <2>4, <2>5 DEF SoleAt
  <2>7. ASSUME NEW d \in Calls, d # c PROVE SoleAt(d)'
    BY <1>1, <2>1, <2>7, SoleFrame
  <2> QED BY <2>6, <2>7 DEF Sole
<1>4. CASE ReceiveOne(c) \/ ReceiveMany(c) \/ SendFails(c)
  <2>1. PICK pc \in {"receive", "drain", "denied", "failed"} :
           Meets(c) /\ HandOver(c, pc)
    BY <1>4 DEF ReceiveOne, ReceiveMany, SendFails
  <2>2. /\ consumer'[c] = [pc |-> IF Held(c).stop THEN "signal" ELSE "loop",
                           held |-> <<>>]
        /\ \A d \in Calls \ {c} : consumer'[d] = consumer[d]
        /\ UNCHANGED queue
    BY <2>1, HandOverLemma DEF Returned
  <2>3. consumer'[c].pc \in {"signal", "loop"} /\ consumer'[c].held = <<>>
    BY <2>2
  <2>4. SoleAt(c)'
    BY <2>3, EmptyRange DEF SoleAt
  <2>5. ASSUME NEW d \in Calls, d # c PROVE SoleAt(d)'
    BY <2>2, <2>5, SoleFrame
  <2> QED BY <2>4, <2>5 DEF Sole
<1>5. CASE Signal(c)
  <2>1. /\ consumer'[c].pc = "close" /\ consumer'[c].held = consumer[c].held
        /\ \A d \in Calls \ {c} : consumer'[d] = consumer[d]
        /\ UNCHANGED queue
    BY <1>5, ConsumerGoToLemma DEF Signal, Typed
  <2>2. SoleAt(c)'
    BY <2>1 DEF Sole, SoleAt
  <2>3. ASSUME NEW d \in Calls, d # c PROVE SoleAt(d)'
    BY <2>1, <2>3, SoleFrame
  <2> QED BY <2>2, <2>3 DEF Sole
<1>6. CASE Close(c)
  <2>1. /\ consumer'[c].pc = "ended" /\ consumer'[c].held = consumer[c].held
        /\ \A d \in Calls \ {c} : consumer'[d] = consumer[d]
    BY <1>6, ConsumerGoToLemma DEF Close, Typed
  <2>2. /\ queue'[Addr(c)] = NoQueue
        /\ \A a \in Addrs \ {Addr(c)} : queue'[a] = queue[a]
    BY <1>1, <1>6 DEF Close, Typed, TypeOK
  <2>3. SoleAt(c)'
    BY <2>1, <2>2 DEF Sole, SoleAt, NoQueue
  <2>4. ASSUME NEW d \in Calls, d # c PROVE SoleAt(d)'
    BY <1>1, <2>1, <2>2, <2>4, SoleFrame DEF Apart
  <2> QED BY <2>3, <2>4 DEF Sole
<1> QED BY <1>2, <1>3, <1>4, <1>5, <1>6 DEF Goroutine

LEMMA SoleStep ==
    ASSUME Typed, Steady, Placed, Apart, Sole, [Next]_vars
    PROVE  Apart' /\ Sole'
<1>1. \A c \in Calls : Addr(c)' = Addr(c) /\ Addr(c) \in Addrs
  BY PlacedStep, Places
<1>2. CASE DbdNext \/ UNCHANGED vars
  <2>1. UNCHANGED consumer
    BY <1>2 DEF DbdNext, Query, QueryFails, SendReply, SendReplyFails, Finish,
                DbdCrash, vars
  <2>2. \A a \in Addrs : queue'[a].declared = queue[a].declared
    <3>1. CASE SendReply
      BY <3>1, SendReplyLemma
    <3>2. CASE ~SendReply
      BY <1>2, <3>2 DEF DbdNext, Query, QueryFails, SendReplyFails, Finish,
                        DbdCrash, vars
    <3> QED BY <3>1, <3>2
  <2> QED BY <1>1, <2>1, <2>2, SoleFrame DEF Sole, Apart
<1>3. CASE \E c \in Calls : Handler(c)
  BY <1>1, <1>3, SoleHandler DEF Apart
<1>4. CASE \E c \in Calls : Goroutine(c)
  BY <1>1, <1>4, SoleGoroutine DEF Apart
<1> QED BY <1>2, <1>3, <1>4 DEF Next

(* No address of theirs gets crowded. *)
Uncrowded == crowded = {}

LEMMA UncrowdedStep ==
    ASSUME Typed, Apart, Uncrowded, [Next]_vars
    PROVE  Uncrowded'
<1>1. ASSUME NEW c \in Calls, Setup(c) PROVE crowded' = crowded
  BY <1>1 DEF Setup, Apart, Active
<1>2. ASSUME NEW c \in Calls, Handler(c), ~Setup(c) PROVE crowded' = crowded
  BY <1>2 DEF Handler, SetupFails, Ask, AskFails, Return
<1>3. ASSUME NEW c \in Calls, Goroutine(c) PROVE crowded' = crowded
  BY <1>3 DEF Goroutine, Attach, Deliver, ReceiveOne, ReceiveMany, SendFails,
              HandOver, Signal, Close
<1>4. CASE DbdNext \/ UNCHANGED vars
  BY <1>4 DEF DbdNext, Query, QueryFails, SendReply, SendReplyFails, Finish,
              DbdCrash, vars, Uncrowded
<1> QED BY <1>1, <1>2, <1>3, <1>4 DEF Next, Uncrowded

LEMMA AlwaysSole ==
    ASSUME ~Reuse
    PROVE  Spec => [](Typed /\ Steady /\ Placed /\ Apart /\ Sole /\ Uncrowded)
<1>1. Init => Placed /\ Apart /\ Sole /\ Uncrowded
  <2> SUFFICES ASSUME Init PROVE Placed /\ Apart /\ Sole
    BY DEF Init, Uncrowded
  <2>1. Placed
    BY RepliesAssumption DEF Init, Placed, NoQueue
  <2>2. Apart
    BY DEF Init, Apart, Addr
  <2>3. Sole
    BY EmptyRange DEF Init, Sole, SoleAt, NoConsumer
  <2> QED BY <2>1, <2>2, <2>3
<1>2. Typed /\ Steady /\ Placed /\ Apart /\ Sole /\ Uncrowded /\ [Next]_vars
        => Placed' /\ Apart' /\ Sole' /\ Uncrowded'
  BY PlacedStep, SoleStep, UncrowdedStep
<1> QED BY <1>1, <1>2, AlwaysSteady, PTL DEF Spec

(* From an address of its own a call is handed its own answer only, also   *)
(* when dbd dies between its answer and its acknowledgement and repeats it.*)
THEOREM OwnRepliesApart ==
    ASSUME ~Reuse
    PROVE  Spec => [](OwnReplies /\ \A c \in Calls : Quiet(c))
<1>1. Sole /\ Uncrowded => OwnReplies /\ \A c \in Calls : Quiet(c)
  BY DEF Sole, SoleAt, OwnReplies, Uncrowded, Quiet
<1> QED BY <1>1, AlwaysSole, PTL

(* Nor does anything outlast a call that succeeded: what dbd sends once    *)
(* more finds no queue.                                                    *)
THEOREM LeavesNothingApart ==
    ASSUME ~Reuse
    PROVE  Spec => [](LeavesNothing /\ \A c \in Calls : Quiet(c))
<1>1. Steady /\ Sole /\ Uncrowded => LeavesNothing /\ \A c \in Calls : Quiet(c)
  <2> SUFFICES ASSUME Steady, Sole, NEW c \in Calls, call[c].pc = "ok"
               PROVE  /\ consumer[c].pc = "ended"
                      /\ \A a \in Addrs : \A m \in Range(queue[a].ready) : m.call # c
    BY DEF LeavesNothing, Uncrowded, Quiet
  <2>1. consumer[c].pc = "ended" /\ ~queue[Addr(c)].declared
    BY DEF Steady, Joins, JoinsAt, Sole, SoleAt
  <2>2. ASSUME NEW a \in Addrs, NEW m \in Range(queue[a].ready), m.call = c
        PROVE  FALSE
    <3>1. queue[a] = NoQueue
      BY <2>1, <2>2 DEF Steady, Routed, OwnedQueue
    <3> QED BY <2>2, <3>1, EmptyRange DEF NoQueue
  <2> QED BY <2>1, <2>2
<1> QED BY <1>1, AlwaysSole, PTL
-----------------------------------------------------------------------------
(* The refinement: a step of one call is a step of Rpc or none, and so is  *)
(* each of dbd; what happens to calls from crowded addresses is Jumble.    *)
SeenFrom == [c \in Calls |-> Addr(c)]
SeenAdding == {c \in Calls : call[c].op = "add"}
Seen(pc) == IF pc \in {"idle"} \cup Returned THEN pc ELSE "asked"

LEMMA SeenStep ==
    ASSUME NEW c \in Calls, \A d \in Calls \ {c} : call'[d] = call[d],
           call'[c].op = call[c].op, call'[c].addr = call[c].addr
    PROVE  /\ UNCHANGED <<SeenAdding, SeenFrom>>
           /\ AbstractState' = [AbstractState EXCEPT ![c] = Seen(call'[c].pc)]
           /\ AbstractState[c] = Seen(call[c].pc)
           /\ AbstractResult' = [AbstractResult EXCEPT ![c] =
                 IF call'[c].pc = "ok" THEN Last(call'[c].got) ELSE Unread]
           /\ AbstractResult[c] =
                 IF call[c].pc = "ok" THEN Last(call[c].got) ELSE Unread
<1>1. \A d \in Calls : call'[d].op = call[d].op /\ call'[d].addr = call[d].addr
  OBVIOUS
<1>2. UNCHANGED <<SeenAdding, SeenFrom>>
  BY <1>1 DEF SeenAdding, SeenFrom, Addr
<1> QED BY <1>2 DEF AbstractState, AbstractResult, Seen

(* A method that goes on waiting is seen to do nothing. *)
LEMMA SeenStutter ==
    ASSUME NEW c \in Calls, \A d \in Calls \ {c} : call'[d] = call[d],
           call'[c].op = call[c].op, call'[c].addr = call[c].addr, Seen(call'[c].pc) = Seen(call[c].pc),
           call[c].pc # "ok", call'[c].pc # "ok", UNCHANGED <<found, crowded>>
    PROVE  UNCHANGED Abstract!vars
<1>1. /\ UNCHANGED <<SeenAdding, SeenFrom>>
      /\ AbstractState' = [AbstractState EXCEPT ![c] = AbstractState[c]]
      /\ AbstractResult' = [AbstractResult EXCEPT ![c] = AbstractResult[c]]
  BY SeenStep
<1>2. UNCHANGED <<AbstractState, AbstractResult>>
  BY <1>1 DEF AbstractState, AbstractResult
<1> QED BY <1>1, <1>2 DEF Abstract!vars, SeenAdding, SeenFrom

(* An error, or a denial after the database was read. *)
LEMMA FailSeen ==
    ASSUME NEW c \in Calls, \A d \in Calls \ {c} : call'[d] = call[d],
           call'[c].op = call[c].op, call'[c].addr = call[c].addr, call'[c].pc = "failed",
           call[c].pc \in {"idle", "ask", "receive"}, UNCHANGED <<found, crowded>>
    PROVE  Abstract!Next
<1>1. /\ UNCHANGED <<SeenAdding, SeenFrom>>
      /\ AbstractState' = [AbstractState EXCEPT ![c] = "failed"]
      /\ AbstractState[c] \in {"idle", "asked"}
      /\ AbstractResult' = [AbstractResult EXCEPT ![c] = AbstractResult[c]]
  BY SeenStep DEF Seen, Returned
<1>2. UNCHANGED AbstractResult
  BY <1>1 DEF AbstractResult
<1>3. Abstract!Fail(c)
  BY <1>1, <1>2 DEF Abstract!Fail
<1> QED BY <1>1, <1>3 DEF Abstract!Next, SeenAdding, SeenFrom

LEMMA DenySeen ==
    ASSUME NEW c \in Calls, \A d \in Calls \ {c} : call'[d] = call[d],
           call'[c].op = call[c].op, call'[c].addr = call[c].addr, call'[c].pc = "denied",
           call[c].pc \in {"receive", "join"}, UNCHANGED <<found, crowded>>,
           found[c] # Unread, ~Abstract!Wanted(c)
    PROVE  Abstract!Next
<1>1. /\ UNCHANGED <<SeenAdding, SeenFrom>>
      /\ AbstractState' = [AbstractState EXCEPT ![c] = "denied"]
      /\ AbstractState[c] = "asked"
      /\ AbstractResult' = [AbstractResult EXCEPT ![c] = AbstractResult[c]]
  BY SeenStep DEF Seen, Returned
<1>2. UNCHANGED AbstractResult
  BY <1>1 DEF AbstractResult
<1>3. Abstract!Deny(c)
  BY <1>1, <1>2 DEF Abstract!Deny, Abstract!Unread, Unread
<1> QED BY <1>1, <1>3 DEF Abstract!Next, SeenAdding, SeenFrom

(* Whatever becomes of a call whose address is crowded. *)
LEMMA JumbleSeen ==
    ASSUME Typed, Typed', Steady', NEW c \in Calls, ~Quiet(c),
           \A d \in Calls \ {c} : call'[d] = call[d] /\ found'[d] = found[d],
           call'[c].op = call[c].op, call'[c].addr = call[c].addr,
           UNCHANGED crowded
    PROVE  Abstract!Next
<1>1. UNCHANGED <<SeenAdding, SeenFrom>>
  BY SeenStep
<1>2. \A d \in Calls : SeenFrom[d] \notin crowded => d # c
  BY DEF SeenFrom, Quiet
<1>3. AbstractState' \in [Calls -> {"idle", "asked", "ok", "denied", "failed"}]
  BY DEF AbstractState, Returned
<1>4. found' \in [Calls -> Abstract!Counts]
  BY DEF Typed, TypeOK, Abstract!Counts, Abstract!Unread, Unread
<1>5. AbstractResult' \in [Calls -> Abstract!Counts]
  <2>1. ASSUME NEW d \in Calls, call'[d].pc = "ok"
        PROVE  Last(call'[d].got) \in 0 .. MaxRecords
    <3>1. call'[d].got \in Seq(0 .. MaxRecords) /\ call'[d].got # <<>>
      BY <2>1 DEF Typed, TypeOK, Method, Steady, Joins, JoinsAt
    <3>2. Len(call'[d].got) \in 1 .. Len(call'[d].got)
      BY <3>1, EmptySeq, LenProperties
    <3> QED BY <3>1, <3>2, ElementOfSeq DEF Last
  <2> QED BY <2>1 DEF AbstractResult, Abstract!Counts, Abstract!Unread, Unread
<1>6. \A d \in Calls \ {c} : /\ AbstractState'[d] = AbstractState[d]
                             /\ AbstractResult'[d] = AbstractResult[d]
  BY DEF AbstractState, AbstractResult
<1>7. Abstract!Jumble
  BY <1>2, <1>3, <1>4, <1>5, <1>6 DEF Abstract!Jumble, SeenFrom
<1> QED BY <1>1, <1>7 DEF Abstract!Next, SeenAdding, SeenFrom

(* What the last answer says of the database. *)
LEMMA ItemWanted ==
    ASSUME Typed, NEW c \in Calls, found[c] # Unread, NEW k \in Nat \ {0}
    PROVE  Wants(c, Item(c, k)) <=> Abstract!Wanted(c)
<1>1. Item(c, k) = 0 <=> found[c] = 0
  BY DEF Item
<1>2. c \in {d \in Calls : call[d].op = "add"} <=> call[c].op = "add"
  OBVIOUS
<1> QED BY <1>1, <1>2 DEF Wants, Abstract!Wanted

LEMMA HandlerSeen ==
    ASSUME Typed, Inv, Typed', Inv', NEW c \in Calls, Handler(c)
    PROVE  Abstract!Next \/ UNCHANGED Abstract!vars
<1>1. CASE Setup(c)
  <2>1. /\ call[c].pc = "idle" /\ call'[c].pc = "ask"
        /\ call'[c].op = call[c].op /\ call'[c].addr = call[c].addr
        /\ \A d \in Calls \ {c} : call'[d] = call[d]
        /\ UNCHANGED found
    BY <1>1, GoToLemma DEF Setup, Typed
  <2>2. /\ UNCHANGED <<SeenAdding, SeenFrom>>
        /\ AbstractState' = [AbstractState EXCEPT ![c] = "asked"]
        /\ AbstractState[c] = "idle"
        /\ AbstractResult' = [AbstractResult EXCEPT ![c] = AbstractResult[c]]
    BY <2>1, SeenStep DEF Seen, Returned
  <2>3. UNCHANGED AbstractResult
    BY <2>2 DEF AbstractResult
  <2>4. \A d \in Calls : AbstractState[d] = "asked" <=> Active(d)
    BY Parts DEF AbstractState, Active, Returned, Typed, Method
  <2>5. crowded' = IF \E d \in Calls :
                        SeenFrom[d] = SeenFrom[c] /\ AbstractState[d] = "asked"
                   THEN crowded \cup {SeenFrom[c]} ELSE crowded
    BY <1>1, <2>4 DEF Setup, SeenFrom
  <2>6. Abstract!Ask(c)
    BY <2>1, <2>2, <2>3, <2>5 DEF Abstract!Ask, SeenFrom
  <2> QED BY <2>2, <2>6 DEF Abstract!Next, SeenAdding, SeenFrom
<1>2. CASE Ask(c)
  <2>1. /\ call[c].pc = "ask" /\ call'[c].pc = "receive"
        /\ call'[c].op = call[c].op /\ call'[c].addr = call[c].addr
        /\ \A d \in Calls \ {c} : call'[d] = call[d]
        /\ UNCHANGED <<found, crowded>>
    BY <1>2, GoToLemma DEF Ask, Typed
  <2> QED BY <2>1, SeenStutter DEF Seen, Returned
<1>3. CASE SetupFails(c) \/ AskFails(c)
  <2>1. /\ call[c].pc \in {"idle", "ask"} /\ call'[c].pc = "failed"
        /\ call'[c].op = call[c].op /\ call'[c].addr = call[c].addr
        /\ \A d \in Calls \ {c} : call'[d] = call[d]
        /\ UNCHANGED <<found, crowded>>
    BY <1>3, GoToLemma DEF SetupFails, AskFails, Typed, Returned
  <2> QED BY <2>1, FailSeen
<1>4. CASE Return(c) /\ ~Quiet(c)
  <2>1. UNCHANGED <<found, crowded>>
    BY <1>4 DEF Return
  <2> QED BY <1>4, <2>1, Footprint, JumbleSeen DEF Inv
<1>5. CASE Return(c) /\ Quiet(c)
  <2>1. PICK pc \in {"ok", "denied"} : /\ GoTo(c, pc)
                                       /\ pc = "ok" <=> Wants(c, Last(call[c].got))
    BY <1>5 DEF Return
  <2>2. /\ call[c].pc = "join" /\ call'[c].pc = pc
        /\ call'[c].op = call[c].op /\ call'[c].addr = call[c].addr
        /\ \A d \in Calls \ {c} : call'[d] = call[d]
        /\ call'[c].got = call[c].got /\ UNCHANGED <<found, crowded>>
    BY <1>5, <2>1, GoToLemma DEF Return, Typed, Returned
  <2>3. /\ found[c] # Unread /\ Count(c) \in Nat \ {0}
        /\ Last(call[c].got) = Item(c, Count(c)) /\ Item(c, Count(c)) = found[c]
    <3>1. DoneAt(c)
      BY <1>5, <2>2 DEF Inv, Finished
    <3>2. found[c] # Unread /\ Len(call[c].got) = Count(c) /\ Count(c) \in Nat \ {0}
      BY <3>1, CountLemma DEF DoneAt, Got
    <3>3. call[c].got[Count(c)] = Item(c, Count(c))
      BY <3>1, <3>2 DEF DoneAt, Got
    <3>4. Item(c, Count(c)) = found[c]
      BY DEF Item, Count
    <3> QED BY <3>2, <3>3, <3>4 DEF Last
  <2>4. pc = "ok" <=> Abstract!Wanted(c)
    BY <2>1, <2>3, ItemWanted
  <2>5. CASE pc = "denied"
    BY <2>2, <2>3, <2>4, <2>5, DenySeen
  <2>6. CASE pc = "ok"
    <3>1. /\ UNCHANGED <<SeenAdding, SeenFrom>>
          /\ AbstractState' = [AbstractState EXCEPT ![c] = "ok"]
          /\ AbstractState[c] = "asked"
          /\ AbstractResult' = [AbstractResult EXCEPT ![c] = found[c]]
      BY <2>2, <2>3, <2>6, SeenStep DEF Seen, Returned
    <3>2. Abstract!Succeed(c)
      BY <2>2, <2>3, <2>4, <2>6, <3>1
         DEF Abstract!Succeed, Abstract!Unread, Unread
    <3> QED BY <3>1, <3>2 DEF Abstract!Next, SeenAdding, SeenFrom
  <2> QED BY <2>5, <2>6
<1> QED BY <1>1, <1>2, <1>3, <1>4, <1>5 DEF Handler

LEMMA GoroutineSeen ==
    ASSUME Typed, Inv, Typed', Inv', NEW c \in Calls, Goroutine(c)
    PROVE  Abstract!Next \/ UNCHANGED Abstract!vars
<1>1. CASE ReceiveOne(c) \/ ReceiveMany(c) \/ SendFails(c)
  <2>1. PICK pc \in {"receive", "drain", "denied", "failed"} :
           /\ Meets(c) /\ HandOver(c, pc)
           /\ pc = "denied" => call[c].op \notin Streams /\ ~Wants(c, Held(c).item)
    BY <1>1 DEF ReceiveOne, ReceiveMany, SendFails
  <2>2. /\ call[c].pc = "receive" /\ call'[c].pc = pc
        /\ call'[c].op = call[c].op /\ call'[c].addr = call[c].addr
        /\ \A d \in Calls \ {c} : call'[d] = call[d]
        /\ UNCHANGED <<found, crowded>>
    BY <2>1, HandOverLemma DEF Meets, Returned
  <2>3. CASE pc \in {"receive", "drain"}
    BY <2>2, <2>3, SeenStutter DEF Seen, Returned
  <2>4. CASE pc = "failed"
    BY <2>2, <2>4, FailSeen
  <2>5. CASE pc = "denied" /\ ~Quiet(c)
    BY <2>2, <2>5, JumbleSeen DEF Inv
  <2>6. CASE pc = "denied" /\ Quiet(c)
    <3>1. /\ found[c] # Unread /\ Held(c).item = Item(c, Got(c) + 1)
          /\ Got(c) + 1 \in Nat \ {0}
      BY <2>1, <2>6, ReceivedLemma, CountLemma DEF Msg
    <3>2. ~Abstract!Wanted(c)
      BY <2>1, <2>6, <3>1, ItemWanted
    <3> QED BY <2>2, <2>6, <3>1, <3>2, DenySeen
  <2> QED BY <2>3, <2>4, <2>5, <2>6
<1>2. CASE Signal(c)
  <2>1. /\ call[c].pc \in {"receive", "drain"} /\ call'[c].pc = "join"
        /\ call'[c].op = call[c].op /\ call'[c].addr = call[c].addr
        /\ \A d \in Calls \ {c} : call'[d] = call[d]
        /\ UNCHANGED <<found, crowded>>
    BY <1>2, GoToLemma DEF Signal, Typed
  <2> QED BY <2>1, SeenStutter DEF Seen, Returned
<1>3. CASE Attach(c) \/ Deliver(c) \/ Close(c)
  BY <1>3 DEF Attach, Deliver, Close, Abstract!vars, AbstractState, AbstractResult,
              Addr
<1> QED BY <1>1, <1>2, <1>3 DEF Goroutine

LEMMA DbdSeen ==
    ASSUME Typed, Inv, Typed', Inv', DbdNext
    PROVE  Abstract!Next \/ UNCHANGED Abstract!vars
<1>1. UNCHANGED <<call, crowded>>
  BY DEF DbdNext, Query, QueryFails, SendReply, SendReplyFails, Finish, DbdCrash
<1>2. UNCHANGED <<SeenAdding, SeenFrom, AbstractState, AbstractResult>>
  BY <1>1 DEF SeenAdding, SeenFrom, Addr, AbstractState, AbstractResult
<1>3. CASE Query
  <2>1. PICK c \in Calls, n \in 0 .. MaxRecords :
           /\ c = Head(requests.ready) /\ requests.ready # <<>>
           /\ found' = [found EXCEPT ![c] = n]
           /\ requests'.ready = Tail(requests.ready)
    BY <1>3, QueryLemma
  <2>2. \A d \in Calls \ {c} : found'[d] = found[d]
    BY <2>1
  <2>3. CASE ~Quiet(c)
    BY <1>1, <2>2, <2>3, JumbleSeen DEF Inv
  <2>4. CASE Quiet(c)
    <3>1. call[c].pc = "receive" /\ found[c] = Unread
      BY <2>1, <2>4, TakenRequest DEF Inv, Waiters
    <3>2. AbstractState[c] = "asked"
      BY <3>1 DEF AbstractState, Returned
    <3>3. Abstract!Find(c)
      BY <1>1, <1>2, <2>1, <3>1, <3>2 DEF Abstract!Find, Abstract!Unread, Unread
    <3> QED BY <1>2, <3>3 DEF Abstract!Next, SeenAdding, SeenFrom
  <2> QED BY <2>3, <2>4
<1>4. CASE ~Query
  <2>1. UNCHANGED found
    BY <1>4 DEF DbdNext, QueryFails, SendReply, SendReplyFails, Finish, DbdCrash
  <2> QED BY <1>1, <1>2, <2>1 DEF Abstract!vars, SeenAdding, SeenFrom
<1> QED BY <1>3, <1>4

(* While dbd lives, a lookup with all its goroutines and queues is what    *)
(* Rpc promises: one read of the database between the call and its return, *)
(* which alone decides whether the call is served or denied, and all of    *)
(* which is delivered.  Rpc says what becomes of this when calls from one  *)
(* address overlap: they lose the promise, all others keep it.             *)
THEOREM ImplementsRpcHolds == ASSUME NoCrash PROVE Spec => ImplementsRpc
<1>1. Init => Abstract!Init
  BY DEF Init, Abstract!Init, AbstractState, AbstractResult, Unread,
         Abstract!Unread, Returned, Addr
<1>2. Typed /\ Inv /\ Typed' /\ Inv' /\ [Next]_vars
        => [Abstract!Next]_(Abstract!vars)
  <2>1. ASSUME UNCHANGED vars PROVE UNCHANGED Abstract!vars
    BY <2>1 DEF vars, Abstract!vars, AbstractState, AbstractResult, Addr
  <2> QED BY <2>1, HandlerSeen, GoroutineSeen, DbdSeen DEF Next
<1> QED BY <1>1, <1>2, AlwaysInv, PTL DEF Spec, ImplementsRpc, Abstract!Spec
=============================================================================
