------------------------------- MODULE Replies ------------------------------
(***************************************************************************)
(* How a gRPC method of londo-grpcd gets its answer from londo-dbd.        *)
(*                                                                         *)
(* setupRequest declares an auto-delete queue named after the address of   *)
(* the client's connection and starts a goroutine that consumes it         *)
(* exclusively; the method publishes its request, and dbd publishes one    *)
(* message for each record it found, the last one (or an empty Subject, if *)
(* there was none) marked CloseChannelCmd.  The goroutine hands each       *)
(* message to the method through replyChannel, then signals doneChannel;   *)
(* both channels are unbuffered, so each is a rendezvous of the two.       *)
(***************************************************************************)
EXTENDS Amqp, SequencesExt, Integers

CONSTANTS
    Calls,        \* the calls made, each of them once
    NoCall,       \* no call: a queue without a consumer
    Addrs,        \* addresses (ip:port) clients connect from
    Reuse,        \* whether a client may get the address of an earlier one
    Methods,      \* the methods the calls may use
    MaxRecords,   \* bound: records one query finds
    Faults,       \* the kinds of failure that may happen
    MaxFaults     \* bound: failures in one behaviour

(* "get" stands for GetSubject and RenewSubjects, "add" for AddNewSubject, *)
(* "list" for the two methods that ask by target, "expiring" for           *)
(* GetExpiringSubject.                                                     *)
ASSUME RepliesAssumption ==
    /\ NoCall \notin Calls
    /\ Methods \subseteq {"get", "add", "list", "expiring"}
    /\ Reuse \in BOOLEAN
    /\ MaxRecords \in Nat
    /\ MaxFaults \in Nat

VARIABLES
    call,       \* the methods
    consumer,   \* the goroutines, one for each call
    queue,      \* the reply queues, one for each address
    requests,   \* dbd's queue
    dbd,        \* dbd's handler
    found,      \* history: how many records dbd found for each call
    faults,     \* failures so far
    crowded     \* history: addresses two calls were under way from at once

vars == <<call, consumer, queue, requests, dbd, found, faults, crowded>>

Streams == {"list", "expiring"}

(* A message on its way to a call: a record, or 0 for the empty Subject.   *)
Reply == [call : Calls, item : 0 .. MaxRecords, stop : BOOLEAN]

Returned == {"ok", "denied", "failed"}

Method == [op : Methods, addr : Addrs, got : Seq(0 .. MaxRecords),
           pc : {"idle", "ask", "receive", "drain", "join"} \cup Returned]
Consumer == [pc : {"none", "start", "loop", "send", "signal", "close", "ended",
                   "refused"},
             held : Seq(Reply)]
Queue == [declared : BOOLEAN, ready : Seq(Reply), owner : Calls \cup {NoCall}]
Dbd == [pc : {"idle", "reply", "ack"}, sent : 0 .. MaxRecords]

NoQueue == [declared |-> FALSE, ready |-> <<>>, owner |-> NoCall]
NoConsumer == [pc |-> "none", held |-> <<>>]
DbdIdle == [pc |-> "idle", sent |-> 0]
Unread == -1

Init ==
    /\ call \in [Calls -> {[op |-> op, addr |-> a, got |-> <<>>, pc |-> "idle"] :
                              op \in Methods, a \in Addrs}]
    /\ Reuse \/ \A c, d \in Calls : c # d => call[c].addr # call[d].addr
    /\ consumer = [c \in Calls |-> NoConsumer]
    /\ queue = [a \in Addrs |-> NoQueue]
    /\ requests = EmptyQueue
    /\ dbd = DbdIdle
    /\ found = [c \in Calls |-> Unread]
    /\ faults = 0
    /\ crowded = {}
-----------------------------------------------------------------------------
Fault(f) ==
    /\ f \in Faults
    /\ faults < MaxFaults
    /\ faults' = faults + 1

(* Mutant: all reply queues have one name. *)
AddrShared(c) == CHOOSE a \in Addrs : TRUE

Addr(c) == call[c].addr
GoTo(c, pc) == call' = [call EXCEPT ![c].pc = pc]
ConsumerGoTo(c, pc) == consumer' = [consumer EXCEPT ![c].pc = pc]

(* A method that waits for its answer or its goroutine, its client there   *)
(* or not: none of them watches the connection.                            *)
Active(c) == call[c].pc \in {"ask", "receive", "drain", "join"}

(* setupRequest.  Declaring a queue that is still there changes nothing.   *)
(* A client makes one call on a connection of its own, but it may die, and *)
(* leave its address to another while its call is under way; nothing here  *)
(* looks whether the address is in use.                                    *)
Setup(c) ==
    /\ call[c].pc = "idle"
    /\ queue' = [queue EXCEPT ![Addr(c)].declared = TRUE]
    /\ ConsumerGoTo(c, "start")
    /\ GoTo(c, "ask")
    /\ crowded' = IF \E d \in Calls : Addr(d) = Addr(c) /\ Active(d)
                  THEN crowded \cup {Addr(c)} ELSE crowded
    /\ UNCHANGED <<requests, dbd, found, faults>>

(* The queue cannot be declared or bound: the method returns before it has *)
(* a goroutine.  A queue that is not bound gets no messages, and is bound  *)
(* before anyone consumes it: it may as well not be there.                 *)
SetupFails(c) ==
    /\ call[c].pc = "idle"
    /\ Fault("setup")
    /\ GoTo(c, "failed")
    /\ UNCHANGED <<consumer, queue, requests, dbd, found, crowded>>

Ask(c) ==
    /\ call[c].pc = "ask"
    /\ requests' = Put(requests, c)
    /\ GoTo(c, "receive")
    /\ UNCHANGED <<consumer, queue, dbd, found, faults, crowded>>

(* The request cannot be published: the method returns, its goroutine and  *)
(* its queue stay.                                                         *)
AskFails(c) ==
    /\ call[c].pc = "ask"
    /\ Fault("ask")
    /\ GoTo(c, "failed")
    /\ UNCHANGED <<consumer, queue, requests, dbd, found, crowded>>
-----------------------------------------------------------------------------
(* The goroutine of the call: AMQP.Consume.  While another goroutine holds *)
(* the queue the broker refuses the exclusive consumer; the error is       *)
(* logged, and the range over a nil channel never ends.                    *)
(* Mutant: the consumer is not exclusive. *)
AttachShared(c) ==
    /\ consumer[c].pc = "start"
    /\ queue[Addr(c)].declared
    /\ queue' = [queue EXCEPT ![Addr(c)].owner = c]
    /\ ConsumerGoTo(c, "loop")
    /\ UNCHANGED <<call, requests, dbd, found, faults, crowded>>

Attach(c) ==
    /\ consumer[c].pc = "start"
    /\ IF queue[Addr(c)].declared /\ queue[Addr(c)].owner = NoCall
       THEN /\ queue' = [queue EXCEPT ![Addr(c)].owner = c]
            /\ ConsumerGoTo(c, "loop")
       ELSE /\ ConsumerGoTo(c, "refused")
            /\ UNCHANGED queue
    /\ UNCHANGED <<call, requests, dbd, found, faults, crowded>>

Deliver(c) ==
    /\ consumer[c].pc = "loop"
    /\ queue[Addr(c)].ready # <<>>
    /\ consumer' = [consumer EXCEPT ![c] =
                       [pc |-> "send", held |-> <<Head(queue[Addr(c)].ready)>>]]
    /\ queue' = [queue EXCEPT ![Addr(c)].ready = Tail(@)]
    /\ UNCHANGED <<call, requests, dbd, found, faults, crowded>>

(* ch <- s meets rs := <-replyChannel.  A message that is not the last one *)
(* is acknowledged and the loop goes on.                                   *)
Meets(c) == call[c].pc = "receive" /\ consumer[c].pc = "send"
Held(c) == consumer[c].held[1]

HandOver(c, pc) ==
    /\ call' = [call EXCEPT ![c].pc = pc, ![c].got = Append(@, Held(c).item)]
    /\ consumer' = [consumer EXCEPT ![c] =
                       [pc |-> IF Held(c).stop THEN "signal" ELSE "loop",
                        held |-> <<>>]]
    /\ UNCHANGED <<queue, requests, dbd, found, crowded>>

(* A method that reads one answer returns an error at once when it is not  *)
(* the one it wants, and does not wait for the goroutine.                  *)
Wants(c, item) == IF call[c].op = "add" THEN item = 0 ELSE item # 0

ReceiveOne(c) ==
    /\ Meets(c) /\ call[c].op \notin Streams
    /\ HandOver(c, IF Wants(c, Held(c).item) THEN "drain" ELSE "denied")
    /\ UNCHANGED faults

(* getManyReplies: each record goes to the client's stream, an empty       *)
(* Subject means there is none.                                            *)
ReceiveMany(c) ==
    /\ Meets(c) /\ call[c].op \in Streams
    /\ HandOver(c, IF Wants(c, Held(c).item) THEN "receive" ELSE "drain")
    /\ UNCHANGED faults

(* The client is gone: the method returns in the middle of the stream. *)
SendFails(c) ==
    /\ Meets(c) /\ call[c].op \in Streams
    /\ Wants(c, Held(c).item)
    /\ Fault("send")
    /\ HandOver(c, "failed")

(* done <- struct{}{} meets <-doneChannel, which getManyReplies offers all *)
(* the time and the others only after they got their answer.               *)
Signal(c) ==
    /\ consumer[c].pc = "signal"
    /\ \/ call[c].pc = "drain"
       \/ call[c].pc = "receive" /\ call[c].op \in Streams
    /\ ConsumerGoTo(c, "close")
    /\ GoTo(c, "join")
    /\ UNCHANGED <<queue, requests, dbd, found, faults, crowded>>

(* The handler returns true: the channel is closed, and with its only      *)
(* consumer the queue is gone; then wg.Done.                               *)
Close(c) ==
    /\ consumer[c].pc = "close"
    /\ queue' = [queue EXCEPT ![Addr(c)] = NoQueue]
    /\ ConsumerGoTo(c, "ended")
    /\ UNCHANGED <<call, requests, dbd, found, faults, crowded>>

(* Mutant: the method does not wait for its goroutine. *)
ReturnAtOnce(c) ==
    /\ call[c].pc = "join"
    /\ GoTo(c, IF Wants(c, Last(call[c].got)) THEN "ok" ELSE "denied")
    /\ UNCHANGED <<consumer, queue, requests, dbd, found, faults, crowded>>

Return(c) ==
    /\ call[c].pc = "join"
    /\ consumer[c].pc = "ended"
    /\ GoTo(c, IF Wants(c, Last(call[c].got)) THEN "ok" ELSE "denied")
    /\ UNCHANGED <<consumer, queue, requests, dbd, found, faults, crowded>>
-----------------------------------------------------------------------------
(* dbd.  What it finds is the database's affair: one record at most for a  *)
(* method that asks by name.                                               *)
Limit(c) == IF call[c].op \in Streams THEN MaxRecords ELSE 1

Asking == requests.current[1]

Query ==
    /\ dbd.pc = "idle"
    /\ requests.ready # <<>>
    /\ \E n \in 0 .. MaxRecords :
          /\ n <= Limit(Head(requests.ready))
          /\ found' = [found EXCEPT ![Head(requests.ready)] = n]
    /\ requests' = Take(requests)
    /\ dbd' = [pc |-> "reply", sent |-> 0]
    /\ UNCHANGED <<call, consumer, queue, faults, crowded>>

(* FindManySubjects or FindExpiringSubjects fails: Reject(false), and      *)
(* nobody ever answers.  A failed FindSubject is like finding none.        *)
QueryFails ==
    /\ dbd.pc = "idle"
    /\ requests.ready # <<>>
    /\ call[Head(requests.ready)].op \in Streams
    /\ Fault("db")
    /\ requests' = Settle(Take(requests))
    /\ UNCHANGED <<call, consumer, queue, dbd, found, crowded>>

(* A message nobody declared a queue for is dropped, and that is no error. *)
Route(a, m) ==
    IF queue[a].declared
    THEN queue' = [queue EXCEPT ![a].ready = Append(@, m)]
    ELSE UNCHANGED queue

(* Mutant: the last record but one is marked as the last. *)
SendReplyStopsEarly ==
    LET c == Asking
        n == found[c]
        i == IF n = 0 THEN 0 ELSE dbd.sent + 1
    IN
    /\ dbd.pc = "reply"
    /\ Route(Addr(c), [call |-> c, item |-> i, stop |-> i + 1 >= n])
    /\ dbd' = [pc |-> IF i + 1 >= n THEN "ack" ELSE "reply", sent |-> i]
    /\ UNCHANGED <<call, consumer, requests, found, faults, crowded>>

(* Mutant: the loop runs one record too far. *)
SendReplyBeyond ==
    LET c == Asking
        n == found[c]
        i == IF n = 0 THEN 0 ELSE dbd.sent + 1
    IN
    /\ dbd.pc = "reply"
    /\ Route(Addr(c), [call |-> c, item |-> i, stop |-> i > n])
    /\ dbd' = [pc |-> IF i > n \/ n = 0 THEN "ack" ELSE "reply", sent |-> i]
    /\ UNCHANGED <<call, consumer, requests, found, faults, crowded>>

(* Mutant: no answer when there is nothing to find. *)
SendReplyNoneSilent ==
    LET c == Asking
        n == found[c]
        i == IF n = 0 THEN 0 ELSE dbd.sent + 1
    IN
    /\ dbd.pc = "reply"
    /\ IF n = 0 THEN UNCHANGED queue
       ELSE Route(Addr(c), [call |-> c, item |-> i, stop |-> i = n])
    /\ dbd' = [pc |-> IF i = n THEN "ack" ELSE "reply", sent |-> i]
    /\ UNCHANGED <<call, consumer, requests, found, faults, crowded>>

(* The next record, or the empty Subject if there is none at all. *)
SendReply ==
    LET c == Asking
        n == found[c]
        i == IF n = 0 THEN 0 ELSE dbd.sent + 1
    IN
    /\ dbd.pc = "reply"
    /\ Route(Addr(c), [call |-> c, item |-> i, stop |-> i = n])
    /\ dbd' = [pc |-> IF i = n THEN "ack" ELSE "reply", sent |-> i]
    /\ UNCHANGED <<call, consumer, requests, found, faults, crowded>>

(* Mutant: Reject(true) after a failed publish. *)
SendReplyRequeued ==
    /\ dbd.pc = "reply"
    /\ Fault("publish")
    /\ requests' = Requeue(requests)
    /\ dbd' = DbdIdle
    /\ UNCHANGED <<call, consumer, queue, found, crowded>>

(* A publish fails: Reject(false), also half way through the records; for  *)
(* a request by name the handler returns without settling it.              *)
SendReplyFails ==
    /\ dbd.pc = "reply"
    /\ Fault("publish")
    /\ requests' = IF call[Asking].op \in Streams
                   THEN Settle(requests) ELSE Forget(requests)
    /\ dbd' = DbdIdle
    /\ UNCHANGED <<call, consumer, queue, found, crowded>>

(* dbExpiringSubjects does not settle a request it found nothing for. *)
Finish ==
    /\ dbd.pc = "ack"
    /\ requests' = IF call[Asking].op = "expiring" /\ found[Asking] = 0
                   THEN Forget(requests) ELSE Settle(requests)
    /\ dbd' = DbdIdle
    /\ UNCHANGED <<call, consumer, queue, found, faults, crowded>>

(* dbd dies and is started again: what it had not settled is redelivered.  *)
DbdCrash ==
    /\ requests.current # <<>> \/ requests.stuck # <<>>
    /\ Fault("dbd")
    /\ requests' = ChannelLost(requests)
    /\ dbd' = DbdIdle
    /\ UNCHANGED <<call, consumer, queue, found, crowded>>
-----------------------------------------------------------------------------
Handler(c) ==
    \/ Setup(c) \/ SetupFails(c)
    \/ Ask(c) \/ AskFails(c)
    \/ Return(c)
Goroutine(c) ==
    \/ Attach(c) \/ Deliver(c)
    \/ ReceiveOne(c) \/ ReceiveMany(c) \/ SendFails(c)
    \/ Signal(c) \/ Close(c)
DbdNext ==
    \/ Query \/ QueryFails
    \/ SendReply \/ SendReplyFails
    \/ Finish \/ DbdCrash

Next == DbdNext \/ \E c \in Calls : Handler(c) \/ Goroutine(c)

Spec == Init /\ [][Next]_vars

(* Every goroutine that can go on does in the end, and so does dbd; nobody *)
(* has to make a call, and nothing has to fail.                            *)
Healthy == UNCHANGED faults

Fairness ==
    /\ WF_vars(DbdNext /\ Healthy)
    /\ \A c \in Calls :
          /\ WF_vars((Ask(c) \/ Return(c)) /\ Healthy)
          /\ WF_vars(Goroutine(c) /\ Healthy)

FairSpec == Spec /\ Fairness
-----------------------------------------------------------------------------
TypeOK ==
    /\ call \in [Calls -> Method]
    /\ consumer \in [Calls -> Consumer]
    /\ queue \in [Addrs -> Queue]
    /\ requests \in QueueOf(Calls)
    /\ dbd \in Dbd
    /\ found \in [Calls -> {Unread} \cup 0 .. MaxRecords]
    /\ faults \in 0 .. MaxFaults
    /\ crowded \subseteq Addrs

(* What a call may rely on ends when another is made from its address      *)
(* before it is over: queues and goroutines know calls by address only.    *)
Quiet(c) == Addr(c) \notin crowded

(* A method that waits for its answer is never handed the answer to        *)
(* another call, although calls from its address use the same queue name.  *)
OwnReplies ==
    \A c \in Calls :
        Quiet(c) /\ call[c].pc = "receive" =>
            \A m \in Range(consumer[c].held) : m.call = c

(* A method that succeeded got every record dbd found, once and in order.  *)
Records(n) == IF n = 0 THEN <<0>> ELSE [i \in 1 .. n |-> i]

Complete ==
    \A c \in Calls :
        Quiet(c) /\ call[c].pc = "ok" => call[c].got = Records(found[c])

(* A goroutine is refused its queue only because of an earlier call from   *)
(* the same address: one that returned without waiting for its goroutine,  *)
(* or one that was still under way.                                        *)
Leaked(c) ==
    /\ call[c].pc \in {"denied", "failed"}
    /\ consumer[c].pc \notin {"none", "ended"}

RefusedOnlyByLeak ==
    \A c \in Calls :
        Quiet(c) /\ consumer[c].pc = "refused" =>
            \E d \in Calls : Addr(d) = Addr(c) /\ Leaked(d)

(* A call that succeeded leaves nothing behind: its goroutine has ended,   *)
(* and no reply queue holds a message of its.                              *)
LeavesNothing ==
    \A c \in Calls :
        Quiet(c) /\ call[c].pc = "ok" =>
            /\ consumer[c].pc = "ended"
            /\ \A a \in Addrs : \A m \in Range(queue[a].ready) : m.call # c

(* Every call that is made returns. *)
CallsReturn ==
    \A c \in Calls : call[c].pc = "ask" ~> call[c].pc \in Returned

(* CloseChannelCmd: "Tell consumer to close channel".  A consumer that was *)
(* told does.                                                              *)
StopCloses ==
    \A c \in Calls : consumer[c].pc = "signal" ~> consumer[c].pc = "ended"
-----------------------------------------------------------------------------
(* The refinement: what the caller and the database see. *)
AbstractState ==
    [c \in Calls |->
        IF call[c].pc \in {"idle"} \cup Returned THEN call[c].pc ELSE "asked"]

AbstractResult ==
    [c \in Calls |->
        IF call[c].pc = "ok" THEN Last(call[c].got) ELSE Unread]

Abstract == INSTANCE Rpc WITH
    adding <- {c \in Calls : call[c].op = "add"},
    from <- [c \in Calls |-> Addr(c)],
    state <- AbstractState,
    result <- AbstractResult

(* The lookup of a subject, goroutines and queues and all, is one read of  *)
(* the database between the call and its return (Rpc), as long as calls    *)
(* from one address follow one another.                                    *)
ImplementsRpc == Abstract!Spec
=============================================================================
