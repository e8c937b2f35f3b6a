---------------------------- MODULE LifecycleTypes --------------------------
(***************************************************************************)
(* What every step of Lifecycle keeps whatever the messages mean: types,   *)
(* one delivery at a time in a daemon's hands, and orders that never       *)
(* change the subject or the key they were placed for.  One lemma for each *)
(* daemon; LifecycleProofs uses them.                                      *)
(***************************************************************************)
EXTENDS Lifecycle, AmqpTheorems

Typed == TypeOK /\ OneInHand

(* Orders are only added, and only ever revoked. *)
OrdersKept ==
    \A c \in DOMAIN orders :
        /\ c \in DOMAIN orders'
        /\ orders'[c].subject = orders[c].subject
        /\ orders'[c].key = orders[c].key
        /\ orders[c].revoked => orders'[c].revoked

(* The order numbers in use are 1 up to the number of orders. *)
LEMMA OrdersDomain ==
    ASSUME TypeOK
    PROVE  /\ DOMAIN orders = 1 .. Len(orders) /\ Len(orders) \in Nat
           /\ \A c \in DOMAIN orders : orders[c] \in Order
BY LenProperties, ElementOfSeq DEF TypeOK, LondoTypeOK

(* The authority takes an order under the next number. *)
LEMMA PlaceOrderLemma ==
    ASSUME TypeOK, NEW s \in Subjects, PlaceOrder(s)
    PROVE  /\ orders' \in Seq(Order)
           /\ OrdersKept
           /\ Len(orders) + 1 \in DOMAIN orders'
           /\ orders'[Len(orders) + 1] =
                 [subject |-> s, key |-> NewKey, revoked |-> FALSE]
           /\ DOMAIN orders' = DOMAIN orders \cup {Len(orders) + 1}
           /\ \A c \in DOMAIN orders : orders'[c] = orders[c]
           /\ NewKey \in Keys
<1> DEFINE o == [subject |-> s, key |-> NewKey, revoked |-> FALSE]
<1>1. NewKey \in Keys
  BY DEF NewKey, PlaceOrder, FreshKeys
<1>2. o \in Order /\ orders \in Seq(Order) /\ orders' = Append(orders, o)
  BY <1>1 DEF Order, TypeOK, LondoTypeOK, PlaceOrder
<1>3. /\ orders' \in Seq(Order) /\ Len(orders') = Len(orders) + 1
      /\ \A i \in 1 .. Len(orders) : orders'[i] = orders[i]
      /\ orders'[Len(orders) + 1] = o
  BY <1>2, AppendProperties
<1>4. /\ DOMAIN orders' = 1 .. Len(orders) + 1
      /\ DOMAIN orders = 1 .. Len(orders)
      /\ Len(orders) \in Nat
  BY <1>2, <1>3, LenProperties
<1> QED BY <1>1, <1>3, <1>4 DEF OrdersKept

(* Revoking marks one order and leaves the rest alone. *)
LEMMA RevokeOrderLemma ==
    ASSUME TypeOK, NEW c \in DOMAIN orders, RevokeOrder(c)
    PROVE  /\ orders' \in Seq(Order)
           /\ OrdersKept
           /\ DOMAIN orders' = DOMAIN orders
           /\ orders'[c].revoked
           /\ \A d \in DOMAIN orders : d # c => orders'[d] = orders[d]
<1> DEFINE o == [orders[c] EXCEPT !.revoked = TRUE]
<1>1. orders \in Seq(Order) /\ c \in 1 .. Len(orders) /\ orders[c] \in Order
  BY OrdersDomain DEF TypeOK, LondoTypeOK
<1>2. /\ o \in Order /\ o.revoked
      /\ o.subject = orders[c].subject /\ o.key = orders[c].key
  BY <1>1 DEF Order
<1>3. orders' = [orders EXCEPT ![c] = o]
  BY DEF RevokeOrder
<1>4. orders' \in Seq(Order)
  BY <1>1, <1>2, <1>3, ExceptSeq
<1> QED BY <1>1, <1>2, <1>3, <1>4 DEF OrdersKept
-----------------------------------------------------------------------------
(* A step of londo-enrolld keeps the types. *)
LEMMA EnrolldTyped ==
    ASSUME Typed, EnrolldStep
    PROVE  Typed' /\ OrdersKept
<1> USE DEF Typed
<1> DEFINE Rest == UNCHANGED <<revoke, revokeDeclared, reply, collectd, revoked,
                               dbdVars, grpcdVars, check>>
           Good == /\ enroll' \in QueueOf(EnrollEvent)
                   /\ collect' \in QueueOf(CollectEvent)
                   /\ collect'.current = collect.current
                   /\ db' \in QueueOf(DbEvent)
                   /\ db'.current = db.current
                   /\ orders' \in Seq(Order)
                   /\ faults' \in Nat
                   /\ excused' \subseteq Subjects
                   /\ enrolld' \in Enrolling
                   /\ enroll'.current = <<>> <=> enrolld'.pc = "idle"
                   /\ OrdersKept
<1>1. Rest
  BY DEF EnrolldStep, EnrolldNext, EnrollAccepted, EnrollRefused,
         EnrollAnswerLost, EnrollAnswerUnreadable, EnrollUnprepared,
         EnrollPublishCollect, EnrollPublishAdd, EnrollPublishFails, EnrollAck,
         EnrolldCrash
<1>2. /\ enroll \in QueueOf(EnrollEvent)
      /\ collect \in QueueOf(CollectEvent)
      /\ db \in QueueOf(DbEvent)
      /\ orders \in Seq(Order) /\ Len(orders) \in Nat
      /\ faults \in Nat
      /\ excused \subseteq Subjects
      /\ enrolld \in Enrolling
      /\ enroll.current = <<>> <=> enrolld.pc = "idle"
  BY OrdersDomain DEF TypeOK, LondoTypeOK, OneInHand
<1>3. ASSUME EnrollTaken
      PROVE  /\ Head(enroll.ready).subject \in Subjects
             /\ Take(enroll) \in QueueOf(EnrollEvent)
             /\ Take(enroll).current # <<>>
             /\ Requeue(Take(enroll)) \in QueueOf(EnrollEvent)
             /\ Requeue(Take(enroll)).current = <<>>
             /\ Settle(Take(enroll)) \in QueueOf(EnrollEvent)
             /\ Settle(Take(enroll)).current = <<>>
             /\ enrolld.pc = "idle"
  <2>1. enroll.ready # <<>> /\ enroll.current = <<>> /\ enrolld.pc = "idle"
    BY <1>2, <1>3 DEF EnrollTaken
  <2>2. Head(enroll.ready) \in EnrollEvent
    BY <1>2, <2>1, TakeLemma
  <2> QED BY <1>2, <2>1, <2>2, TakeLemma, TakeReturnLemma, TakeSettleLemma
          DEF EnrollEvent
<1>4. UNCHANGED orders => OrdersKept
  BY DEF OrdersKept
<1>5. ASSUME NEW f, Fault(f) PROVE faults' \in Nat
  BY <1>2, <1>5 DEF Fault
<1>6. EnrolldIdle \in Enrolling /\ EnrolldIdle.pc = "idle"
  BY DEF EnrolldIdle, Enrolling
<1>7. Good
  <2>1. CASE EnrollAccepted
    <3>1. PlaceOrder(Head(enroll.ready).subject) /\ EnrollTaken
      BY <2>1 DEF EnrollAccepted
    <3>2. orders' \in Seq(Order) /\ OrdersKept /\ NewKey \in Keys
      BY <3>1, <1>3, PlaceOrderLemma
    <3>3. enrolld' \in Enrolling /\ enrolld'.pc = "collect"
      BY <1>2, <2>1, <3>2 DEF EnrollAccepted, Enrolling
    <3> QED BY <1>2, <1>3, <2>1, <3>1, <3>2, <3>3 DEF EnrollAccepted
  <2>2. CASE EnrollRefused
    BY <1>2, <1>3, <1>4, <2>2 DEF EnrollRefused
  <2>3. CASE EnrollAnswerLost
    <3>1. PlaceOrder(Head(enroll.ready).subject) /\ EnrollTaken
      BY <2>3 DEF EnrollAnswerLost
    <3>2. orders' \in Seq(Order) /\ OrdersKept
      BY <3>1, <1>3, PlaceOrderLemma
    <3> QED BY <1>2, <1>3, <1>5, <2>3, <3>1, <3>2 DEF EnrollAnswerLost
  <2>4. CASE EnrollAnswerUnreadable
    <3>1. PlaceOrder(Head(enroll.ready).subject) /\ EnrollTaken
      BY <2>4 DEF EnrollAnswerUnreadable
    <3>2. orders' \in Seq(Order) /\ OrdersKept
      BY <3>1, <1>3, PlaceOrderLemma
    <3> QED BY <1>2, <1>3, <1>5, <2>4, <3>1, <3>2
            DEF EnrollAnswerUnreadable, Excuse
  <2>5. CASE EnrollUnprepared
    BY <1>2, <1>3, <1>4, <1>5, <2>5 DEF EnrollUnprepared, Excuse
  <2>6. CASE EnrollPublishCollect
    <3>1. [certId |-> enrolld.certId] \in CollectEvent
      BY <1>2 DEF Enrolling, EnrolldIdle, CollectEvent
    <3>2. /\ collect' \in QueueOf(CollectEvent)
          /\ collect'.current = collect.current
      BY <1>2, <2>6, <3>1, PutLemma DEF EnrollPublishCollect
    <3>3. enrolld' \in Enrolling /\ enrolld'.pc = "add"
      BY <1>2, <2>6 DEF EnrollPublishCollect, Enrolling, EnrolldIdle
    <3> QED BY <1>2, <1>4, <2>6, <3>2, <3>3 DEF EnrollPublishCollect
  <2>7. CASE EnrollPublishAdd
    <3>1. enrolld.pc = "add" /\ enroll.current # <<>>
      BY <1>2, <2>7 DEF EnrollPublishAdd
    <3>2. enroll.current[1] \in EnrollEvent
      BY <1>2, <3>1, InHandLemma
    <3>3. enrolld.key \in Keys /\ enrolld.certId \in Nat
      BY <1>2, <3>1 DEF Enrolling, EnrolldIdle
    <3>4. [cmd |-> "subj.add", subject |-> enroll.current[1].subject,
           key |-> enrolld.key, certId |-> enrolld.certId] \in DbEvent
      BY <3>2, <3>3 DEF EnrollEvent, DbEvent, NewSubjectEvent
    <3>5. db' \in QueueOf(DbEvent) /\ db'.current = db.current
      BY <1>2, <2>7, <3>4, PutLemma DEF EnrollPublishAdd
    <3>6. enrolld' \in Enrolling /\ enrolld'.pc = "ack"
      BY <1>2, <2>7 DEF EnrollPublishAdd, Enrolling, EnrolldIdle
    <3> QED BY <1>2, <1>4, <2>7, <3>5, <3>6 DEF EnrollPublishAdd
  <2>8. CASE EnrollPublishFails
    BY <1>2, <1>4, <1>5, <1>6, <2>8, ReturnLemma DEF EnrollPublishFails
  <2>9. CASE EnrollAck
    BY <1>2, <1>4, <1>6, <2>9, SettleLemma DEF EnrollAck
  <2>10. CASE EnrolldCrash
    BY <1>2, <1>4, <1>5, <1>6, <2>10, ReturnLemma DEF EnrolldCrash
  <2> QED BY <2>1, <2>2, <2>3, <2>4, <2>5, <2>6, <2>7, <2>8, <2>9, <2>10
          DEF EnrolldStep, EnrolldNext
<1> QED BY <1>1, <1>7 DEF TypeOK, LondoTypeOK, OneInHand, dbdVars, grpcdVars
-----------------------------------------------------------------------------
(* A step of londo-collectd keeps the types. *)
LEMMA CollectdTyped ==
    ASSUME Typed, CollectdStep
    PROVE  Typed' /\ OrdersKept
<1> USE DEF Typed
<1> DEFINE Rest == UNCHANGED <<enroll, revoke, revokeDeclared, reply, orders,
                               excused, enrolld, revoked, dbdVars, grpcdVars,
                               check>>
           Good == /\ collect' \in QueueOf(CollectEvent)
                   /\ collect'.current = <<>> <=> collectd' = "idle"
                   /\ collectd' \in {"idle", "publish", "ack"}
                   /\ db' \in QueueOf(DbEvent)
                   /\ db'.current = db.current
                   /\ faults' \in Nat
<1>1. Rest
  BY DEF CollectdStep, CollectdNext, CollectAnswered, CollectNotReady,
         CollectPublish, CollectPublishFails, CollectAck, CollectdCrash
<1>2. /\ collect \in QueueOf(CollectEvent)
      /\ collect.current = <<>> <=> collectd = "idle"
      /\ collectd \in {"idle", "publish", "ack"}
      /\ db \in QueueOf(DbEvent)
      /\ faults \in Nat
  BY DEF TypeOK, LondoTypeOK, OneInHand
<1>3. ASSUME NEW f, Fault(f) PROVE faults' \in Nat
  BY <1>2, <1>3 DEF Fault
<1>4. Good
  <2>1. CASE CollectAnswered
    BY <1>2, <2>1, TakeLemma DEF CollectAnswered, Collecting
  <2>2. CASE CollectNotReady
    BY <1>2, <2>2, TakeReturnLemma DEF CollectNotReady, Collecting
  <2>3. CASE CollectPublish
    <3>1. collect.current # <<>>
      BY <1>2, <2>3 DEF CollectPublish
    <3>2. collect.current[1] \in CollectEvent
      BY <1>2, <3>1, InHandLemma
    <3>3. [cmd |-> "subj.update", certId |-> Collected, cert |-> Collected]
              \in DbEvent
      BY <3>2 DEF CollectEvent, DbEvent, CompleteEnrollEvent, Collected
    <3>4. db' \in QueueOf(DbEvent) /\ db'.current = db.current
      BY <1>2, <2>3, <3>3, PutLemma DEF CollectPublish
    <3> QED BY <1>2, <2>3, <3>1, <3>4 DEF CollectPublish
  <2>4. CASE CollectPublishFails
    BY <1>2, <1>3, <2>4, ReturnLemma DEF CollectPublishFails
  <2>5. CASE CollectAck
    BY <1>2, <2>5, SettleLemma DEF CollectAck
  <2>6. CASE CollectdCrash
    BY <1>2, <1>3, <2>6, ReturnLemma DEF CollectdCrash
  <2> QED BY <2>1, <2>2, <2>3, <2>4, <2>5, <2>6 DEF CollectdStep, CollectdNext
<1> QED BY <1>1, <1>4
        DEF TypeOK, LondoTypeOK, OneInHand, OrdersKept, dbdVars, grpcdVars
-----------------------------------------------------------------------------
RevokesKnown == \A e \in Messages(revoke) : e.certId \in DOMAIN orders

(* A step of londo-revoked keeps the types. *)
LEMMA RevokedTyped ==
    ASSUME Typed, RevokesKnown, RevokedStep
    PROVE  Typed' /\ OrdersKept
<1> USE DEF Typed
<1> DEFINE Rest == UNCHANGED <<enroll, collect, db, reply, excused, enrolld,
                               collectd, dbdVars, grpcdVars, check>>
           Good == /\ revoke' \in QueueOf(RevokeEvent)
                   /\ revoke'.current = <<>> <=> revoked' = "idle"
                   /\ revoked' \in {"idle", "ack"}
                   /\ revokeDeclared' \in BOOLEAN
                   /\ orders' \in Seq(Order)
                   /\ faults' \in Nat
                   /\ OrdersKept
<1>1. Rest
  BY DEF RevokedStep, RevokedNext, DeclareRevoke, RevokeAnswered,
         RevokeRefused, RevokeAnswerLost, RevokeAck, RevokedCrash
<1>2. /\ revoke \in QueueOf(RevokeEvent)
      /\ revoke.current = <<>> <=> revoked = "idle"
      /\ revoked \in {"idle", "ack"}
      /\ revokeDeclared \in BOOLEAN
      /\ orders \in Seq(Order)
      /\ faults \in Nat
  BY DEF TypeOK, LondoTypeOK, OneInHand
<1>3. ASSUME NEW f, Fault(f) PROVE faults' \in Nat
  BY <1>2, <1>3 DEF Fault
<1>4. UNCHANGED orders => OrdersKept
  BY DEF OrdersKept
<1>5. ASSUME Revoking, RevokeOrder(Head(revoke.ready).certId)
      PROVE  orders' \in Seq(Order) /\ OrdersKept
  <2>1. Head(revoke.ready) \in Messages(revoke)
    BY <1>2, <1>5, TakeLemma, MessagesType DEF Revoking
  <2> QED BY <1>5, <2>1, RevokeOrderLemma DEF RevokesKnown
<1>6. Good
  <2>1. CASE DeclareRevoke
    BY <1>2, <1>4, <2>1 DEF DeclareRevoke
  <2>2. CASE RevokeAnswered
    BY <1>2, <1>5, <2>2, TakeLemma DEF RevokeAnswered, Revoking
  <2>3. CASE RevokeRefused
    BY <1>2, <1>4, <2>3, TakeReturnLemma DEF RevokeRefused, Revoking
  <2>4. CASE RevokeAnswerLost
    BY <1>2, <1>3, <1>5, <2>4, TakeReturnLemma DEF RevokeAnswerLost, Revoking
  <2>5. CASE RevokeAck
    BY <1>2, <1>4, <2>5, SettleLemma DEF RevokeAck
  <2>6. CASE RevokedCrash
    BY <1>2, <1>3, <1>4, <2>6, ReturnLemma DEF RevokedCrash
  <2> QED BY <2>1, <2>2, <2>3, <2>4, <2>5, <2>6 DEF RevokedStep, RevokedNext
<1> QED BY <1>1, <1>6
        DEF TypeOK, LondoTypeOK, OneInHand, dbdVars, grpcdVars
-----------------------------------------------------------------------------
(* Which fields an event of dbd has, by its command. *)
LEMMA DbEventFields ==
    ASSUME NEW e \in DbEvent
    PROVE  /\ e.cmd = "subj.add" => /\ e.subject \in Subjects
                                    /\ e.key \in Keys /\ e.certId \in Nat
           /\ e.cmd = "subj.update" => e.certId \in Nat /\ e.cert \in Nat
           /\ e.cmd = "subj.delete" => e.id \in Nat /\ e.certId \in Nat
           /\ e.cmd = "subj.get" => /\ e.subject \in Subjects
                                    /\ e.replyTo \in Requests
BY DEF DbEvent, NewSubjectEvent, CompleteEnrollEvent, DeleteEvent,
       GetSubjectEvent

(* A step of londo-dbd keeps the types. *)
LEMMA DbdTyped ==
    ASSUME Typed, DbdStep
    PROVE  Typed' /\ OrdersKept
<1> USE DEF Typed
<1> DEFINE Rest == UNCHANGED <<enroll, collect, revoke, revokeDeclared, orders,
                               excused, enrolld, collectd, revoked, grpcdVars,
                               check>>
           Queue == /\ db' \in QueueOf(DbEvent)
                    /\ db'.current = <<>> <=> dbd' = "idle"
                    /\ dbd' \in {"idle", "ack"}
           Good == /\ Queue
                   /\ reply' \in [Requests -> Seq(Snapshot)]
                   /\ subjects' \subseteq Record
                   /\ inserted' \in Nat
                   /\ faults' \in Nat
<1>1. Rest
  BY DEF DbdStep, DbdNext, AddSubject, AddSubjectFails, UpdateSubject,
         UpdateSubjectFails, DeleteSubject, DeleteSubjectNone,
         DeleteSubjectFails, GetSubject, GetSubjectFails, GetSubjectUnanswered,
         DbdAck, DbdCrash
<1>2. /\ db \in QueueOf(DbEvent)
      /\ db.current = <<>> <=> dbd = "idle"
      /\ dbd \in {"idle", "ack"}
      /\ reply \in [Requests -> Seq(Snapshot)]
      /\ subjects \subseteq Record
      /\ inserted \in Nat
      /\ faults \in Nat
  BY DEF TypeOK, LondoTypeOK, OneInHand
<1>3. ASSUME NEW f, Fault(f) PROVE faults' \in Nat
  BY <1>2, <1>3 DEF Fault
<1>4. ASSUME NEW cmd, Command(cmd)
      PROVE  /\ Head(db.ready) \in DbEvent /\ Head(db.ready).cmd = cmd
             /\ db.ready # <<>> /\ db.current = <<>> /\ dbd = "idle"
  BY <1>2, <1>4, TakeLemma DEF Command
<1>5. ASSUME NEW cmd, Command(cmd), Handled \/ Rejected \/ Requeued
      PROVE  Queue
  <2>1. CASE Handled
    BY <1>2, <1>4, <1>5, <2>1, TakeLemma DEF Handled
  <2>2. CASE Rejected
    BY <1>2, <1>4, <1>5, <2>2, TakeSettleLemma DEF Rejected
  <2>3. CASE Requeued
    BY <1>2, <1>4, <1>5, <2>3, TakeReturnLemma DEF Requeued
  <2> QED BY <1>5, <2>1, <2>2, <2>3
<1>6. ASSUME NEW r \in Requests, NEW snap \in Snapshot, Answer(r, snap)
      PROVE  reply' \in [Requests -> Seq(Snapshot)]
  <2>1. <<snap>> \in Seq(Snapshot)
    OBVIOUS
  <2> QED BY <1>2, <1>6, <2>1 DEF Answer
<1>7. Good
  <2>1. CASE AddSubject
    <3>1. Command("subj.add") /\ Handled
      BY <2>1 DEF AddSubject
    <3>2. [id |-> inserted + 1, subject |-> Head(db.ready).subject,
           key |-> Head(db.ready).key, certId |-> Head(db.ready).certId,
           cert |-> 0] \in Record
      BY <1>2, <1>4, <3>1, DbEventFields DEF Record
    <3>3. Queue
      BY <1>5, <3>1
    <3> QED BY <1>2, <2>1, <3>2, <3>3 DEF AddSubject
  <2>2. CASE AddSubjectFails
    BY <1>2, <1>3, <1>5, <2>2 DEF AddSubjectFails
  <2>3. CASE UpdateSubject
    <3>1. Command("subj.update") /\ Handled
      BY <2>3 DEF UpdateSubject
    <3>2. Head(db.ready).cert \in Nat
      BY <1>4, <3>1, DbEventFields
    <3>3. ASSUME NEW rec \in subjects
          PROVE  [rec EXCEPT !.cert = Head(db.ready).cert] \in Record
      BY <1>2, <3>2 DEF Record
    <3>4. subjects' \subseteq Record
      BY <1>2, <2>3, <3>3 DEF UpdateSubject, MatchingCertId
    <3>5. Queue
      BY <1>5, <3>1
    <3> QED BY <1>2, <2>3, <3>4, <3>5 DEF UpdateSubject
  <2>4. CASE UpdateSubjectFails
    BY <1>2, <1>3, <1>5, <2>4 DEF UpdateSubjectFails
  <2>5. CASE DeleteSubject
    BY <1>2, <1>5, <2>5 DEF DeleteSubject
  <2>6. CASE DeleteSubjectNone
    BY <1>2, <1>5, <2>6 DEF DeleteSubjectNone
  <2>7. CASE DeleteSubjectFails
    BY <1>2, <1>3, <1>5, <2>7 DEF DeleteSubjectFails
  <2>8. CASE GetSubject
    <3>1. Command("subj.get") /\ Handled
      BY <2>8 DEF GetSubject
    <3>2. Head(db.ready).subject \in Subjects
          /\ Head(db.ready).replyTo \in Requests
      BY <1>4, <3>1, DbEventFields
    <3>3. Found(Head(db.ready).subject) \subseteq Snapshot
      BY <1>2 DEF Found, Snapshot, NoSubject, Record
    <3>4. reply' \in [Requests -> Seq(Snapshot)]
      BY <1>6, <2>8, <3>2, <3>3 DEF GetSubject
    <3>5. Queue
      BY <1>5, <3>1
    <3> QED BY <1>2, <2>8, <3>4, <3>5 DEF GetSubject
  <2>9. CASE GetSubjectFails
    <3>1. Command("subj.get") /\ Handled /\ Fault("db")
      BY <2>9 DEF GetSubjectFails
    <3>2. Head(db.ready).replyTo \in Requests
      BY <1>4, <3>1, DbEventFields
    <3>3. NoSubject \in Snapshot
      BY DEF NoSubject, Snapshot
    <3>4. reply' \in [Requests -> Seq(Snapshot)]
      BY <1>6, <2>9, <3>2, <3>3 DEF GetSubjectFails
    <3>5. Queue /\ faults' \in Nat
      BY <1>3, <1>5, <3>1
    <3> QED BY <1>2, <2>9, <3>4, <3>5 DEF GetSubjectFails
  <2>10. CASE GetSubjectUnanswered
    BY <1>2, <1>3, <1>4, <2>10, TakeReturnLemma DEF GetSubjectUnanswered
  <2>11. CASE DbdAck
    BY <1>2, <2>11, SettleLemma DEF DbdAck
  <2>12. CASE DbdCrash
    BY <1>2, <1>3, <2>12, ReturnLemma DEF DbdCrash
  <2> QED BY <2>1, <2>2, <2>3, <2>4, <2>5, <2>6, <2>7, <2>8, <2>9, <2>10,
             <2>11, <2>12 DEF DbdStep, DbdNext
<1> QED BY <1>1, <1>7
        DEF TypeOK, LondoTypeOK, OneInHand, OrdersKept, dbdVars, grpcdVars
-----------------------------------------------------------------------------
(* What dbd answers and what londo-revoked is sent are the same two        *)
(* numbers of a record.                                                    *)
LEMMA SnapshotFields == NoSubject \in Snapshot /\ RevokeEvent = Snapshot
BY DEF NoSubject, Snapshot, RevokeEvent

(* A step of a call of londo-grpcd keeps the types. *)
LEMMA GrpcdTyped ==
    ASSUME Typed, GrpcdStep
    PROVE  Typed' /\ OrdersKept
<1> USE DEF Typed
<1> DEFINE Rest == UNCHANGED <<collect, revokeDeclared, reply, orders, excused,
                               enrolld, collectd, revoked, dbdVars, check>>
           Good == /\ enroll' \in QueueOf(EnrollEvent)
                   /\ enroll'.current = enroll.current
                   /\ revoke' \in QueueOf(RevokeEvent)
                   /\ revoke'.current = revoke.current
                   /\ db' \in QueueOf(DbEvent)
                   /\ db'.current = db.current
                   /\ req' \in [Requests -> Call]
                   /\ accepted' \subseteq Subjects
                   /\ unrouted' \subseteq Requests
                   /\ faults' \in Nat
<1>1. Rest
  BY DEF GrpcdStep, GrpcdNext, Lookup, AddExists, AddEnroll, RenewMissing,
         RenewRevoke, RenewEnroll, RenewDelete, DeleteCall, CallAborts
<1>2. /\ enroll \in QueueOf(EnrollEvent)
      /\ revoke \in QueueOf(RevokeEvent)
      /\ db \in QueueOf(DbEvent)
      /\ reply \in [Requests -> Seq(Snapshot)]
      /\ req \in [Requests -> Call]
      /\ accepted \subseteq Subjects
      /\ unrouted \subseteq Requests
      /\ faults \in Nat
  BY DEF TypeOK, LondoTypeOK
<1>3. PICK r \in Requests :
          \/ Lookup(r) \/ AddExists(r) \/ AddEnroll(r) \/ RenewMissing(r)
          \/ RenewRevoke(r) \/ RenewEnroll(r) \/ RenewDelete(r)
          \/ DeleteCall(r) \/ CallAborts(r)
  BY DEF GrpcdStep, GrpcdNext
<1>4. /\ req[r].subject \in Subjects
      /\ req[r].snap.id \in Nat /\ req[r].snap.certId \in Nat
  BY <1>2 DEF Call, Snapshot
<1>5. ASSUME NEW pc \in {"lookup", "enroll", "delete", "done", "failed"},
             GoTo(r, pc)
      PROVE  req' \in [Requests -> Call]
  BY <1>2, <1>5 DEF GoTo, Call
<1>6. [subject |-> req[r].subject] \in EnrollEvent
  BY <1>4 DEF EnrollEvent
<1>7. ASSUME enroll' = Put(enroll, [subject |-> req[r].subject])
      PROVE  enroll' \in QueueOf(EnrollEvent) /\ enroll'.current = enroll.current
  BY <1>2, <1>6, <1>7, PutLemma
<1>8. Good
  <2>1. CASE Lookup(r)
    <3>1. [cmd |-> "subj.get", subject |-> req[r].subject, replyTo |-> r]
              \in DbEvent
      BY <1>4 DEF DbEvent, GetSubjectEvent
    <3>2. db' \in QueueOf(DbEvent) /\ db'.current = db.current
      BY <1>2, <2>1, <3>1, PutLemma DEF Lookup
    <3> QED BY <1>2, <1>5, <2>1, <3>2 DEF Lookup
  <2>2. CASE AddExists(r)
    BY <1>2, <1>5, <2>2 DEF AddExists
  <2>3. CASE AddEnroll(r)
    BY <1>2, <1>4, <1>5, <1>7, <2>3 DEF AddEnroll
  <2>4. CASE RenewMissing(r)
    BY <1>2, <1>5, <2>4 DEF RenewMissing
  <2>5. CASE RenewRevoke(r)
    <3>1. Answer1(r) \in Snapshot /\ Answer1(r) \in RevokeEvent
      <4>1. reply[r] \in Seq(Snapshot) /\ reply[r] # <<>>
        BY <1>2, <2>5 DEF RenewRevoke, Answered
      <4> QED BY <4>1, SnapshotFields, HeadTailRange DEF Answer1
    <3>2. req' \in [Requests -> Call]
      BY <1>2, <2>5, <3>1 DEF RenewRevoke, Call
    <3>3. /\ revoke' \in QueueOf(RevokeEvent)
          /\ revoke'.current = revoke.current
          /\ unrouted' \subseteq Requests
      BY <1>2, <2>5, <3>1, PutLemma DEF RenewRevoke
    <3> QED BY <1>2, <2>5, <3>2, <3>3 DEF RenewRevoke
  <2>6. CASE RenewEnroll(r)
    BY <1>2, <1>5, <1>7, <2>6 DEF RenewEnroll
  <2>7. CASE RenewDelete(r)
    <3>1. [cmd |-> "subj.delete", id |-> req[r].snap.id,
           certId |-> req[r].snap.certId] \in DbEvent
      BY <1>4 DEF DbEvent, DeleteEvent
    <3>2. db' \in QueueOf(DbEvent) /\ db'.current = db.current
      BY <1>2, <2>7, <3>1, PutLemma DEF RenewDelete
    <3> QED BY <1>2, <1>5, <2>7, <3>2 DEF RenewDelete
  <2>8. CASE DeleteCall(r)
    BY <1>2, <1>5, <2>8 DEF DeleteCall
  <2>9. CASE CallAborts(r)
    BY <1>2, <1>5, <2>9 DEF CallAborts, Fault
  <2> QED BY <1>3, <2>1, <2>2, <2>3, <2>4, <2>5, <2>6, <2>7, <2>8, <2>9
<1> QED BY <1>1, <1>8
        DEF TypeOK, LondoTypeOK, OneInHand, OrdersKept, dbdVars
-----------------------------------------------------------------------------
(* A step of a check of londo-checkerd keeps the types. *)
LEMMA CheckerdTyped ==
    ASSUME Typed, SnapshotsMatch, CheckerdStep
    PROVE  Typed' /\ OrdersKept
<1> USE DEF Typed
<1> DEFINE Rest == UNCHANGED <<enroll, collect, revokeDeclared, reply, orders,
                               enrolld, collectd, revoked, dbdVars, grpcdVars>>
           Good == /\ revoke' \in QueueOf(RevokeEvent)
                   /\ revoke'.current = revoke.current
                   /\ db' \in QueueOf(DbEvent)
                   /\ db'.current = db.current
                   /\ check' \in [Checks -> Checking]
                   /\ excused' \subseteq Subjects
                   /\ faults' \in Nat
<1>1. Rest
  BY DEF CheckerdStep, CheckRead, CheckDelete, CheckRevoke, CheckAborts
<1>2. /\ revoke \in QueueOf(RevokeEvent)
      /\ db \in QueueOf(DbEvent)
      /\ check \in [Checks -> Checking]
      /\ subjects \subseteq Record
      /\ excused \subseteq Subjects
      /\ faults \in Nat
  BY DEF TypeOK, LondoTypeOK
<1>3. ASSUME NEW x \in Checks
      PROVE  check[x].snap \in Snapshot
  BY <1>2, <1>3 DEF Checking
<1>4. Good
  <2>1. ASSUME NEW x \in Checks, NEW rec \in subjects, CheckRead(x, rec)
        PROVE  Good
    <3>1. [id |-> rec.id, certId |-> rec.certId] \in Snapshot
      BY <1>2 DEF Record, Snapshot
    <3>2. check' \in [Checks -> Checking]
      BY <1>2, <2>1, <3>1 DEF CheckRead, Checking
    <3> QED BY <1>2, <2>1, <3>2 DEF CheckRead
  <2>2. ASSUME NEW x \in Checks, CheckDelete(x), Excuse(GivenUp(x))
        PROVE  Good
    <3>1. [cmd |-> "subj.delete", id |-> check[x].snap.id,
           certId |-> check[x].snap.certId] \in DbEvent
      BY <1>3 DEF Snapshot, DbEvent, DeleteEvent
    <3>2. db' \in QueueOf(DbEvent) /\ db'.current = db.current
      BY <1>2, <2>2, <3>1, PutLemma DEF CheckDelete
    <3>3. check' \in [Checks -> Checking]
      BY <1>2, <2>2 DEF CheckDelete, Checking
    <3>4. check[x].snap.certId \in DOMAIN orders
      BY <2>2 DEF CheckDelete, SnapshotsMatch
    <3>5. GivenUp(x) \subseteq Subjects
      BY <3>4, OrdersDomain DEF GivenUp, Order
    <3> QED BY <1>2, <2>2, <3>2, <3>3, <3>5 DEF CheckDelete, Excuse
  <2>3. ASSUME NEW x \in Checks, CheckRevoke(x)
        PROVE  Good
    <3>1. check[x].snap \in RevokeEvent
      BY <1>3, SnapshotFields
    <3>2. revoke' \in QueueOf(RevokeEvent) /\ revoke'.current = revoke.current
      BY <1>2, <2>3, <3>1, PutLemma DEF CheckRevoke
    <3>3. check' \in [Checks -> Checking]
      BY <1>2, <2>3 DEF CheckRevoke, Checking
    <3> QED BY <1>2, <2>3, <3>2, <3>3 DEF CheckRevoke
  <2>4. ASSUME NEW x \in Checks, CheckAborts(x)
        PROVE  Good
    BY <1>2, <2>4 DEF CheckAborts, Checking, Fault
  <2> QED BY <2>1, <2>2, <2>3, <2>4 DEF CheckerdStep
<1> QED BY <1>1, <1>4
        DEF TypeOK, LondoTypeOK, OneInHand, OrdersKept, dbdVars, grpcdVars
-----------------------------------------------------------------------------
(* A restart of the broker keeps the types. *)
LEMMA BrokerTyped ==
    ASSUME Typed, BrokerRestart
    PROVE  Typed' /\ OrdersKept
<1> USE DEF Typed
<1>1. /\ enroll' \in QueueOf(EnrollEvent) /\ enroll'.current = <<>>
      /\ collect' \in QueueOf(CollectEvent) /\ collect'.current = <<>>
      /\ revoke' \in QueueOf(RevokeEvent) /\ revoke'.current = <<>>
      /\ db' \in QueueOf(DbEvent) /\ db'.current = <<>>
  BY EmptyQueueLemma DEF BrokerRestart
<1>2. /\ enrolld' \in Enrolling /\ enrolld'.pc = "idle"
      /\ collectd' = "idle" /\ revoked' = "idle" /\ dbd' = "idle"
  BY DEF BrokerRestart, Enrolling, EnrolldIdle
<1>3. reply' \in [Requests -> Seq(Snapshot)]
  BY EmptySeq DEF BrokerRestart
<1>4. req' \in [Requests -> Call]
  BY DEF BrokerRestart, TypeOK, Call
<1>5. check' \in [Checks -> Checking]
  BY DEF BrokerRestart, TypeOK, Checking
<1>6. /\ excused' \subseteq Subjects
      /\ unrouted' \subseteq Requests /\ revokeDeclared' \in BOOLEAN
  BY DEF BrokerRestart, TypeOK, LondoTypeOK, Excuse
<1>7. UNCHANGED <<orders, subjects, inserted, accepted>>
  BY DEF BrokerRestart
<1>8. faults' \in Nat
  <2>1. faults \in Nat /\ faults' = faults + 1
    BY DEF BrokerRestart, Fault, TypeOK, LondoTypeOK
  <2> QED BY <2>1
<1> QED BY <1>1, <1>2, <1>3, <1>4, <1>5, <1>6, <1>7, <1>8
        DEF TypeOK, LondoTypeOK, OneInHand, OrdersKept
-----------------------------------------------------------------------------
(* The initial states are well typed. *)
LEMMA InitTyped ==
    ASSUME Init
    PROVE  Typed
<1>1. /\ EmptyQueue \in QueueOf(EnrollEvent) /\ EmptyQueue \in QueueOf(CollectEvent)
      /\ EmptyQueue \in QueueOf(RevokeEvent) /\ EmptyQueue \in QueueOf(DbEvent)
      /\ EmptyQueue.current = <<>>
  BY EmptyQueueLemma
<1>2. /\ <<>> \in Seq(Order) /\ <<>> \in Seq(Snapshot)
  BY EmptySeq
<1>3. EnrolldIdle \in Enrolling /\ EnrolldIdle.pc = "idle"
  BY DEF Enrolling, EnrolldIdle
<1>4. req \in [Requests -> Call] /\ check \in [Checks -> Checking]
  BY SnapshotFields DEF Init, GrpcdInit, CheckerdInit, Call, Checking
<1> QED BY <1>1, <1>2, <1>3, <1>4
        DEF Typed, TypeOK, LondoTypeOK, OneInHand, Init, LondoInit, EnrolldInit,
            CollectdInit, RevokedInit, DbdInit, GrpcdInit

(* Every step together. *)
LEMMA StepTyped ==
    ASSUME Typed, RevokesKnown, SnapshotsMatch, [Next]_vars
    PROVE  Typed' /\ OrdersKept
<1>1. CASE Next
  BY <1>1, EnrolldTyped, CollectdTyped, RevokedTyped, DbdTyped, GrpcdTyped,
     CheckerdTyped, BrokerTyped DEF Next
<1>2. CASE UNCHANGED vars
  BY <1>2 DEF vars, queueVars, dbdVars, grpcdVars, Typed, TypeOK, LondoTypeOK,
              OneInHand, OrdersKept
<1> QED BY <1>1, <1>2
=============================================================================
