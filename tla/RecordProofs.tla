----------------------------- MODULE RecordProofs ---------------------------
(***************************************************************************)
(* What becomes of a record.  One without a certificate is not forgotten:  *)
(* CollectInv is inductive relative to IInv, and the argument follows one  *)
(* order:                                                                  *)
(*   - its collect event is out before its add event, and collectd does    *)
(*     not get its certificate before dbd has its record (Uncollected);    *)
(*   - collectd lets go of the event only with the update in dbd's queue   *)
(*     (CollectedSent);                                                    *)
(*   - the update leaves that queue only for a record of its order, and a  *)
(*     record it leaves out has a twin (UpdateStays), of which there is a  *)
(*     trace even after it has been deleted (TwinStays).                   *)
(* One a renewal replaced is deleted: DeletionInv is inductive as well,    *)
(* for a deletion names the _id and the order of one record (Exact), and   *)
(* dbd settles no deletion before that record is gone.                     *)
(***************************************************************************)
EXTENDS LifecycleProofs

(* What the three steps of the argument need of the surroundings: the      *)
(* minute collectd sleeps is long enough, dbd rejects no certificate as    *)
(* unreadable, and the broker keeps its queues.                            *)
CollectAssumption ==
    SleepOrders /\ "update" \notin Faults /\ "broker" \notin Faults

(* The broker alone is all a deletion needs. *)
BrokerKeeps == "broker" \notin Faults

(* The two steps those failures would be. *)
LEMMA NothingDropped ==
    ASSUME CollectAssumption
    PROVE  ~UpdateSubjectFails /\ ~BrokerRestart
BY DEF CollectAssumption, UpdateSubjectFails, BrokerRestart, Fault

(* What dbd is about to handle is a message of its queue. *)
LEMMA CommandLemma ==
    ASSUME Typed, NEW cmd, Command(cmd)
    PROVE  /\ Head(db.ready) \in Messages(db) /\ Head(db.ready) \in DbEvent
           /\ Head(db.ready).cmd = cmd
<1>1. /\ db \in QueueOf(DbEvent) /\ db.ready # <<>> /\ db.current = <<>>
      /\ Head(db.ready).cmd = cmd
  BY DEF Typed, TypeOK, LondoTypeOK, OneInHand, Command
<1> QED BY <1>1, TakeLemma, MessagesType
-----------------------------------------------------------------------------
(* Records.                                                                *)

(* Where a record of the next state comes from: it is old, dbd inserts it, *)
(* or it is an old one whose certificate dbd has just stored.              *)
Completed(n) ==
    /\ n.cert # 0
    /\ \E rec \in subjects : /\ n.id = rec.id /\ n.certId = rec.certId
                             /\ subjects' = (subjects \ {rec}) \cup {n}

Inserted(n) ==
    /\ AddSubject
    /\ n.id = inserted + 1 /\ inserted' = inserted + 1
    /\ n.certId = Head(db.ready).certId
    /\ subjects' = subjects \cup {n}

(* An update stores the certificate in one record of its order, if there   *)
(* is one.                                                                 *)
LEMMA UpdateNews ==
    ASSUME IInv, UpdateSubject
    PROVE  /\ inserted' = inserted
           /\ \/ /\ subjects' = subjects
                 /\ MatchingCertId(Head(db.ready).certId) = {}
              \/ \E n : Completed(n) /\ n.certId = Head(db.ready).certId
<1> DEFINE h == Head(db.ready)
<1>1. /\ Typed /\ RecordsMatch /\ DbEventsMatch /\ subjects \subseteq Record
      /\ 0 \notin DOMAIN orders
  BY IInvParts, OrdersDomain DEF IInv, TypeOK
<1>2. h \in Messages(db) /\ h.cmd = "subj.update"
  BY <1>1, CommandLemma DEF UpdateSubject
<1>3. h.cert = h.certId
  BY <1>1, <1>2 DEF DbEventsMatch
<1>4. ASSUME NEW rec \in MatchingCertId(h.certId),
             subjects' = (subjects \ {rec}) \cup {[rec EXCEPT !.cert = h.cert]}
      PROVE  \E n : Completed(n) /\ n.certId = h.certId
  <2>1. PICK n : n = [rec EXCEPT !.cert = h.cert]
    OBVIOUS
  <2>2. rec \in subjects /\ rec \in Record /\ rec.certId = h.certId
    BY <1>1 DEF MatchingCertId
  <2>3. n.id = rec.id /\ n.certId = rec.certId /\ n.cert = h.certId
    BY <1>3, <2>1, <2>2 DEF Record
  <2>4. h.certId # 0
    BY <1>1, <2>2 DEF RecordsMatch, OrderWith, OrderFor
  <2> QED BY <1>4, <2>1, <2>2, <2>3, <2>4 DEF Completed
<1> QED BY <1>4 DEF UpdateSubject

(* A step inserts one record, completes one, deletes, or leaves them all.  *)
LEMMA RecordNews ==
    ASSUME IInv, Next
    PROVE  \/ \E n : Inserted(n) \/ (Completed(n) /\ inserted' = inserted)
           \/ DeleteSubject /\ inserted' = inserted
           \/ UNCHANGED <<subjects, inserted>>
<1> DEFINE h == Head(db.ready)
<1>1. CASE AddSubject
  <2>1. PICK n : n = [id |-> inserted + 1, subject |-> h.subject,
                      key |-> h.key, certId |-> h.certId, cert |-> 0]
    OBVIOUS
  <2>2. subjects' = subjects \cup {n} /\ inserted' = inserted + 1
    BY <1>1, <2>1 DEF AddSubject
  <2> QED BY <1>1, <2>1, <2>2 DEF Inserted
<1>2. CASE UpdateSubject
  BY <1>2, UpdateNews
<1>3. CASE DeleteSubject
  BY <1>3 DEF DeleteSubject
<1>4. CASE DbdStep
  BY <1>1, <1>2, <1>3, <1>4
     DEF DbdStep, DbdNext, AddSubjectFails, UpdateSubjectFails,
         DeleteSubjectNone, DeleteSubjectFails, GetSubject, GetSubjectFails,
         GetSubjectUnanswered, DbdAck, DbdCrash
<1>5. CASE BrokerRestart
  BY <1>5 DEF BrokerRestart
<1> QED BY <1>4, <1>5, EnrolldFrame, CollectdFrame, RevokedFrame, GrpcdFrame,
           CheckerdFrame DEF Next

(* The _ids dbd makes are fresh, and a record keeps its own. *)
LEMMA RecordsDistinctStep ==
    ASSUME IInv, Next, RecordsDistinct
    PROVE  RecordsDistinct'
<1>1. inserted \in Nat
  BY IInvParts DEF Typed, TypeOK
<1>2. ASSUME NEW n, Inserted(n) PROVE RecordsDistinct'
  <2>1. /\ n.id = inserted + 1 /\ inserted' = inserted + 1
        /\ subjects' = subjects \cup {n}
    BY <1>2 DEF Inserted
  <2>2. \A rec \in subjects :
            rec.id \in 1 .. inserted' /\ rec.id # n.id
    BY <1>1, <2>1 DEF RecordsDistinct
  <2>3. n.id \in 1 .. inserted'
    BY <1>1, <2>1
  <2> QED BY <2>1, <2>2, <2>3 DEF RecordsDistinct
<1>3. ASSUME NEW n, Completed(n), inserted' = inserted PROVE RecordsDistinct'
  <2>1. PICK rec \in subjects :
            /\ n.id = rec.id
            /\ subjects' = (subjects \ {rec}) \cup {n}
    BY <1>3 DEF Completed
  <2> QED BY <1>3, <2>1 DEF RecordsDistinct
<1>4. CASE subjects' \subseteq subjects /\ inserted' = inserted
  BY <1>4 DEF RecordsDistinct
<1> QED BY <1>2, <1>3, <1>4, RecordNews DEF DeleteSubject
-----------------------------------------------------------------------------
(* Snapshots.                                                              *)

(* A call takes its snapshot once, when it goes on from the lookup. *)
LEMMA CallSnaps ==
    ASSUME Typed, Next, DeletesRead, NEW r \in Requests
    PROVE  /\ req[r].snap = NoSubject \/ req'[r].snap = req[r].snap
           /\ req'[r].pc \in {"idle", "lookup"} => req'[r].snap = NoSubject
<1> DEFINE Good ==
        /\ req[r].snap = NoSubject \/ req'[r].snap = req[r].snap
        /\ req'[r].pc \in {"idle", "lookup"} => req'[r].snap = NoSubject
<1>1. req \in [Requests -> Call]
  BY DEF Typed, TypeOK
<1>2. \A q \in Requests :
          req[q].pc \in {"idle", "lookup"} => req[q].snap = NoSubject
  BY DEF DeletesRead
<1>3. CASE req'[r] = req[r]
  BY <1>2, <1>3
<1>4. CASE GrpcdStep
  <2>1. PICK q \in Requests :
           \/ Lookup(q) \/ AddExists(q) \/ AddEnroll(q) \/ RenewMissing(q)
           \/ RenewRevoke(q) \/ RenewEnroll(q) \/ RenewDelete(q)
           \/ DeleteCall(q) \/ CallAborts(q)
    BY <1>4 DEF GrpcdStep, GrpcdNext
  <2>2. ASSUME NEW pc, GoTo(q, pc),
               pc \in {"idle", "lookup"} => req[q].pc = "idle"
        PROVE  Good
    <3>1. /\ r # q => req'[r] = req[r]
          /\ req'[q].snap = req[q].snap
          /\ req'[q].pc = pc
      BY <1>1, <2>2 DEF GoTo, Call
    <3> QED BY <1>2, <1>3, <2>2, <3>1
  <2>3. CASE Lookup(q)
    BY <2>2, <2>3 DEF Lookup, At
  <2>4. CASE \/ AddExists(q) \/ AddEnroll(q) \/ RenewMissing(q)
             \/ RenewEnroll(q) \/ RenewDelete(q) \/ DeleteCall(q)
             \/ CallAborts(q)
    <3>1. GoTo(q, "failed") \/ GoTo(q, "done") \/ GoTo(q, "delete")
      BY <2>4 DEF AddExists, AddEnroll, RenewMissing, RenewEnroll, RenewDelete,
                  DeleteCall, CallAborts
    <3> QED BY <2>2, <3>1
  <2>5. CASE RenewRevoke(q)
    <3>1. /\ req' = [req EXCEPT ![q].pc = "enroll", ![q].snap = Answer1(q)]
          /\ req[q].pc = "lookup"
      BY <2>5 DEF RenewRevoke, At
    <3>2. /\ r # q => req'[r] = req[r]
          /\ req'[q].pc = "enroll"
      BY <1>1, <3>1 DEF Call
    <3> QED BY <1>2, <1>3, <3>1, <3>2
  <2> QED BY <2>1, <2>3, <2>4, <2>5
<1>5. CASE BrokerRestart
  <2>1. CASE req[r].pc \in {"lookup", "enroll", "delete"}
    <3>1. req'[r] = [req[r] EXCEPT !.pc = "failed"]
      BY <1>5, <2>1 DEF BrokerRestart
    <3>2. req'[r].snap = req[r].snap /\ req'[r].pc = "failed"
      BY <1>1, <3>1 DEF Call
    <3> QED BY <3>2
  <2>2. CASE req[r].pc \notin {"lookup", "enroll", "delete"}
    BY <1>3, <1>5, <2>2 DEF BrokerRestart
  <2> QED BY <2>1, <2>2
<1> QED BY <1>3, <1>4, <1>5, EnrolldFrame, CollectdFrame, RevokedFrame,
           DbdFrame, CheckerdFrame DEF Next

(* A check takes its snapshot once, when it starts. *)
LEMMA CheckSnaps ==
    ASSUME Typed, Next, DeletesRead, NEW x \in Checks
    PROVE  /\ check[x].snap = NoSubject \/ check'[x].snap = check[x].snap
           /\ check'[x].pc = "idle" => check'[x].snap = NoSubject
<1>1. check \in [Checks -> Checking]
  BY DEF Typed, TypeOK
<1>2. check[x].pc = "idle" => check[x].snap = NoSubject
  BY DEF DeletesRead
<1>3. CASE CheckStays(x) \/ CheckDeletes(x)
  <2>1. check'[x].snap = check[x].snap
    BY <1>3 DEF CheckStays, CheckDeletes
  <2>2. check'[x].pc = "idle" => check[x].pc = "idle"
    <3>1. CASE CheckStays(x)
      BY <3>1 DEF CheckStays
    <3>2. CASE CheckDeletes(x)
      <4>1. check'[x].pc = "revoke"
        BY <1>1, <3>2 DEF CheckDeletes, CheckDelete, Checking
      <4> QED BY <4>1
    <3> QED BY <1>3, <3>1, <3>2
  <2> QED BY <1>2, <2>1, <2>2
<1>4. CASE CheckReads(x)
  BY <1>2, <1>4 DEF CheckReads
<1> QED BY <1>3, <1>4, CheckMovesLemma

(* Who asks for a deletion has read the record: what DbNews names. *)
LEMMA ReadStays ==
    ASSUME Typed, Next, DeletesRead, NEW e, e.certId # 0, Read(e)
    PROVE  Read(e)'
<1>1. [id |-> e.id, certId |-> e.certId] # NoSubject
  BY DEF NoSubject
<1> QED BY <1>1, CallSnaps, CheckSnaps DEF Read

(* A deletion names what somebody has read and still knows. *)
LEMMA DeletesReadStep ==
    ASSUME IInv, Next, DeletesRead
    PROVE  DeletesRead'
<1>1. /\ Typed /\ req \in [Requests -> Call] /\ check \in [Checks -> Checking]
      /\ DOMAIN orders = 1 .. Len(orders) /\ Len(orders) \in Nat
  BY StepFacts DEF Typed, TypeOK
<1>2. ASSUME NEW e \in Messages(db'), e.cmd = "subj.delete" PROVE Read(e)'
  <2>1. CASE e \in Messages(db)
    <3>1. Read(e)
      BY <1>2, <2>1 DEF DeletesRead
    <3>2. e.certId # 0
      BY <1>1, <1>2, <2>1 DEF IInv, DeletesSuperseded, Superseded
    <3> QED BY <1>1, <3>1, <3>2, ReadStays
  <2>2. CASE e \notin Messages(db)
    <3>1. DbNews(e)
      BY <1>1, <2>2, DbNewsLemma
    <3>2. ASSUME NEW r \in Requests, RenewDelete(r),
                 e = DeleteEventSent(req[r].snap)
          PROVE  Read(e)'
      <4>1. req[r].snap \in Snapshot
        BY <1>1 DEF Call
      <4>2. req'[r].snap = req[r].snap
        BY <1>1, <3>2 DEF RenewDelete, GoTo, Call
      <4>3. req'[r].snap = [id |-> e.id, certId |-> e.certId]
        BY <3>2, <4>1, <4>2 DEF DeleteEventSent, Snapshot
      <4> QED BY <4>3 DEF Read
    <3>3. ASSUME NEW x \in Checks, CheckDelete(x),
                 e = DeleteEventSent(check[x].snap)
          PROVE  Read(e)'
      <4>1. check[x].snap \in Snapshot
        BY <1>1 DEF Checking
      <4>2. check'[x].snap = check[x].snap
        BY <1>1, <3>3 DEF CheckDelete, Checking
      <4>3. check'[x].snap = [id |-> e.id, certId |-> e.certId]
        BY <3>3, <4>1, <4>2 DEF DeleteEventSent, Snapshot
      <4> QED BY <4>3 DEF Read
    <3> QED BY <1>2, <3>1, <3>2, <3>3
            DEF DbNews, AddEventSent, UpdateEventSent, GetEventSent
  <2> QED BY <2>1, <2>2
<1> QED BY <1>1, <1>2, CallSnaps, CheckSnaps DEF DeletesRead

(* A record with a twin has one for good: who deletes the twin has read it. *)
LEMMA TwinStays ==
    ASSUME IInv, Next, DeletesRead, NEW rec \in subjects, InsertedTwice(rec)
    PROVE  InsertedTwice(rec)'
<1> DEFINE h == Head(db.ready)
<1>1. Typed /\ rec.certId # 0 /\ DeletesRead'
  BY StepFacts, DeletesReadStep DEF IInv, RecordsMatch, OrderWith, OrderFor
<1>2. ASSUME NEW r \in Requests, Twin(rec, req[r].snap)
      PROVE  InsertedTwice(rec)'
  <2>1. req[r].snap # NoSubject
    BY <1>1, <1>2 DEF Twin, NoSubject
  <2> QED BY <1>1, <1>2, <2>1, CallSnaps DEF InsertedTwice, Twin
<1>3. ASSUME NEW x \in Checks, Twin(rec, check[x].snap)
      PROVE  InsertedTwice(rec)'
  <2>1. check[x].snap # NoSubject
    BY <1>1, <1>3 DEF Twin, NoSubject
  <2> QED BY <1>1, <1>3, <2>1, CheckSnaps DEF InsertedTwice, Twin
<1>4. ASSUME NEW other \in subjects, Twin(rec, other)
      PROVE  InsertedTwice(rec)'
  <2>1. ASSUME NEW n \in subjects', n.id = other.id, n.certId = other.certId
        PROVE  InsertedTwice(rec)'
    BY <1>4, <2>1 DEF InsertedTwice, Twin
  <2>2. CASE \E n : Inserted(n)
    BY <2>1, <2>2 DEF Inserted
  <2>3. ASSUME NEW n, Completed(n) PROVE InsertedTwice(rec)'
    BY <2>1, <2>3 DEF Completed
  <2>4. CASE DeleteSubject
    <3>1. h \in Messages(db) /\ h.cmd = "subj.delete"
      BY <1>1, <2>4, CommandLemma DEF DeleteSubject
    <3>2. CASE other \in MatchingDelete(h)
      <4>1. Read(h) /\ h.id = other.id /\ h.certId = other.certId
        BY <3>1, <3>2 DEF DeletesRead, MatchingDelete
      <4>2. PICK snap : snap = [id |-> other.id, certId |-> other.certId]
        OBVIOUS
      <4>3. Twin(rec, snap)
        BY <1>4, <4>2 DEF Twin
      <4> QED BY <1>2, <1>3, <4>1, <4>2, <4>3 DEF Read
    <3>3. CASE other \notin MatchingDelete(h)
      BY <2>1, <2>4, <3>3 DEF DeleteSubject
    <3> QED BY <3>2, <3>3
  <2>5. CASE subjects' = subjects
    BY <2>1, <2>5
  <2> QED BY <2>2, <2>3, <2>4, <2>5, RecordNews
<1> QED BY <1>2, <1>3, <1>4 DEF InsertedTwice

(* An update leaves dbd's queue for a record of its order; one of the same *)
(* order that it leaves without a certificate is its twin.                 *)
LEMMA UpdateStays ==
    ASSUME CollectAssumption, IInv, Next, RecordsDistinct,
           NEW rec \in subjects, rec \in subjects', rec.cert = 0,
           UpdateWaits(rec.certId)
    PROVE  UpdateWaits(rec.certId)' \/ InsertedTwice(rec)'
<1> DEFINE h == Head(db.ready)
<1>1. Typed
  BY StepFacts
<1>2. PICK e \in Waiting(db) : e.cmd = "subj.update" /\ e.certId = rec.certId
  BY DEF UpdateWaits
<1>3. CASE e \in Waiting(db')
  BY <1>2, <1>3 DEF UpdateWaits
<1>4. CASE e \notin Waiting(db')
  <2>1. UpdateSubject /\ e = h
    BY <1>1, <1>2, <1>4, NothingDropped, DbNewsLemma, DbdQueue
  <2>2. rec \in MatchingCertId(h.certId)
    BY <1>2, <2>1 DEF MatchingCertId
  <2>3. PICK n : Completed(n) /\ n.certId = h.certId
    BY <2>1, <2>2, UpdateNews
  <2>4. PICK old \in subjects :
            /\ n.id = old.id /\ n.cert # 0
            /\ subjects' = (subjects \ {old}) \cup {n}
    BY <2>3 DEF Completed
  <2>5. old # rec /\ n \in subjects'
    BY <2>4
  <2>6. n.id # rec.id
    BY <2>4, <2>5 DEF RecordsDistinct
  <2> QED BY <1>2, <2>1, <2>3, <2>5, <2>6 DEF InsertedTwice, Twin
<1> QED BY <1>3, <1>4
-----------------------------------------------------------------------------
(* The collect queue.                                                      *)

(* What a step does to londo-collectd's messages: enrolld adds the order   *)
(* it holds, and only an acknowledgement takes one away.                   *)
LEMMA CollectQueue ==
    ASSUME IInv, Next, ~BrokerRestart
    PROVE  \/ /\ EnrollPublishCollect
              /\ Messages(collect') = Messages(collect)
                                      \cup {[certId |-> enrolld.certId]}
              /\ collect'.current = collect.current
           \/ /\ CollectAck
              /\ Messages(collect) = Messages(collect') \cup Range(collect.current)
              /\ collect'.current = <<>>
           \/ /\ Messages(collect') = Messages(collect)
              /\ \/ collect'.current \in {collect.current, <<>>}
                 \/ /\ CollectAnswered
                    /\ Head(collect.ready) \in Messages(collect)
                    /\ collect'.current = <<Head(collect.ready)>>
<1>1. /\ collect \in QueueOf(CollectEvent)
      /\ collect.current = <<>> <=> collectd = "idle"
  BY StepFacts DEF Typed, TypeOK, LondoTypeOK, OneInHand
<1>2. CASE EnrolldStep
  <2>1. CASE EnrollPublishCollect
    BY <1>1, <2>1, PutMessages DEF EnrollPublishCollect
  <2>2. CASE ~EnrollPublishCollect
    <3>1. UNCHANGED collect
      BY <1>2, <2>2
         DEF EnrolldStep, EnrolldNext, EnrollAccepted, EnrollRefused,
             EnrollAnswerLost, EnrollAnswerUnreadable, EnrollUnprepared,
             EnrollPublishAdd, EnrollPublishFails, EnrollAck, EnrolldCrash
    <3> QED BY <3>1
  <2> QED BY <2>1, <2>2
<1>3. CASE CollectdStep
  <2>1. CASE CollectAnswered
    BY <1>1, <2>1, TakeLemma, MessagesType DEF CollectAnswered, Collecting
  <2>2. CASE CollectNotReady
    BY <1>1, <2>2, TakeReturnLemma DEF CollectNotReady, Collecting
  <2>3. CASE CollectPublish
    BY <2>3 DEF CollectPublish
  <2>4. CASE CollectPublishFails \/ CollectdCrash
    BY <1>1, <2>4, ReturnLemma DEF CollectPublishFails, CollectdCrash
  <2>5. CASE CollectAck
    <3>1. /\ Messages(collect') = Waiting(collect)
          /\ collect'.current = <<>>
      BY <1>1, <2>5, SettleLemma DEF CollectAck
    <3> QED BY <2>5, <3>1 DEF Messages
  <2> QED BY <1>3, <2>1, <2>2, <2>3, <2>4, <2>5 DEF CollectdStep, CollectdNext
<1> QED BY <1>2, <1>3, RevokedFrame, DbdFrame, GrpcdFrame, CheckerdFrame
        DEF Next

(* An order becomes unrecorded only by being placed. *)
LEMMA UnrecordedNews ==
    ASSUME IInv, Next, NEW c \in DOMAIN orders, ~Unrecorded(c)
    PROVE  ~Unrecorded(c)'
<1>1. /\ Typed /\ c \in 1 .. Len(orders) /\ Len(orders) \in Nat
      /\ enrolld \in Enrolling
  BY StepFacts DEF Typed, TypeOK
<1>2. ASSUME enrolld'.pc \in {"collect", "add"}, enrolld'.certId = c
      PROVE  Unrecorded(c)
  <2>1. CASE UNCHANGED enrolld
    BY <1>2, <2>1 DEF Unrecorded
  <2>2. CASE EnrollAccepted
    BY <1>1, <1>2, <2>2 DEF EnrollAccepted
  <2>3. CASE EnrollPublishCollect
    <3>1. enrolld.pc = "collect" /\ enrolld'.certId = enrolld.certId
      BY <1>1, <2>3 DEF EnrollPublishCollect, Enrolling, EnrolldIdle
    <3> QED BY <1>2, <3>1 DEF Unrecorded
  <2>4. CASE EnrollPublishAdd
    <3>1. enrolld'.pc = "ack"
      BY <1>1, <2>4 DEF EnrollPublishAdd, Enrolling, EnrolldIdle
    <3> QED BY <1>2, <3>1
  <2>5. CASE enrolld' = EnrolldIdle
    BY <1>2, <2>5 DEF EnrolldIdle
  <2>6. CASE EnrolldStep
    BY <2>1, <2>2, <2>3, <2>4, <2>5, <2>6
       DEF EnrolldStep, EnrolldNext, EnrollRefused, EnrollAnswerLost,
           EnrollAnswerUnreadable, EnrollUnprepared, EnrollPublishFails,
           EnrollAck, EnrolldCrash
  <2>7. CASE BrokerRestart
    BY <2>5, <2>7 DEF BrokerRestart
  <2> QED BY <2>1, <2>6, <2>7, CollectdFrame, RevokedFrame, DbdFrame,
             GrpcdFrame, CheckerdFrame DEF Next
<1>3. ASSUME NEW e \in Messages(db'), e.cmd = "subj.add", e.certId = c
      PROVE  Unrecorded(c)
  <2>1. CASE e \in Messages(db)
    BY <1>3, <2>1 DEF Unrecorded
  <2>2. CASE EnrollPublishAdd /\ e = AddEventSent
    BY <1>3, <2>2 DEF EnrollPublishAdd, AddEventSent, Unrecorded
  <2> QED BY <1>1, <1>3, <2>1, <2>2, DbNewsLemma
          DEF DbNews, UpdateEventSent, GetEventSent, DeleteEventSent
<1> QED BY <1>2, <1>3 DEF Unrecorded

(* The collect event of an order outlasts the order's way into the         *)
(* database.                                                               *)
LEMMA CollectSentStays ==
    ASSUME IInv, Next, ~BrokerRestart, Uncollected, CollectedSent,
           NEW c, CollectSent(c), Unrecorded(c)
    PROVE  CollectSent(c)'
<1>1. PICK e \in Messages(collect) : e.certId = c
  BY DEF CollectSent
<1>2. CASE e \in Messages(collect')
  BY <1>1, <1>2 DEF CollectSent
<1>3. CASE e \notin Messages(collect')
  <2>1. CollectAck /\ e \in Range(collect.current)
    BY <1>1, <1>3, CollectQueue
  <2>2. c = Collected /\ collectd # "idle"
    BY <1>1, <2>1 DEF CollectedSent, CollectAck
  <2> QED BY <2>2 DEF Uncollected
<1> QED BY <1>2, <1>3

(* What collectd holds is a placed order. *)
LEMMA CollectedPlaced ==
    ASSUME IInv, Uncollected, collectd # "idle"
    PROVE  Collected \in DOMAIN orders
<1>1. collect \in QueueOf(CollectEvent) /\ collect.current # <<>>
  BY DEF IInv, TypeOK, LondoTypeOK, OneInHand
<1> QED BY <1>1, InHandLemma DEF Uncollected, Collected

(* An order is collected only after its record is in the database. *)
LEMMA UncollectedStep ==
    ASSUME CollectAssumption, IInv, Next, Uncollected, CollectedSent
    PROVE  Uncollected'
<1>1. /\ Typed /\ OrdersKept /\ ~BrokerRestart
      /\ enrolld \in Enrolling
      /\ collect \in QueueOf(CollectEvent)
      /\ collect.current = <<>> <=> collectd = "idle"
  BY StepFacts, NothingDropped DEF Typed, TypeOK, LondoTypeOK, OneInHand
<1>2. ASSUME NEW e \in Messages(collect') PROVE e.certId \in DOMAIN orders'
  <2>1. CASE e \in Messages(collect)
    BY <1>1, <2>1 DEF Uncollected, OrdersKept
  <2>2. CASE e \notin Messages(collect)
    <3>1. EnrollPublishCollect /\ e = [certId |-> enrolld.certId]
      BY <1>1, <2>2, CollectQueue
    <3>2. enrolld.certId \in DOMAIN orders
      BY <3>1 DEF IInv, InHandMatches, OrderWith, OrderFor, EnrollPublishCollect
    <3> QED BY <1>1, <3>1, <3>2 DEF OrdersKept
  <2> QED BY <2>1, <2>2
<1>3. ASSUME NEW e \in Messages(db'), e.cmd = "subj.update"
      PROVE  e.certId \in DOMAIN orders' /\ ~Unrecorded(e.certId)'
  <2>1. e.certId \in DOMAIN orders /\ ~Unrecorded(e.certId)
    <3>1. CASE e \in Messages(db)
      BY <1>3, <3>1 DEF Uncollected
    <3>2. CASE CollectPublish /\ e = UpdateEventSent
      BY <3>2, CollectedPlaced DEF CollectPublish, UpdateEventSent, Uncollected
    <3> QED BY <1>1, <1>3, <3>1, <3>2, DbNewsLemma
            DEF DbNews, AddEventSent, GetEventSent, DeleteEventSent
  <2> QED BY <1>1, <2>1, UnrecordedNews DEF OrdersKept
<1>4. ASSUME collectd' # "idle" PROVE ~Unrecorded(Collected)'
  <2>1. PICK c : c = Collected'
    OBVIOUS
  <2>2. c \in DOMAIN orders /\ ~Unrecorded(c)
    <3>1. CASE collectd # "idle" /\ collect'.current = collect.current
      <4>1. c = Collected
        BY <2>1, <3>1 DEF Collected
      <4> QED BY <3>1, <4>1, CollectedPlaced DEF Uncollected
    <3>2. CASE CollectAnswered
      <4>1. /\ c = Head(collect.ready).certId
            /\ Head(collect.ready) \in Messages(collect)
        BY <1>1, <2>1, <3>2, TakeLemma, MessagesType
           DEF CollectAnswered, Collecting, Collected
      <4>2. CollectdStep
        BY <3>2, EnrolldFrame, RevokedFrame, DbdFrame, GrpcdFrame,
           CheckerdFrame, <1>1 DEF Next, CollectAnswered, Collecting
      <4>3. ~Unrecorded(c)
        BY <3>2, <4>1, <4>2
           DEF CollectdStep, CollectAssumption, CollectAnswered
      <4> QED BY <4>1, <4>3 DEF Uncollected
    <3>3. CASE CollectdStep
      <4>1. CASE CollectPublish
        BY <3>1, <4>1 DEF CollectPublish
      <4> QED BY <1>4, <3>2, <3>3, <4>1
              DEF CollectdStep, CollectdNext, CollectNotReady, Collecting,
                  CollectPublishFails, CollectAck, CollectdCrash
    <3>4. CASE EnrolldStep
      <4>1. collectd # "idle"
        BY <1>4, <3>4, EnrolldFrame
      <4>2. collect'.current = collect.current
        BY <1>1, <3>4, PutMessages
           DEF EnrolldStep, EnrolldNext, EnrollAccepted, EnrollRefused,
               EnrollAnswerLost, EnrollAnswerUnreadable, EnrollUnprepared,
               EnrollPublishCollect, EnrollPublishAdd, EnrollPublishFails,
               EnrollAck, EnrolldCrash
      <4> QED BY <3>1, <4>1, <4>2
    <3>5. CASE UNCHANGED <<collect, collectd>>
      BY <1>4, <3>1, <3>5
    <3> QED BY <1>1, <3>3, <3>4, <3>5, RevokedFrame, DbdFrame, GrpcdFrame,
               CheckerdFrame DEF Next
  <2> QED BY <2>1, <2>2, UnrecordedNews
<1>5. ASSUME enrolld'.pc = "add" PROVE CollectSent(enrolld.certId)'
  <2>1. CASE EnrollPublishCollect
    <3>1. enrolld'.certId = enrolld.certId
      BY <1>1, <2>1 DEF EnrollPublishCollect, Enrolling, EnrolldIdle
    <3>2. [certId |-> enrolld.certId] \in Messages(collect')
      BY <1>1, <2>1, PutMessages DEF EnrollPublishCollect
    <3> QED BY <3>1, <3>2 DEF CollectSent
  <2>2. CASE UNCHANGED enrolld
    <3>1. CollectSent(enrolld.certId) /\ Unrecorded(enrolld.certId)
      BY <1>5, <2>2 DEF Uncollected, Unrecorded
    <3>2. PICK c : c = enrolld.certId
      OBVIOUS
    <3>3. CollectSent(c)'
      BY <1>1, <3>1, <3>2, CollectSentStays
    <3> QED BY <2>2, <3>2, <3>3
  <2>3. CASE EnrolldStep /\ ~EnrollPublishCollect
    <3>1. CASE EnrollAccepted \/ EnrollPublishAdd
      BY <1>1, <1>5, <3>1 DEF EnrollAccepted, EnrollPublishAdd, Enrolling,
                              EnrolldIdle
    <3>2. CASE EnrollPublishFails \/ EnrollAck \/ EnrolldCrash
      BY <1>5, <3>2 DEF EnrollPublishFails, EnrollAck, EnrolldCrash, EnrolldIdle
    <3> QED BY <2>2, <2>3, <3>1, <3>2
            DEF EnrolldStep, EnrolldNext, EnrollRefused, EnrollAnswerLost,
                EnrollAnswerUnreadable, EnrollUnprepared
  <2> QED BY <1>1, <2>1, <2>2, <2>3, CollectdFrame, RevokedFrame, DbdFrame,
             GrpcdFrame, CheckerdFrame DEF Next
<1>6. ASSUME NEW e \in Messages(db'), e.cmd = "subj.add"
      PROVE  CollectSent(e.certId)'
  <2>1. CollectSent(e.certId) /\ Unrecorded(e.certId)
    <3>1. CASE e \in Messages(db)
      BY <1>6, <3>1 DEF Uncollected, Unrecorded
    <3>2. CASE EnrollPublishAdd /\ e = AddEventSent
      BY <3>2 DEF EnrollPublishAdd, AddEventSent, Uncollected, Unrecorded
    <3> QED BY <1>1, <1>6, <3>1, <3>2, DbNewsLemma
            DEF DbNews, UpdateEventSent, GetEventSent, DeleteEventSent
  <2> QED BY <1>1, <2>1, CollectSentStays
<1> QED BY <1>2, <1>3, <1>4, <1>5, <1>6 DEF Uncollected
-----------------------------------------------------------------------------
(* A record somebody still has to complete, or dbd has inserted twice. *)
Covered(rec) == UpdateWaits(rec.certId) \/ InsertedTwice(rec)

(* It stays covered as long as it has no certificate. *)
LEMMA CoveredStays ==
    ASSUME CollectAssumption, IInv, Next, CollectInv,
           NEW rec \in subjects, rec \in subjects', rec.cert = 0, Covered(rec)
    PROVE  Covered(rec)'
BY UpdateStays, TwinStays DEF Covered, CollectInv

(* A new record without a certificate is one dbd has just inserted, and    *)
(* its collect event is out.                                               *)
LEMMA NewRecord ==
    ASSUME IInv, Next, CollectInv, NEW rec \in subjects', rec \notin subjects,
           rec.cert = 0
    PROVE  /\ Unrecorded(rec.certId) /\ CollectSent(rec.certId)
           /\ UNCHANGED <<collect, collectd>>
<1>1. Inserted(rec)
  BY RecordNews DEF Inserted, Completed, DeleteSubject
<1>2. /\ AddSubject /\ Head(db.ready) \in Messages(db)
      /\ Head(db.ready).cmd = "subj.add"
      /\ rec.certId = Head(db.ready).certId
  BY <1>1, IInvParts, CommandLemma DEF Inserted, AddSubject
<1>3. UNCHANGED collect
  BY <1>2 DEF AddSubject
<1>4. UNCHANGED collectd
  <2>1. ~UNCHANGED dbd
    BY <1>2 DEF AddSubject, Command, Handled
  <2>2. CASE BrokerRestart
    BY <1>2, <2>2 DEF BrokerRestart, AddSubject
  <2> QED BY <2>1, <2>2, EnrolldFrame, CollectdFrame, RevokedFrame, DbdFrame,
             GrpcdFrame, CheckerdFrame DEF Next
<1> QED BY <1>2, <1>3, <1>4 DEF CollectInv, Uncollected, Unrecorded

(* CollectPending: collectd lets an order go only with its certificate on  *)
(* the way to the record.                                                  *)
LEMMA CollectPendingStep ==
    ASSUME CollectAssumption, IInv, Next, CollectInv
    PROVE  CollectPending'
<1> SUFFICES ASSUME NEW rec \in subjects', rec.cert = 0
             PROVE  CollectSent(rec.certId)' \/ Covered(rec)'
  BY DEF CollectPending, CollectSent, Covered, UpdateWaits
<1>1. ~BrokerRestart
  BY NothingDropped
<1>2. CASE rec \in subjects
  <2>1. CASE Covered(rec)
    BY <1>2, <2>1, CoveredStays
  <2>2. ASSUME NEW e \in Messages(collect), e.certId = rec.certId
        PROVE  CollectSent(rec.certId)' \/ Covered(rec)'
    <3>1. CASE e \in Messages(collect')
      BY <2>2, <3>1 DEF CollectSent
    <3>2. CASE e \notin Messages(collect')
      <4>1. CollectAck /\ e \in Range(collect.current)
        BY <1>1, <3>2, CollectQueue
      <4>2. collectd = "ack" /\ rec.certId = Collected
        BY <2>2, <4>1 DEF CollectAck, CollectInv, CollectedSent
      <4>3. Covered(rec)
        BY <1>2, <4>2 DEF CollectInv, CollectedSent, Covered
      <4> QED BY <2>1, <4>3
    <3> QED BY <3>1, <3>2
  <2> QED BY <1>2, <2>1, <2>2
          DEF CollectInv, CollectPending, Covered, UpdateWaits
<1>3. CASE rec \notin subjects
  BY <1>3, NewRecord DEF CollectSent
<1> QED BY <1>2, <1>3

(* What collectd is about to acknowledge is on its way to the records. *)
LEMMA CollectedSentStep ==
    ASSUME CollectAssumption, IInv, Next, CollectInv
    PROVE  CollectedSent'
<1>1. /\ ~BrokerRestart /\ Typed /\ db \in QueueOf(DbEvent)
  BY NothingDropped, StepFacts DEF Typed, TypeOK, LondoTypeOK
<1>2. ASSUME NEW e \in Range(collect'.current) PROVE e.certId = Collected'
  <2>1. CASE collect'.current = collect.current
    BY <1>2, <2>1 DEF CollectInv, CollectedSent, Collected
  <2>2. CASE collect'.current = <<>>
    BY <1>2, <2>2, EmptyRange
  <2>3. CASE collect'.current = <<Head(collect.ready)>>
    BY <1>2, <2>3 DEF Collected, Range
  <2> QED BY <1>1, <2>1, <2>2, <2>3, CollectQueue
<1>3. ASSUME collectd' = "ack", NEW rec \in subjects',
             rec.certId = Collected', rec.cert = 0
      PROVE  Covered(rec)'
  <2>1. CASE CollectPublish
    <3>1. /\ UpdateEventSent \in Waiting(db')
          /\ Collected' = Collected
      BY <1>1, <2>1, PutMessages
         DEF CollectPublish, UpdateEventSent, Collected
    <3>2. UpdateEventSent.cmd = "subj.update" /\ UpdateEventSent.certId = Collected
      BY DEF UpdateEventSent
    <3> QED BY <1>3, <3>1, <3>2 DEF Covered, UpdateWaits
  <2>2. CASE collectd = "ack" /\ Collected' = Collected
    <3>1. CASE rec \in subjects
      <4>1. Covered(rec)
        BY <1>3, <2>2, <3>1 DEF CollectInv, CollectedSent, Covered
      <4> QED BY <1>3, <3>1, <4>1, CoveredStays
    <3>2. CASE rec \notin subjects
      <4>1. Unrecorded(Collected)
        BY <1>3, <2>2, <3>2, NewRecord
      <4> QED BY <2>2, <4>1 DEF CollectInv, Uncollected
    <3> QED BY <3>1, <3>2
  <2>3. CASE CollectdStep
    BY <1>3, <2>1, <2>3
       DEF CollectdStep, CollectdNext, CollectAnswered, CollectNotReady,
           Collecting, CollectPublishFails, CollectAck, CollectdCrash
  <2>4. CASE ~CollectdStep
    <3>1. UNCHANGED collectd
      BY <1>1, <2>4, EnrolldFrame, RevokedFrame, DbdFrame, GrpcdFrame,
         CheckerdFrame DEF Next
    <3>2. collect'.current = collect.current
      <4>1. ~CollectAck /\ ~CollectAnswered
        BY <1>3, <3>1 DEF CollectAck, CollectAnswered, Collecting
      <4>2. collect'.current # <<>>
        BY <1>3, StepFacts DEF Typed, OneInHand
      <4> QED BY <1>1, <4>1, <4>2, CollectQueue
    <3> QED BY <1>3, <2>2, <3>1, <3>2 DEF Collected
  <2> QED BY <2>3, <2>4
<1> QED BY <1>2, <1>3 DEF CollectedSent, Covered
-----------------------------------------------------------------------------
(* Before the first message there is nothing to collect. *)
LEMMA CollectInit ==
    ASSUME Init
    PROVE  CollectInv
<1>1. /\ Messages(db) = {} /\ Messages(collect) = {}
      /\ Range(collect.current) = {} /\ subjects = {}
      /\ enrolld.pc = "idle" /\ collectd = "idle"
  BY EmptyQueueLemma, EmptyRange
     DEF Init, LondoInit, EnrolldInit, CollectdInit, DbdInit, EnrolldIdle
<1>2. /\ \A r \in Requests : req[r].snap = NoSubject
      /\ \A x \in Checks : check[x].snap = NoSubject
  BY DEF Init, GrpcdInit, CheckerdInit
<1> QED BY <1>1, <1>2
        DEF CollectInv, RecordsDistinct, DeletesRead, Uncollected,
            CollectPending, CollectedSent

(* Every step preserves CollectInv. *)
LEMMA CollectStep ==
    ASSUME CollectAssumption, IInv, [Next]_vars, CollectInv
    PROVE  CollectInv'
<1>1. CASE Next
  BY <1>1, RecordsDistinctStep, DeletesReadStep, UncollectedStep,
     CollectPendingStep, CollectedSentStep DEF CollectInv
<1>2. CASE UNCHANGED vars
  <2> USE <1>2 DEF vars, queueVars, dbdVars, grpcdVars
  <2>1. RecordsDistinct' /\ DeletesRead'
    BY DEF CollectInv, RecordsDistinct, DeletesRead, Read
  <2>2. Uncollected'
    BY DEF CollectInv, Uncollected, Unrecorded, Collected, CollectSent
  <2>3. CollectPending' /\ CollectedSent'
    BY DEF CollectInv, CollectPending, CollectedSent, Collected, UpdateWaits,
           InsertedTwice
  <2> QED BY <2>1, <2>2, <2>3 DEF CollectInv
<1> QED BY <1>1, <1>2

(* An order is collected only once its record is there, and given up by    *)
(* collectd only with its certificate in dbd's queue.                      *)
THEOREM CollectInvariance ==
    ASSUME CollectAssumption PROVE Spec => []CollectInv
<1>1. Init => CollectInv
  BY CollectInit
<1>2. IInv /\ CollectInv /\ [Next]_vars => CollectInv'
  BY CollectStep
<1> QED BY <1>1, <1>2, Invariance, PTL DEF Spec

(* A record without a certificate gets one, or was inserted twice: through *)
(* refusals, crashes of every daemon and redelivered messages, somebody    *)
(* still holds its order or its certificate.                               *)
THEOREM CollectPendingHolds ==
    ASSUME CollectAssumption PROVE Spec => []CollectPending
<1>1. CollectInv => CollectPending
  BY DEF CollectInv
<1> QED BY <1>1, CollectInvariance, PTL
-----------------------------------------------------------------------------
(* Deletions.                                                              *)

(* What names a record goes on naming it: ids are never given again, and   *)
(* an update changes neither the id nor the order of a record.             *)
LEMMA ExactStays ==
    ASSUME IInv, Next, NEW snap, Exact(snap)
    PROVE  Exact(snap)'
<1>1. inserted \in Nat
  BY IInvParts DEF Typed, TypeOK
<1>2. ASSUME NEW n, Inserted(n) PROVE Exact(snap)'
  <2>1. n.id # snap.id /\ snap.id \in 0 .. inserted'
    BY <1>1, <1>2 DEF Inserted, Exact
  <2> QED BY <1>2, <2>1 DEF Inserted, Exact
<1>3. ASSUME NEW n, Completed(n), inserted' = inserted PROVE Exact(snap)'
  BY <1>3 DEF Completed, Exact
<1>4. CASE subjects' \subseteq subjects /\ inserted' = inserted
  BY <1>4 DEF Exact
<1> QED BY <1>2, <1>3, <1>4, RecordNews DEF DeleteSubject

(* dbd answers with a record as it is, or with the empty subject. *)
LEMMA AnswersExact ==
    ASSUME IInv, Next, RecordsDistinct, SnapshotsExact,
           NEW r \in Requests, NEW snap \in Range(reply'[r])
    PROVE  Exact(snap)
<1> DEFINE h == Head(db.ready)
<1>1. /\ reply \in [Requests -> Seq(Snapshot)] /\ inserted \in Nat
      /\ \A old \in Range(reply[r]) : Exact(old)
  BY StepFacts DEF Typed, TypeOK, LondoTypeOK, SnapshotsExact
<1>2. CASE reply'[r] = reply[r]
  BY <1>1, <1>2
<1>3. ASSUME NEW n, Answer(h.replyTo, n), Exact(n) PROVE Exact(snap)
  <2>1. CASE reply'[r] # reply[r]
    <3>1. reply'[r] = <<n>>
      BY <1>1, <1>3, <2>1 DEF Answer
    <3>2. Range(<<n>>) = {n}
      BY DEF Range
    <3> QED BY <1>3, <3>1, <3>2
  <2> QED BY <1>2, <2>1
<1>4. Exact(NoSubject)
  <2>1. NoSubject.id = 0
    BY DEF NoSubject
  <2> QED BY <1>1, <2>1 DEF Exact, RecordsDistinct
<1>5. ASSUME NEW s, NEW n \in Found(s) PROVE Exact(n)
  <2>1. CASE n = NoSubject
    BY <1>4, <2>1
  <2>2. CASE n # NoSubject
    <3>1. PICK rec \in subjects : n = [id |-> rec.id, certId |-> rec.certId]
      BY <1>5, <2>2 DEF Found
    <3>2. n.id = rec.id /\ n.certId = rec.certId
      BY <3>1
    <3> QED BY <1>1, <3>2 DEF Exact, RecordsDistinct
  <2> QED BY <2>1, <2>2
<1>6. CASE GetSubject
  BY <1>3, <1>5, <1>6 DEF GetSubject
<1>7. CASE GetSubjectFails
  BY <1>3, <1>4, <1>7 DEF GetSubjectFails
<1>8. CASE DbdStep
  BY <1>2, <1>6, <1>7, <1>8
     DEF DbdStep, DbdNext, AddSubject, AddSubjectFails, UpdateSubject,
         UpdateSubjectFails, DeleteSubject, DeleteSubjectNone,
         DeleteSubjectFails, GetSubjectUnanswered, DbdAck, DbdCrash
<1>9. CASE BrokerRestart
  BY <1>9, EmptyRange DEF BrokerRestart
<1> QED BY <1>2, <1>8, <1>9, EnrolldFrame, CollectdFrame, RevokedFrame,
           GrpcdFrame, CheckerdFrame DEF Next

(* What a call has read names one record for good. *)
LEMMA SnapshotsExactStep ==
    ASSUME IInv, Next, RecordsDistinct, SnapshotsExact
    PROVE  SnapshotsExact'
<1>1. ASSUME NEW r \in Requests, NEW snap \in Range(reply'[r])
      PROVE  Exact(snap)'
  BY <1>1, AnswersExact, ExactStays
<1>2. ASSUME NEW r \in Requests PROVE Exact(req[r].snap)'
  <2>1. PICK snap : snap = req'[r].snap
    OBVIOUS
  <2>2. CASE snap = req[r].snap
    BY <2>1, <2>2, ExactStays DEF SnapshotsExact, Exact
  <2>3. CASE CallRevokes(r)
    <3>1. reply[r] \in Seq(Snapshot) /\ reply[r] # <<>>
      BY <2>3, StepFacts
         DEF CallRevokes, RenewRevoke, Answered, Typed, TypeOK, LondoTypeOK
    <3>2. Answer1(r) \in Range(reply[r])
      BY <3>1, HeadTailRange DEF Answer1
    <3>3. Exact(snap)
      BY <2>1, <2>3, <3>2 DEF CallRevokes, SnapshotsExact
    <3>4. Exact(snap)'
      BY <3>3, ExactStays
    <3> QED BY <2>1, <3>4 DEF Exact
  <2> QED BY <2>1, <2>2, <2>3, StepFacts, CallMovesLemma
          DEF CallStays, CallMoves, CallEnrolls
<1> QED BY <1>1, <1>2 DEF SnapshotsExact

(* A renewal is answered in the step that asks dbd for the deletion. *)
LEMMA RenewalEnds ==
    ASSUME Typed, Next, NEW r \in Requests, At(r, "renew", "done")'
    PROVE  /\ At(r, "renew", "done") \/ RenewDelete(r)
           /\ req'[r].snap = req[r].snap
<1> DEFINE Good == /\ At(r, "renew", "done") \/ RenewDelete(r)
                   /\ req'[r].snap = req[r].snap
<1>1. req \in [Requests -> Call]
  BY DEF Typed, TypeOK
<1>2. CASE req'[r] = req[r]
  BY <1>2 DEF At
<1>3. CASE GrpcdStep
  <2>1. PICK q \in Requests :
           \/ Lookup(q) \/ AddExists(q) \/ AddEnroll(q) \/ RenewMissing(q)
           \/ RenewRevoke(q) \/ RenewEnroll(q) \/ RenewDelete(q)
           \/ DeleteCall(q) \/ CallAborts(q)
    BY <1>3 DEF GrpcdStep, GrpcdNext
  <2>2. ASSUME NEW pc, GoTo(q, pc)
        PROVE  /\ r # q => req'[r] = req[r]
               /\ req'[q].op = req[q].op
               /\ req'[q].snap = req[q].snap
               /\ req'[q].pc = pc
    BY <1>1, <2>2 DEF GoTo, Call
  <2>3. CASE RenewDelete(q)
    BY <1>2, <2>2, <2>3 DEF RenewDelete
  <2>4. CASE AddEnroll(q) \/ DeleteCall(q)
    <3>1. GoTo(q, "done") /\ req[q].op # "renew"
      BY <2>4 DEF AddEnroll, DeleteCall, At
    <3> QED BY <1>2, <2>2, <3>1 DEF At
  <2>5. CASE \/ Lookup(q) \/ AddExists(q) \/ RenewMissing(q)
             \/ RenewEnroll(q) \/ CallAborts(q)
    <3>1. GoTo(q, "lookup") \/ GoTo(q, "failed") \/ GoTo(q, "delete")
      BY <2>5 DEF Lookup, AddExists, RenewMissing, RenewEnroll, CallAborts
    <3> QED BY <1>2, <2>2, <3>1 DEF At
  <2>6. CASE RenewRevoke(q)
    <3>1. req' = [req EXCEPT ![q].pc = "enroll", ![q].snap = Answer1(q)]
      BY <2>6 DEF RenewRevoke
    <3>2. /\ r # q => req'[r] = req[r]
          /\ req'[q].pc = "enroll"
      BY <1>1, <3>1 DEF Call
    <3> QED BY <1>2, <3>2 DEF At
  <2> QED BY <2>1, <2>3, <2>4, <2>5, <2>6
<1>4. CASE BrokerRestart
  <2>1. CASE req[r].pc \in {"lookup", "enroll", "delete"}
    <3>1. req'[r] = [req[r] EXCEPT !.pc = "failed"]
      BY <1>4, <2>1 DEF BrokerRestart
    <3>2. req'[r].pc = "failed"
      BY <1>1, <3>1 DEF Call
    <3> QED BY <3>2 DEF At
  <2>2. CASE req[r].pc \notin {"lookup", "enroll", "delete"}
    BY <1>2, <1>4, <2>2 DEF BrokerRestart
  <2> QED BY <2>1, <2>2
<1> QED BY <1>2, <1>3, <1>4, EnrolldFrame, CollectdFrame, RevokedFrame,
           DbdFrame, CheckerdFrame DEF Next

(* What a step does to dbd's queue: a message leaves it when dbd           *)
(* acknowledges it or rejects it for good, as it does only with an update, *)
(* and dbd holds a deletion only after it has made it.                     *)
LEMMA DbMessageKept ==
    ASSUME Typed, Next, ~BrokerRestart
    PROVE  /\ \A e \in Messages(db) :
                 \/ e \in Messages(db')
                 \/ DbdAck /\ e \in Range(db.current)
                 \/ UpdateSubjectFails /\ e.cmd = "subj.update"
           /\ \A e \in Range(db'.current) :
                 e.cmd = "subj.delete" =>
                     \/ DeleteSubject /\ e = Head(db.ready)
                     \/ e \in Range(db.current) /\ UNCHANGED subjects
<1> DEFINE h == Head(db.ready)
           Good == /\ \A e \in Messages(db) :
                         \/ e \in Messages(db')
                         \/ DbdAck /\ e \in Range(db.current)
                         \/ UpdateSubjectFails /\ e.cmd = "subj.update"
                   /\ \A e \in Range(db'.current) :
                         e.cmd = "subj.delete" =>
                             \/ DeleteSubject /\ e = h
                             \/ e \in Range(db.current) /\ UNCHANGED subjects
<1>1. db \in QueueOf(DbEvent) /\ (db.current = <<>> <=> dbd = "idle")
  BY DEF Typed, TypeOK, LondoTypeOK, OneInHand
<1>2. Range(<<>>) = {} /\ Range(<<h>>) = {h}
  BY EmptyRange DEF Range
<1>3. ASSUME NEW cmd, Command(cmd)
      PROVE  db.ready # <<>> /\ db.current = <<>> /\ h.cmd = cmd
  BY <1>1, <1>3 DEF Command
<1>4. CASE UNCHANGED <<db, subjects>>
  BY <1>4
<1>5. ASSUME NEW m, db' = Put(db, m), UNCHANGED subjects PROVE Good
  BY <1>1, <1>5, PutMessages
<1>6. ASSUME NEW cmd, Command(cmd), db' \in {Requeue(Take(db)), Forget(Take(db))}
      PROVE  Good
  BY <1>1, <1>2, <1>3, <1>6, TakeReturnLemma
<1>7. ASSUME NEW cmd, Command(cmd), Handled,
             cmd = "subj.delete" => DeleteSubject
      PROVE  Good
  <2>1. Messages(db') = Messages(db) /\ db'.current = <<h>>
    BY <1>1, <1>3, <1>7, TakeLemma DEF Handled
  <2> QED BY <1>2, <1>3, <1>7, <2>1
<1>8. CASE \/ AddSubject \/ UpdateSubject \/ DeleteSubject
           \/ GetSubject \/ GetSubjectFails
  BY <1>7, <1>8 DEF AddSubject, UpdateSubject, DeleteSubject, GetSubject,
                    GetSubjectFails
<1>9. CASE \/ AddSubjectFails \/ DeleteSubjectNone \/ DeleteSubjectFails
           \/ GetSubjectUnanswered
  BY <1>6, <1>9 DEF AddSubjectFails, DeleteSubjectNone, DeleteSubjectFails,
                    GetSubjectUnanswered, Requeued
<1>10. CASE UpdateSubjectFails
  <2>1. db.ready # <<>> /\ db.current = <<>> /\ h.cmd = "subj.update"
    BY <1>3, <1>10 DEF UpdateSubjectFails
  <2>2. /\ Waiting(db) = Waiting(db') \cup {h} /\ db'.current = <<>>
    BY <1>1, <1>10, <2>1, TakeSettleLemma DEF UpdateSubjectFails, Rejected
  <2>3. Messages(db) = Waiting(db) /\ Waiting(db') \subseteq Messages(db')
    BY <1>2, <2>1 DEF Messages
  <2> QED BY <1>2, <1>10, <2>1, <2>2, <2>3
<1>11. CASE DbdAck
  <2>1. Messages(db') = Waiting(db) /\ db'.current = <<>>
    BY <1>1, <1>11, SettleLemma DEF DbdAck
  <2> QED BY <1>2, <1>11, <2>1 DEF Messages
<1>12. CASE DbdCrash
  BY <1>1, <1>2, <1>12, ReturnLemma DEF DbdCrash
<1>13. CASE DbdStep
  BY <1>8, <1>9, <1>10, <1>11, <1>12, <1>13 DEF DbdStep, DbdNext
<1>14. CASE EnrolldStep
  <2>1. UNCHANGED subjects
    BY <1>14, EnrolldFrame
  <2> QED BY <1>4, <1>5, <1>14, <2>1
          DEF EnrolldStep, EnrolldNext, EnrollAccepted, EnrollRefused,
              EnrollAnswerLost, EnrollAnswerUnreadable, EnrollUnprepared,
              EnrollPublishCollect, EnrollPublishAdd, EnrollPublishFails,
              EnrollAck, EnrolldCrash
<1>15. CASE CollectdStep
  <2>1. UNCHANGED subjects
    BY <1>15, CollectdFrame
  <2> QED BY <1>4, <1>5, <1>15, <2>1
          DEF CollectdStep, CollectdNext, CollectAnswered, CollectNotReady,
              CollectPublish, CollectPublishFails, CollectAck, CollectdCrash
<1>16. CASE GrpcdStep
  <2>1. UNCHANGED subjects
    BY <1>16, GrpcdFrame
  <2> QED BY <1>4, <1>5, <1>16, <2>1
          DEF GrpcdStep, GrpcdNext, Lookup, AddExists, AddEnroll, RenewMissing,
              RenewRevoke, RenewEnroll, RenewDelete, DeleteCall, CallAborts
<1>17. CASE CheckerdStep
  <2>1. UNCHANGED subjects
    BY <1>17, CheckerdFrame
  <2> QED BY <1>4, <1>5, <1>17, <2>1
          DEF CheckerdStep, CheckRead, CheckDelete, CheckRevoke, CheckAborts
<1> QED BY <1>4, <1>13, <1>14, <1>15, <1>16, <1>17, RevokedFrame DEF Next

(* A deletion dbd holds has been made: nobody else touches the records     *)
(* until it is acknowledged.                                               *)
LEMMA DeletionsDoneStep ==
    ASSUME BrokerKeeps, IInv, Next, DeletionsDone
    PROVE  DeletionsDone'
<1> SUFFICES ASSUME NEW e \in Range(db'.current), e.cmd = "subj.delete"
             PROVE  MatchingDelete(e)' = {}
  BY DEF DeletionsDone
<1>1. ~BrokerRestart /\ Typed
  BY StepFacts DEF BrokerKeeps, BrokerRestart, Fault
<1>2. CASE DeleteSubject /\ e = Head(db.ready)
  <2>1. subjects' = subjects \ MatchingDelete(e)
    BY <1>2 DEF DeleteSubject
  <2> QED BY <2>1 DEF MatchingDelete
<1>3. CASE e \in Range(db.current) /\ UNCHANGED subjects
  BY <1>3 DEF DeletionsDone, MatchingDelete
<1> QED BY <1>1, <1>2, <1>3, DbMessageKept

(* The deletion of a replaced record stays with dbd until the record is    *)
(* gone.                                                                   *)
LEMMA DeletionPendingStep ==
    ASSUME BrokerKeeps, IInv, Next, DeletionInv
    PROVE  DeletionPending'
<1> SUFFICES ASSUME NEW r \in Requests, At(r, "renew", "done")'
             PROVE  DeletionKept(r)'
  BY DEF DeletionPending
<1>1. /\ ~BrokerRestart /\ Typed /\ db \in QueueOf(DbEvent)
      /\ inserted \in Nat
  BY StepFacts DEF BrokerKeeps, BrokerRestart, Fault, Typed, TypeOK, LondoTypeOK
<1>2. PICK snap : snap = req[r].snap
  OBVIOUS
<1>3. /\ At(r, "renew", "done") \/ RenewDelete(r)
      /\ req'[r].snap = snap
      /\ Exact(snap)
  BY <1>1, <1>2, RenewalEnds DEF DeletionInv, SnapshotsExact, Exact
<1>4. CASE RenewDelete(r)
  <2>1. PICK e : e = DeleteEventSent(snap)
    OBVIOUS
  <2>2. e \in Messages(db')
    BY <1>1, <1>2, <1>4, <2>1, PutMessages DEF RenewDelete, DeleteEventSent
  <2>3. e.cmd = "subj.delete" /\ e.id = snap.id /\ e.certId = snap.certId
    BY <2>1 DEF DeleteEventSent
  <2> QED BY <1>3, <2>2, <2>3 DEF DeletionKept
<1>5. ASSUME \A rec \in subjects : rec.id # snap.id
      PROVE  DeletionKept(r)'
  <2>1. \A rec \in subjects' : rec.id # snap.id
    <3>1. ASSUME NEW n, Inserted(n) PROVE \A rec \in subjects' : rec.id # snap.id
      BY <1>1, <1>3, <1>5, <3>1 DEF Inserted, Exact
    <3>2. ASSUME NEW n, Completed(n) PROVE \A rec \in subjects' : rec.id # snap.id
      BY <1>5, <3>2 DEF Completed
    <3> QED BY <1>5, <3>1, <3>2, RecordNews DEF DeleteSubject
  <2> QED BY <1>3, <2>1 DEF DeletionKept
<1>6. ASSUME NEW e \in Messages(db), e.cmd = "subj.delete",
             e.id = snap.id, e.certId = snap.certId
      PROVE  DeletionKept(r)'
  <2>1. CASE e \in Messages(db')
    BY <1>3, <1>6, <2>1 DEF DeletionKept
  <2>2. CASE DbdAck /\ e \in Range(db.current)
    <3>1. MatchingDelete(e) = {}
      BY <1>6, <2>2 DEF DeletionInv, DeletionsDone
    <3>2. \A rec \in subjects : rec.id # snap.id
      BY <1>3, <1>6, <3>1 DEF MatchingDelete, Exact
    <3> QED BY <1>5, <3>2
  <2> QED BY <1>1, <1>6, <2>1, <2>2, DbMessageKept
<1>7. CASE At(r, "renew", "done")
  BY <1>2, <1>5, <1>6, <1>7 DEF DeletionInv, DeletionPending, DeletionKept
<1> QED BY <1>3, <1>4, <1>7

(* While the broker keeps its queues, dbd settles no deletion of a renewal *)
(* before the record it names is gone, and no other record takes its id.   *)
THEOREM DeletionInvariance == ASSUME BrokerKeeps PROVE Spec => []DeletionInv
<1>1. Init => DeletionInv
  <2>1. ASSUME Init PROVE DeletionInv
    <3>1. /\ Range(db.current) = {} /\ subjects = {} /\ inserted = 0
          /\ \A r \in Requests : Range(reply[r]) = {}
      BY <2>1, EmptyRange DEF Init, LondoInit, DbdInit, EmptyQueue
    <3>2. \A r \in Requests : req[r].snap = NoSubject /\ req[r].pc = "idle"
      BY <2>1 DEF Init, GrpcdInit
    <3> QED BY <3>1, <3>2
            DEF DeletionInv, RecordsDistinct, SnapshotsExact, Exact, NoSubject,
                DeletionsDone, DeletionPending, At
  <2> QED BY <2>1
<1>2. IInv /\ DeletionInv /\ [Next]_vars => DeletionInv'
  <2>1. ASSUME IInv, DeletionInv, Next PROVE DeletionInv'
    BY <2>1, RecordsDistinctStep, SnapshotsExactStep, DeletionsDoneStep,
       DeletionPendingStep DEF DeletionInv
  <2>2. ASSUME DeletionInv, UNCHANGED vars PROVE DeletionInv'
    BY <2>2 DEF vars, queueVars, dbdVars, grpcdVars, DeletionInv,
                RecordsDistinct, SnapshotsExact, Exact, DeletionsDone,
                MatchingDelete, DeletionPending, DeletionKept, At
  <2> QED BY <2>1, <2>2
<1> QED BY <1>1, <1>2, Invariance, PTL DEF Spec

(* The old record of a renewal that was answered is gone for good, or dbd  *)
(* still has the event that deletes it, whatever failed and in whatever    *)
(* order the events were handled.                                          *)
THEOREM DeletionPendingHolds == ASSUME BrokerKeeps PROVE Spec => []DeletionPending
<1>1. DeletionInv => DeletionPending
  BY DEF DeletionInv
<1> QED BY <1>1, DeletionInvariance, PTL
=============================================================================
