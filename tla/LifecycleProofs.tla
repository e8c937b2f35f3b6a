---------------------------- MODULE LifecycleProofs -------------------------
(***************************************************************************)
(* The safety invariants of Lifecycle hold for any number of subjects,     *)
(* keys, calls, checks, orders and failures.  IInv is inductive; the       *)
(* argument is in three parts:                                             *)
(*   - where messages come from and how a call moves (the News lemmas);    *)
(*   - a subject that is kept stays kept (KeptStable): a deletion finds    *)
(*     only records with a successor, everything else only adds;           *)
(*   - each conjunct of IInv from these.                                   *)
(***************************************************************************)
EXTENDS LifecycleTypes

(* Two weaker facts that most lemmas need of the inductive invariant. *)
LEMMA IInvParts ==
    ASSUME IInv
    PROVE  Typed /\ RevokesKnown
BY DEF IInv, Typed, RevokesKnown, RevokesReplaced

(* What each daemon leaves alone. *)
LEMMA EnrolldFrame ==
    ASSUME EnrolldStep
    PROVE  UNCHANGED <<revoke, revokeDeclared, reply, collectd, revoked,
                       subjects, inserted, dbd, req, accepted, unrouted, check>>
BY DEF EnrolldStep, EnrolldNext, EnrollAccepted, EnrollRefused,
       EnrollAnswerLost, EnrollAnswerUnreadable, EnrollUnprepared,
       EnrollPublishCollect, EnrollPublishAdd, EnrollPublishFails, EnrollAck,
       EnrolldCrash, dbdVars, grpcdVars

(* What londo-collectd leaves alone. *)
LEMMA CollectdFrame ==
    ASSUME CollectdStep
    PROVE  UNCHANGED <<enroll, revoke, revokeDeclared, reply, orders, excused,
                       enrolld, revoked, subjects, inserted, dbd, req,
                       accepted, unrouted, check>>
BY DEF CollectdStep, CollectdNext, CollectAnswered, CollectNotReady,
       CollectPublish, CollectPublishFails, CollectAck, CollectdCrash,
       dbdVars, grpcdVars

(* What londo-revoked leaves alone. *)
LEMMA RevokedFrame ==
    ASSUME RevokedStep
    PROVE  UNCHANGED <<enroll, collect, db, reply, excused, enrolld, collectd,
                       subjects, inserted, dbd, req, accepted, unrouted, check>>
BY DEF RevokedStep, RevokedNext, DeclareRevoke, RevokeAnswered, RevokeRefused,
       RevokeAnswerLost, RevokeAck, RevokedCrash, dbdVars, grpcdVars

(* What londo-dbd leaves alone. *)
LEMMA DbdFrame ==
    ASSUME DbdStep
    PROVE  UNCHANGED <<enroll, collect, revoke, revokeDeclared, orders, excused,
                       enrolld, collectd, revoked, req, accepted, unrouted,
                       check>>
BY DEF DbdStep, DbdNext, AddSubject, AddSubjectFails, UpdateSubject,
       UpdateSubjectFails, DeleteSubject, DeleteSubjectNone,
       DeleteSubjectFails, GetSubject, GetSubjectFails, GetSubjectUnanswered,
       DbdAck, DbdCrash, grpcdVars

(* What the calls of londo-grpcd leave alone. *)
LEMMA GrpcdFrame ==
    ASSUME GrpcdStep
    PROVE  UNCHANGED <<collect, revokeDeclared, reply, orders, excused, enrolld,
                       collectd, revoked, subjects, inserted, dbd, check>>
BY DEF GrpcdStep, GrpcdNext, Lookup, AddExists, AddEnroll, RenewMissing,
       RenewRevoke, RenewEnroll, RenewDelete, DeleteCall, CallAborts, dbdVars

(* What the checks of londo-checkerd leave alone. *)
LEMMA CheckerdFrame ==
    ASSUME CheckerdStep
    PROVE  UNCHANGED <<enroll, collect, revokeDeclared, reply, orders, enrolld,
                       collectd, revoked, subjects, inserted, dbd, req,
                       accepted, unrouted>>
BY DEF CheckerdStep, CheckRead, CheckDelete, CheckRevoke, CheckAborts,
       dbdVars, grpcdVars
-----------------------------------------------------------------------------
(* Where a message for dbd comes from. *)
AddEventSent ==
    [cmd |-> "subj.add", subject |-> enroll.current[1].subject,
     key |-> enrolld.key, certId |-> enrolld.certId]
UpdateEventSent == [cmd |-> "subj.update", certId |-> Collected, cert |-> Collected]
GetEventSent(r) == [cmd |-> "subj.get", subject |-> req[r].subject, replyTo |-> r]
DeleteEventSent(snap) ==
    [cmd |-> "subj.delete", id |-> snap.id, certId |-> snap.certId]

DbNews(e) ==
    \/ EnrollPublishAdd /\ e = AddEventSent
    \/ CollectPublish /\ e = UpdateEventSent
    \/ \E r \in Requests : Lookup(r) /\ e = GetEventSent(r)
    \/ \E r \in Requests : RenewDelete(r) /\ e = DeleteEventSent(req[r].snap)
    \/ \E x \in Checks :
          CheckDelete(x) /\ Excuse(GivenUp(x)) /\ e = DeleteEventSent(check[x].snap)

(* What one step does to the messages of dbd's queue. *)
LEMMA DbdQueue ==
    ASSUME Typed, DbdStep
    PROVE  /\ Messages(db') \subseteq Messages(db)
           /\ \A e \in Waiting(db) :
                 \/ e \in Waiting(db')
                 \/ /\ e = Head(db.ready)
                    /\ e.cmd = "subj.add" => AddSubject
                    /\ e.cmd = "subj.update" =>
                           UpdateSubject \/ UpdateSubjectFails
<1> DEFINE h == Head(db.ready)
           Told(cmd) ==
               /\ cmd = "subj.add" => AddSubject
               /\ cmd = "subj.update" => UpdateSubject \/ UpdateSubjectFails
           Good == /\ Messages(db') \subseteq Messages(db)
                   /\ \A e \in Waiting(db) :
                         e \in Waiting(db') \/ (e = h /\ Told(e.cmd))
<1>1. db \in QueueOf(DbEvent) /\ (db.current = <<>> <=> dbd = "idle")
  BY DEF Typed, TypeOK, LondoTypeOK, OneInHand
<1>2. Waiting(db) \subseteq Messages(db)
  BY DEF Messages
<1>3. ASSUME NEW cmd, Command(cmd), Requeued \/ db' = Forget(Take(db))
      PROVE  Good
  <2>1. db.ready # <<>> /\ db.current = <<>>
    BY <1>1, <1>3 DEF Command
  <2> QED BY <1>1, <1>3, <2>1, TakeReturnLemma DEF Requeued
<1>4. ASSUME NEW cmd, Command(cmd), Handled \/ Rejected, Told(cmd)
      PROVE  Good
  <2>1. db.ready # <<>> /\ db.current = <<>> /\ h.cmd = cmd
    BY <1>1, <1>4 DEF Command
  <2>2. CASE Handled
    BY <1>1, <1>4, <2>1, <2>2, TakeLemma DEF Handled
  <2>3. CASE Rejected
    BY <1>1, <1>4, <2>1, <2>3, TakeSettleLemma DEF Rejected
  <2> QED BY <1>4, <2>2, <2>3
<1>5. CASE AddSubject
  BY <1>4, <1>5 DEF AddSubject
<1>6. CASE AddSubjectFails \/ DeleteSubjectNone \/ DeleteSubjectFails
  BY <1>3, <1>6 DEF AddSubjectFails, DeleteSubjectNone, DeleteSubjectFails
<1>7. CASE UpdateSubject \/ UpdateSubjectFails
  BY <1>4, <1>7 DEF UpdateSubject, UpdateSubjectFails
<1>8. CASE DeleteSubject
  BY <1>4, <1>8 DEF DeleteSubject
<1>9. CASE GetSubject \/ GetSubjectFails
  BY <1>4, <1>9 DEF GetSubject, GetSubjectFails
<1>10. CASE GetSubjectUnanswered
  BY <1>3, <1>10 DEF GetSubjectUnanswered
<1>11. CASE DbdAck
  BY <1>1, <1>2, <1>11, SettleLemma DEF DbdAck
<1>12. CASE DbdCrash
  BY <1>1, <1>2, <1>12, ReturnLemma DEF DbdCrash
<1> QED BY <1>5, <1>6, <1>7, <1>8, <1>9, <1>10, <1>11, <1>12
        DEF DbdStep, DbdNext

(* Of the others only five steps touch it, and all of them publish. *)
LEMMA DbNewsLemma ==
    ASSUME Typed, Next
    PROVE  /\ \A e \in Messages(db') : e \in Messages(db) \/ DbNews(e)
           /\ DbdStep \/ BrokerRestart \/ Waiting(db) \subseteq Waiting(db')
<1> DEFINE Good == /\ \A e \in Messages(db') : e \in Messages(db) \/ DbNews(e)
                   /\ Waiting(db) \subseteq Waiting(db')
<1>1. db \in QueueOf(DbEvent)
  BY DEF Typed, TypeOK, LondoTypeOK
<1>2. UNCHANGED db => Good
  OBVIOUS
<1>3. ASSUME NEW m, db' = Put(db, m), DbNews(m) PROVE Good
  BY <1>1, <1>3, PutMessages
<1>4. CASE EnrolldStep
  <2>1. CASE EnrollPublishAdd
    BY <1>3, <2>1 DEF EnrollPublishAdd, DbNews, AddEventSent
  <2>2. CASE ~EnrollPublishAdd
    BY <1>2, <1>4, <2>2
       DEF EnrolldStep, EnrolldNext, EnrollAccepted, EnrollRefused,
           EnrollAnswerLost, EnrollAnswerUnreadable, EnrollUnprepared,
           EnrollPublishCollect, EnrollPublishFails, EnrollAck, EnrolldCrash
  <2> QED BY <2>1, <2>2
<1>5. CASE CollectdStep
  <2>1. CASE CollectPublish
    BY <1>3, <2>1 DEF CollectPublish, DbNews, UpdateEventSent
  <2>2. CASE ~CollectPublish
    BY <1>2, <1>5, <2>2
       DEF CollectdStep, CollectdNext, CollectAnswered, CollectNotReady,
           CollectPublishFails, CollectAck, CollectdCrash
  <2> QED BY <2>1, <2>2
<1>6. CASE RevokedStep
  BY <1>2, <1>6, RevokedFrame
<1>7. CASE GrpcdStep
  <2>1. PICK r \in Requests :
           \/ Lookup(r) \/ RenewDelete(r) \/ AddExists(r) \/ AddEnroll(r)
           \/ RenewMissing(r) \/ RenewRevoke(r) \/ RenewEnroll(r)
           \/ DeleteCall(r) \/ CallAborts(r)
    BY <1>7 DEF GrpcdStep, GrpcdNext
  <2>2. CASE Lookup(r)
    BY <1>3, <2>2 DEF Lookup, DbNews, GetEventSent
  <2>3. CASE RenewDelete(r)
    BY <1>3, <2>3 DEF RenewDelete, DbNews, DeleteEventSent
  <2>4. CASE ~Lookup(r) /\ ~RenewDelete(r)
    BY <1>2, <2>1, <2>4
       DEF AddExists, AddEnroll, RenewMissing, RenewRevoke, RenewEnroll,
           DeleteCall, CallAborts
  <2> QED BY <2>2, <2>3, <2>4
<1>8. CASE CheckerdStep
  <2>1. CASE \E x \in Checks : CheckDelete(x) /\ Excuse(GivenUp(x))
    <3>1. PICK x \in Checks : CheckDelete(x) /\ Excuse(GivenUp(x))
      BY <2>1
    <3>2. DbNews(DeleteEventSent(check[x].snap))
      BY <3>1 DEF DbNews
    <3>3. db' = Put(db, DeleteEventSent(check[x].snap))
      BY <3>1 DEF CheckDelete, DeleteEventSent
    <3> QED BY <1>3, <3>2, <3>3
  <2>2. CASE ~\E x \in Checks : CheckDelete(x) /\ Excuse(GivenUp(x))
    BY <1>2, <1>8, <2>2 DEF CheckerdStep, CheckRead, CheckRevoke, CheckAborts
  <2> QED BY <2>1, <2>2
<1>9. CASE DbdStep
  BY <1>9, DbdQueue
<1>10. CASE BrokerRestart
  BY <1>10, EmptyQueueLemma DEF BrokerRestart
<1> QED BY <1>4, <1>5, <1>6, <1>7, <1>8, <1>9, <1>10 DEF Next

(* A call of grpcd either leaves the enrol queue alone or puts its subject *)
(* on it.                                                                  *)
LEMMA EnrollSent ==
    ASSUME GrpcdStep
    PROVE  \/ UNCHANGED enroll
           \/ \E r \in Requests :
                 enroll' = Put(enroll, [subject |-> req[r].subject])
BY DEF GrpcdStep, GrpcdNext, Lookup, AddExists, AddEnroll, RenewMissing,
       RenewRevoke, RenewEnroll, RenewDelete, DeleteCall, CallAborts
-----------------------------------------------------------------------------
(* A subject that is kept stays kept.                                      *)

(* Nothing that only adds to what keeps it can change that. *)
LEMMA KeptGrows ==
    ASSUME NEW s, NEW c, Kept(s, c),
           Waiting(enroll) \subseteq Waiting(enroll'),
           enrolld' = enrolld,
           enrolld.pc \in {"collect", "add"} => enroll'.current = enroll.current,
           Waiting(db) \subseteq Waiting(db'),
           subjects \subseteq subjects',
           excused \subseteq excused'
    PROVE  Kept(s, c)'
<1>1. CASE s \in excused
  BY <1>1 DEF Kept
<1>2. CASE EnrollWaits(s)
  BY <1>2 DEF EnrollWaits, Kept, Alive
<1>3. CASE EnrollInHand(s, c)
  BY <1>3 DEF EnrollInHand, Kept, Alive
<1>4. CASE AddWaits(s, c)
  BY <1>4 DEF AddWaits, Kept, Alive
<1>5. CASE \E rec \in subjects : rec.subject = s /\ rec.certId > c
  BY <1>5 DEF Kept, Alive
<1> QED BY <1>1, <1>2, <1>3, <1>4, <1>5 DEF Kept, Alive

(* enrolld hands a subject on: from its queue to its hands, from there to  *)
(* dbd's queue, or back; what it drops it excuses.                         *)
LEMMA KeptByEnrolld ==
    ASSUME Typed, EnrolldStep, Waiting(db) \subseteq Waiting(db'),
           NEW s \in Subjects, NEW c \in 0 .. Len(orders), Kept(s, c)
    PROVE  Kept(s, c)'
<1>1. /\ enroll \in QueueOf(EnrollEvent)
      /\ db \in QueueOf(DbEvent)
      /\ enrolld \in Enrolling
      /\ enroll.current = <<>> <=> enrolld.pc = "idle"
      /\ Len(orders) \in Nat
      /\ UNCHANGED subjects
  BY OrdersDomain, EnrolldFrame DEF Typed, TypeOK, LondoTypeOK, OneInHand
<1>3. ASSUME EnrollTaken
      PROVE  /\ enroll.ready # <<>> /\ enroll.current = <<>>
             /\ ~EnrollInHand(s, c)
  BY <1>1, <1>3 DEF EnrollTaken, EnrollInHand
<1>4. ASSUME UNCHANGED enrolld, excused \subseteq excused',
             Waiting(enroll) \subseteq Waiting(enroll'), enrolld.pc = "idle"
      PROVE  Kept(s, c)'
  BY <1>1, <1>4, KeptGrows
<1>5. ASSUME EnrollTaken, enroll' = Requeue(Take(enroll)),
             UNCHANGED <<enrolld, excused>>
      PROVE  Kept(s, c)'
  <2>1. Waiting(enroll') = Waiting(enroll)
    BY <1>1, <1>3, <1>5, TakeReturnLemma
  <2> QED BY <1>4, <1>5, <2>1 DEF EnrollTaken
<1>6. ASSUME EnrollTaken, enroll' = Settle(Take(enroll)), UNCHANGED enrolld,
             Excuse({Head(enroll.ready).subject})
      PROVE  Kept(s, c)'
  <2>1. Waiting(enroll) = Waiting(enroll') \cup {Head(enroll.ready)}
    BY <1>1, <1>3, <1>6, TakeSettleLemma
  <2>2. CASE s \in excused \/ s = Head(enroll.ready).subject
    BY <1>6, <2>2 DEF Excuse, Kept
  <2>3. CASE EnrollWaits(s) /\ s # Head(enroll.ready).subject
    BY <2>1, <2>3 DEF EnrollWaits, Kept, Alive
  <2>4. CASE ~EnrollWaits(s) /\ s \notin excused
    BY <1>1, <1>3, <1>6, <2>4 DEF Kept, Alive, AddWaits
  <2> QED BY <2>2, <2>3, <2>4
<1>7. CASE EnrollAccepted
  <2>1. /\ EnrollTaken /\ UNCHANGED excused
        /\ enroll' = Take(enroll)
        /\ enrolld'.pc = "collect" /\ enrolld'.certId = Len(orders) + 1
    BY <1>7 DEF EnrollAccepted
  <2>2. /\ Waiting(enroll) = Waiting(enroll') \cup {Head(enroll.ready)}
        /\ enroll'.current[1] = Head(enroll.ready)
    BY <1>1, <1>3, <2>1, TakeLemma
  <2>3. CASE s = Head(enroll.ready).subject
    <3>1. Len(orders) + 1 > c
      BY <1>1
    <3> QED BY <2>1, <2>2, <2>3, <3>1 DEF Kept, Alive, EnrollInHand
  <2>4. CASE EnrollWaits(s) /\ s # Head(enroll.ready).subject
    BY <2>2, <2>4 DEF EnrollWaits, Kept, Alive
  <2>5. CASE ~EnrollWaits(s)
    BY <1>1, <1>3, <2>1, <2>5 DEF Kept, Alive, AddWaits
  <2> QED BY <2>3, <2>4, <2>5
<1>8. CASE EnrollRefused
  BY <1>5, <1>8 DEF EnrollRefused
<1>9. CASE EnrollAnswerLost
  BY <1>5, <1>9 DEF EnrollAnswerLost
<1>10. CASE EnrollAnswerUnreadable
  BY <1>6, <1>10 DEF EnrollAnswerUnreadable
<1>11. CASE EnrollUnprepared
  BY <1>6, <1>11 DEF EnrollUnprepared
<1>12. CASE EnrollPublishCollect
  <2>1. /\ UNCHANGED <<enroll, db, excused>>
        /\ enrolld.pc = "collect" /\ enrolld'.pc = "add"
        /\ enrolld'.certId = enrolld.certId
    BY <1>1, <1>12 DEF EnrollPublishCollect, Enrolling, EnrolldIdle
  <2> QED BY <1>1, <2>1
          DEF Kept, Alive, EnrollWaits, EnrollInHand, AddWaits
<1>13. CASE EnrollPublishAdd
  <2>1. /\ UNCHANGED <<enroll, excused>>
        /\ enrolld.pc = "add"
        /\ db' = Put(db, AddEventSent)
    BY <1>13 DEF EnrollPublishAdd, AddEventSent
  <2>2. AddEventSent \in Waiting(db')
    BY <1>1, <2>1, PutMessages
  <2>3. CASE EnrollInHand(s, c)
    BY <2>2, <2>3 DEF EnrollInHand, Kept, Alive, AddWaits, AddEventSent
  <2>4. CASE ~EnrollInHand(s, c)
    BY <1>1, <2>1, <2>4 DEF Kept, Alive, EnrollWaits, AddWaits
  <2> QED BY <2>3, <2>4
<1>14. CASE EnrollPublishFails \/ EnrolldCrash
  <2>1. /\ enroll' \in {Forget(enroll), ChannelLost(enroll)}
        /\ UNCHANGED excused
    BY <1>14 DEF EnrollPublishFails, EnrolldCrash
  <2>2. /\ Waiting(enroll') = Messages(enroll)
        /\ Waiting(enroll) \subseteq Messages(enroll)
    BY <1>1, <2>1, ReturnLemma, MessagesType
  <2>3. CASE EnrollInHand(s, c)
    <3>1. enroll.current # <<>>
      BY <1>1, <2>3 DEF EnrollInHand
    <3>2. enroll.current[1] \in Messages(enroll)
      BY <1>1, <3>1, InHandLemma
    <3> QED BY <2>2, <2>3, <3>2 DEF EnrollInHand, EnrollWaits, Kept, Alive
  <2>4. CASE ~EnrollInHand(s, c)
    BY <1>1, <2>1, <2>2, <2>4 DEF Kept, Alive, EnrollWaits, AddWaits
  <2> QED BY <2>3, <2>4
<1>15. CASE EnrollAck
  <2>1. Waiting(enroll') = Waiting(enroll) /\ UNCHANGED excused
    BY <1>1, <1>15, SettleLemma DEF EnrollAck
  <2>2. ~EnrollInHand(s, c)
    BY <1>15 DEF EnrollAck, EnrollInHand
  <2> QED BY <1>1, <2>1, <2>2 DEF Kept, Alive, EnrollWaits, AddWaits
<1> QED BY <1>7, <1>8, <1>9, <1>10, <1>11, <1>12, <1>13, <1>14, <1>15
        DEF EnrolldStep, EnrolldNext

(* dbd turns an add event into a record, and deletes only a record that    *)
(* has a successor of its subject.                                         *)
LEMMA KeptByDbd ==
    ASSUME IInv, DbdStep,
           NEW s \in Subjects, NEW c \in 0 .. Len(orders), Kept(s, c)
    PROVE  Kept(s, c)'
<1> DEFINE h == Head(db.ready)
<1>1. /\ db \in QueueOf(DbEvent) /\ subjects \subseteq Record
      /\ Typed /\ RecordsMatch /\ DeletesSuperseded
      /\ Len(orders) \in Nat
      /\ UNCHANGED <<enroll, enrolld, excused, orders>>
  BY IInvParts, OrdersDomain, DbdFrame DEF IInv, TypeOK, LondoTypeOK
<1>2. \A e \in Waiting(db) :
         e \in Waiting(db') \/ (e = h /\ (e.cmd = "subj.add" => AddSubject))
  BY <1>1, DbdQueue
<1>3. ASSUME s \in excused \/ EnrollWaits(s) \/ EnrollInHand(s, c)
      PROVE  Kept(s, c)'
  BY <1>1, <1>3 DEF Kept, Alive, EnrollWaits, EnrollInHand
<1>4. ASSUME NEW d, AddWaits(s, d), ~AddSubject PROVE AddWaits(s, d)'
  BY <1>2, <1>4 DEF AddWaits
<1>5. CASE AddSubject
  <2>1. \A rec \in subjects : rec \in subjects'
    BY <1>5 DEF AddSubject
  <2>2. \E rec \in subjects' : rec.subject = h.subject /\ rec.certId = h.certId
    <3> DEFINE new == [id |-> inserted + 1, subject |-> h.subject,
                       key |-> h.key, certId |-> h.certId, cert |-> 0]
    <3>1. new \in subjects'
      BY <1>5 DEF AddSubject
    <3>2. new.subject = h.subject /\ new.certId = h.certId
      OBVIOUS
    <3> QED BY <3>1, <3>2
  <2>3. CASE AddWaits(s, c)
    <3>1. PICK e \in Waiting(db) :
              e.cmd = "subj.add" /\ e.subject = s /\ e.certId > c
      BY <2>3 DEF AddWaits
    <3>2. CASE e = h
      BY <2>2, <3>1, <3>2 DEF Kept, Alive
    <3>3. CASE e # h
      BY <1>2, <3>1, <3>3 DEF Kept, Alive, AddWaits
    <3> QED BY <3>2, <3>3
  <2> QED BY <1>3, <2>1, <2>3 DEF Kept, Alive
<1>6. CASE UpdateSubject
  <2>1. \A rec \in subjects : \E r \in subjects' :
            r.subject = rec.subject /\ r.certId = rec.certId
    <3>1. ASSUME NEW rec \in subjects, NEW x
          PROVE  /\ [rec EXCEPT !.cert = x].subject = rec.subject
                 /\ [rec EXCEPT !.cert = x].certId = rec.certId
      BY <1>1 DEF Record
    <3> QED BY <1>6, <3>1 DEF UpdateSubject, MatchingCertId
  <2>2. ~AddSubject
    BY <1>6 DEF UpdateSubject, AddSubject, Command
  <2> QED BY <1>3, <1>4, <2>1, <2>2 DEF Kept, Alive
<1>7. CASE DeleteSubject
  <2>1. /\ h.cmd = "subj.delete" /\ h \in Messages(db)
        /\ subjects' = subjects \ MatchingDelete(h)
    <3>1. db.current = <<>> /\ db.ready # <<>>
      BY <1>1, <1>7 DEF DeleteSubject, Command, Typed, OneInHand
    <3> QED BY <1>1, <1>7, <3>1, TakeLemma, MessagesType
            DEF DeleteSubject, Command
  <2>2. ~AddSubject
    BY <2>1 DEF AddSubject, Command
  <2>3. /\ h.certId \in DOMAIN orders
        /\ Kept(orders[h.certId].subject, h.certId)
    BY <1>1, <2>1 DEF DeletesSuperseded, Superseded
  <2>4. ASSUME NEW rec \in subjects, rec.subject = s, rec.certId > c
        PROVE  Kept(s, c)'
    <3>1. CASE rec \notin MatchingDelete(h)
      BY <2>1, <2>4, <3>1 DEF Kept, Alive
    <3>2. CASE rec \in MatchingDelete(h)
      <4>1. h.certId = rec.certId /\ orders[h.certId].subject = s
        BY <1>1, <2>4, <3>2
           DEF MatchingDelete, RecordsMatch, OrderWith, OrderFor
      <4>2. h.certId \in Nat /\ h.certId > c
        BY <1>1, <2>4, <4>1 DEF Record
      <4>3. Kept(s, h.certId)
        BY <2>3, <4>1
      <4>4. CASE EnrollInHand(s, h.certId)
        <5>1. EnrollInHand(s, c)
          <6>1. enrolld.certId \in Nat
            BY <1>1, <4>4
               DEF Typed, TypeOK, Enrolling, EnrolldIdle, EnrollInHand
          <6> QED BY <4>2, <4>4, <6>1 DEF EnrollInHand
        <5> QED BY <1>3, <5>1
      <4>5. CASE AddWaits(s, h.certId)
        <5>1. PICK e \in Waiting(db) : /\ e.cmd = "subj.add" /\ e.subject = s
                                       /\ e.certId > h.certId
          BY <4>5 DEF AddWaits
        <5>2. e \in Waiting(db')
          BY <1>2, <2>2, <5>1
        <5>3. e \in DbEvent
          BY <1>1, MessagesType
        <5>4. e.certId \in Nat
          BY <5>1, <5>3, DbEventFields
        <5>5. e.certId > c
          BY <4>2, <5>1, <5>4
        <5> QED BY <5>1, <5>2, <5>5 DEF AddWaits, Kept, Alive
      <4>6. CASE \E r \in subjects : r.subject = s /\ r.certId > h.certId
        <5>1. PICK r \in subjects : r.subject = s /\ r.certId > h.certId
          BY <4>6
        <5>2. r.certId \in Nat
          BY <1>1 DEF Record
        <5>3. r.certId > c /\ r.certId # h.certId
          BY <4>2, <5>1, <5>2
        <5>4. r \in subjects'
          BY <2>1, <5>3 DEF MatchingDelete
        <5> QED BY <5>1, <5>3, <5>4 DEF Kept, Alive
      <4>7. CASE s \in excused \/ EnrollWaits(s)
        BY <1>3, <4>7
      <4> QED BY <4>3, <4>4, <4>5, <4>6, <4>7 DEF Kept, Alive
    <3> QED BY <3>1, <3>2
  <2>5. CASE AddWaits(s, c)
    BY <1>4, <2>2, <2>5 DEF Kept, Alive
  <2> QED BY <1>3, <2>4, <2>5 DEF Kept, Alive
<1>8. CASE ~AddSubject /\ UNCHANGED subjects
  BY <1>3, <1>4, <1>8 DEF Kept, Alive
<1>9. AddSubject \/ UpdateSubject \/ DeleteSubject
         \/ (~AddSubject /\ UNCHANGED subjects)
  BY DEF DbdStep, DbdNext, AddSubjectFails, UpdateSubjectFails,
         DeleteSubjectNone, DeleteSubjectFails, GetSubject, GetSubjectFails,
         GetSubjectUnanswered, DbdAck, DbdCrash
<1> QED BY <1>5, <1>6, <1>7, <1>8, <1>9

(* A restart of the broker excuses what it loses. *)
LEMMA KeptByBroker ==
    ASSUME Typed, BrokerRestart, NEW s \in Subjects, NEW c \in Nat, Kept(s, c)
    PROVE  Kept(s, c)'
<1>1. /\ excused' = excused \cup {t \in Subjects :
                       EnrollWaits(t) \/ EnrollInHand(t, 0) \/ AddWaits(t, 0)}
      /\ UNCHANGED subjects
  BY DEF BrokerRestart, Excuse
<1>2. CASE s \in excused
  BY <1>1, <1>2 DEF Kept
<1>3. CASE EnrollWaits(s)
  BY <1>1, <1>3 DEF Kept
<1>4. CASE EnrollInHand(s, c)
  <2>1. enrolld.certId \in Nat
    BY <1>4 DEF Typed, TypeOK, Enrolling, EnrolldIdle, EnrollInHand
  <2>2. EnrollInHand(s, 0)
    BY <1>4, <2>1 DEF EnrollInHand
  <2> QED BY <1>1, <2>2 DEF Kept
<1>5. CASE AddWaits(s, c)
  <2>1. PICK e \in Waiting(db) :
            e.cmd = "subj.add" /\ e.subject = s /\ e.certId > c
    BY <1>5 DEF AddWaits
  <2>2. e \in DbEvent
    BY MessagesType DEF Typed, TypeOK, LondoTypeOK
  <2>3. e.certId \in Nat
    BY <2>1, <2>2, DbEventFields
  <2>4. AddWaits(s, 0)
    BY <2>1, <2>3 DEF AddWaits
  <2> QED BY <1>1, <2>4 DEF Kept
<1>6. CASE \E rec \in subjects : rec.subject = s /\ rec.certId > c
  BY <1>1, <1>6 DEF Kept, Alive
<1> QED BY <1>2, <1>3, <1>4, <1>5, <1>6 DEF Kept, Alive

(* The steps of all the other daemons only add. *)
LEMMA KeptStable ==
    ASSUME IInv, Next, NEW s \in Subjects, NEW c \in 0 .. Len(orders), Kept(s, c)
    PROVE  Kept(s, c)'
<1>1. /\ Typed /\ enroll \in QueueOf(EnrollEvent) /\ c \in Nat
      /\ enroll.current = <<>> <=> enrolld.pc = "idle"
  BY IInvParts, OrdersDomain DEF Typed, TypeOK, LondoTypeOK, OneInHand
<1>2. CASE DbdStep
  BY <1>2, KeptByDbd
<1>3. CASE BrokerRestart
  BY <1>1, <1>3, KeptByBroker
<1>4. CASE ~DbdStep /\ ~BrokerRestart
  <2>1. Waiting(db) \subseteq Waiting(db')
    BY <1>1, <1>4, DbNewsLemma
  <2>2. CASE EnrolldStep
    BY <1>1, <2>1, <2>2, KeptByEnrolld
  <2>3. CASE CollectdStep
    BY <2>1, <2>3, CollectdFrame, KeptGrows
  <2>4. CASE RevokedStep
    BY <2>1, <2>4, RevokedFrame, KeptGrows
  <2>5. CASE GrpcdStep
    <3>1. /\ Waiting(enroll) \subseteq Waiting(enroll')
          /\ enroll'.current = enroll.current
      <4>1. CASE UNCHANGED enroll
        BY <4>1
      <4>2. ASSUME NEW m, enroll' = Put(enroll, m)
            PROVE  /\ Waiting(enroll) \subseteq Waiting(enroll')
                   /\ enroll'.current = enroll.current
        BY <1>1, <4>2, PutMessages
      <4> QED BY <2>5, <4>1, <4>2, EnrollSent
    <3> QED BY <2>1, <2>5, <3>1, GrpcdFrame, KeptGrows
  <2>6. CASE CheckerdStep
    <3>1. excused \subseteq excused'
      BY <2>6 DEF CheckerdStep, CheckRead, CheckRevoke, CheckAborts, Excuse
    <3> QED BY <2>1, <2>6, <3>1, CheckerdFrame, KeptGrows
  <2> QED BY <1>4, <2>2, <2>3, <2>4, <2>5, <2>6 DEF Next
<1> QED BY <1>2, <1>3, <1>4
-----------------------------------------------------------------------------
(* How a call may move in one step. *)
CallStays(r) == req'[r].snap = req[r].snap /\ req'[r].pc = req[r].pc
CallMoves(r) ==
    /\ req'[r].snap = req[r].snap
    /\ req[r].pc # "failed"
    /\ req'[r].pc \in {"lookup", "done", "failed"}
    /\ req[r].pc = "enroll" => req'[r].pc = "failed"
CallEnrolls(r) ==
    /\ RenewEnroll(r)
    /\ req'[r].snap = req[r].snap
    /\ req[r].pc = "enroll" /\ req'[r].pc = "delete"
CallRevokes(r) ==
    /\ RenewRevoke(r)
    /\ req'[r].snap = Answer1(r)
    /\ req[r].pc = "lookup" /\ req'[r].pc = "enroll"

(* A failed call never moves again, a renewal that revoked either enrols   *)
(* or fails, and no call changes its subject.                              *)
LEMMA CallMovesLemma ==
    ASSUME Typed, Next, NEW r \in Requests
    PROVE  /\ req'[r].subject = req[r].subject
           /\ CallStays(r) \/ CallMoves(r) \/ CallEnrolls(r) \/ CallRevokes(r)
<1> DEFINE Good == /\ req'[r].subject = req[r].subject
                   /\ \/ CallStays(r) \/ CallMoves(r)
                      \/ CallEnrolls(r) \/ CallRevokes(r)
<1>1. req \in [Requests -> Call]
  BY DEF Typed, TypeOK
<1>2. CASE UNCHANGED req
  BY <1>2 DEF CallStays
<1>3. CASE GrpcdStep
  <2>1. PICK q \in Requests :
           \/ Lookup(q) \/ AddExists(q) \/ AddEnroll(q) \/ RenewMissing(q)
           \/ RenewRevoke(q) \/ RenewEnroll(q) \/ RenewDelete(q)
           \/ DeleteCall(q) \/ CallAborts(q)
    BY <1>3 DEF GrpcdStep, GrpcdNext
  <2>2. ASSUME NEW pc, GoTo(q, pc)
        PROVE  /\ r # q => req'[r] = req[r]
               /\ req'[q].subject = req[q].subject
               /\ req'[q].snap = req[q].snap
               /\ req'[q].pc = pc
    BY <1>1, <2>2 DEF GoTo, Call
  <2>3. ASSUME NEW pc \in {"lookup", "done", "failed"}, GoTo(q, pc),
               req[q].pc # "failed",
               req[q].pc = "enroll" => pc = "failed"
        PROVE  Good
    BY <2>2, <2>3 DEF CallStays, CallMoves
  <2>4. CASE Lookup(q)
    BY <2>3, <2>4 DEF Lookup, At
  <2>5. CASE AddExists(q)
    BY <2>3, <2>5 DEF AddExists, At
  <2>6. CASE AddEnroll(q)
    BY <2>3, <2>6 DEF AddEnroll, At
  <2>7. CASE RenewMissing(q)
    BY <2>3, <2>7 DEF RenewMissing, At
  <2>8. CASE RenewDelete(q)
    BY <2>3, <2>8 DEF RenewDelete, At
  <2>9. CASE DeleteCall(q)
    BY <2>3, <2>9 DEF DeleteCall, At
  <2>10. CASE CallAborts(q)
    BY <2>3, <2>10 DEF CallAborts
  <2>11. CASE RenewEnroll(q)
    <3>1. GoTo(q, "delete") /\ req[q].pc = "enroll"
      BY <2>11 DEF RenewEnroll, At
    <3> QED BY <2>2, <2>11, <3>1 DEF CallStays, CallEnrolls
  <2>12. CASE RenewRevoke(q)
    <3>1. /\ req' = [req EXCEPT ![q].pc = "enroll", ![q].snap = Answer1(q)]
          /\ req[q].pc = "lookup"
      BY <2>12 DEF RenewRevoke, At
    <3>2. /\ r # q => req'[r] = req[r]
          /\ req'[q].subject = req[q].subject
          /\ req'[q].snap = Answer1(q) /\ req'[q].pc = "enroll"
      BY <1>1, <3>1 DEF Call
    <3> QED BY <2>12, <3>1, <3>2 DEF CallStays, CallRevokes
  <2> QED BY <2>1, <2>4, <2>5, <2>6, <2>7, <2>8, <2>9, <2>10, <2>11, <2>12
<1>4. CASE BrokerRestart
  <2>1. CASE req[r].pc \in {"lookup", "enroll", "delete"}
    <3>1. req'[r] = [req[r] EXCEPT !.pc = "failed"]
      BY <1>4, <2>1 DEF BrokerRestart
    <3>2. /\ req'[r].subject = req[r].subject
          /\ req'[r].snap = req[r].snap /\ req'[r].pc = "failed"
      BY <1>1, <3>1 DEF Call
    <3> QED BY <2>1, <3>2 DEF CallMoves
  <2>2. CASE req[r].pc \notin {"lookup", "enroll", "delete"}
    <3>1. req'[r] = req[r]
      BY <1>4, <2>2 DEF BrokerRestart
    <3> QED BY <3>1 DEF CallStays
  <2> QED BY <2>1, <2>2
<1> QED BY <1>2, <1>3, <1>4, EnrolldFrame, CollectdFrame, RevokedFrame,
           DbdFrame, CheckerdFrame DEF Next

(* What every proof below starts from. *)
LEMMA StepFacts ==
    ASSUME IInv, Next
    PROVE  /\ Typed /\ Typed' /\ OrdersKept
           /\ DOMAIN orders = 1 .. Len(orders) /\ Len(orders) \in Nat
           /\ \A c \in DOMAIN orders :
                 /\ c \in 0 .. Len(orders)
                 /\ orders[c].subject \in Subjects
<1>1. Typed /\ RevokesKnown /\ SnapshotsMatch
  BY IInvParts DEF IInv
<1>2. Typed' /\ OrdersKept
  BY <1>1, StepTyped
<1> QED BY <1>1, <1>2, OrdersDomain DEF Typed, Order

(* An order that has a successor in view keeps one. *)
LEMMA SupersededStable ==
    ASSUME IInv, Next, NEW c, Superseded(c)
    PROVE  Superseded(c)'
BY StepFacts, KeptStable DEF Superseded, OrdersKept

(* The enrol event of a renewal keeps its subject. *)
LEMMA RenewalKeeps ==
    ASSUME IInv, Next, NEW r \in Requests, CallEnrolls(r),
           NEW c, c = req[r].snap.certId
    PROVE  Superseded(c)'
<1>1. /\ req[r].pc = "enroll"
      /\ enroll' = Put(enroll, [subject |-> req[r].subject])
  BY DEF CallEnrolls, RenewEnroll
<1>2. enroll \in QueueOf(EnrollEvent) /\ OrdersKept
  BY StepFacts DEF Typed, TypeOK, LondoTypeOK
<1>3. c \in DOMAIN orders /\ orders[c].subject = req[r].subject
  BY <1>1 DEF IInv, SnapshotsMatch, OrderFor
<1>4. [subject |-> req[r].subject] \in Waiting(enroll')
  BY <1>1, <1>2, PutMessages
<1>5. \E e \in Waiting(enroll') : e.subject = orders[c].subject
  <2>1. [subject |-> req[r].subject].subject = orders[c].subject
    BY <1>3
  <2> QED BY <1>4, <2>1
<1>6. c \in DOMAIN orders' /\ orders'[c].subject = orders[c].subject
  BY <1>2, <1>3 DEF OrdersKept
<1> QED BY <1>5, <1>6 DEF Superseded, Kept, Alive, EnrollWaits

(* An order that is replaced, or whose renewal failed half way, stays so. *)
LEMMA ReplacedStable ==
    ASSUME IInv, Next, NEW c \in DOMAIN orders, Replaced(c)
    PROVE  Replaced(c)'
<1>1. CASE Kept(orders[c].subject, c)
  BY <1>1, SupersededStable DEF Superseded, Replaced
<1>2. CASE Interrupted(c)
  <2>1. PICK r \in Requests :
            req[r].snap.certId = c /\ req[r].pc \in {"enroll", "failed"}
    BY <1>2 DEF Interrupted
  <2>2. CallStays(r) \/ CallMoves(r) \/ CallEnrolls(r) \/ CallRevokes(r)
    BY StepFacts, CallMovesLemma
  <2>3. CASE CallEnrolls(r)
    BY <2>1, <2>3, RenewalKeeps DEF Superseded, Replaced
  <2>4. CASE CallStays(r) \/ CallMoves(r)
    BY <2>1, <2>4 DEF CallStays, CallMoves, Interrupted, Replaced
  <2>5. CASE CallRevokes(r)
    BY <2>1, <2>5 DEF CallRevokes
  <2> QED BY <2>2, <2>3, <2>4, <2>5
<1> QED BY <1>1, <1>2 DEF Replaced
-----------------------------------------------------------------------------
(* The conjuncts of IInv, one after the other.                             *)
LEMMA InHandStep ==
    ASSUME IInv, Next
    PROVE  InHandMatches'
<1>1. /\ enroll \in QueueOf(EnrollEvent) /\ OrdersKept /\ InHandMatches
      /\ enroll.current = <<>> <=> enrolld.pc = "idle"
      /\ enrolld \in Enrolling
  BY StepFacts DEF IInv, Typed, TypeOK, LondoTypeOK, OneInHand
<1>2. enrolld'.pc = "idle" => InHandMatches'
  BY DEF InHandMatches
<1>3. EnrolldIdle.pc = "idle"
  BY DEF EnrolldIdle
<1>4. ASSUME enrolld.pc # "idle", enroll'.current = enroll.current,
             enrolld'.certId = enrolld.certId, enrolld'.key = enrolld.key
      PROVE  InHandMatches'
  BY <1>1, <1>4 DEF InHandMatches, OrderWith, OrderFor, OrdersKept
<1>5. CASE enrolld.pc = "idle" /\ UNCHANGED enrolld
  BY <1>2, <1>5
<1>6. CASE EnrollAccepted
  <2>1. /\ enroll.ready # <<>> /\ enroll.current = <<>>
        /\ enroll' = Take(enroll)
        /\ PlaceOrder(Head(enroll.ready).subject)
        /\ enrolld'.certId = Len(orders) + 1 /\ enrolld'.key = NewKey
    BY <1>1, <1>6 DEF EnrollAccepted, EnrollTaken
  <2>2. /\ enroll'.current[1] = Head(enroll.ready)
        /\ Head(enroll.ready) \in EnrollEvent
    BY <1>1, <2>1, TakeLemma
  <2>3. /\ Len(orders) + 1 \in DOMAIN orders'
        /\ orders'[Len(orders) + 1].subject = Head(enroll.ready).subject
        /\ orders'[Len(orders) + 1].key = NewKey
    <3>1. Head(enroll.ready).subject \in Subjects /\ TypeOK
      BY <2>2, IInvParts DEF EnrollEvent, Typed
    <3>2. /\ Len(orders) + 1 \in DOMAIN orders'
          /\ orders'[Len(orders) + 1] =
                [subject |-> Head(enroll.ready).subject, key |-> NewKey,
                 revoked |-> FALSE]
      BY <2>1, <3>1, PlaceOrderLemma
    <3> QED BY <3>2
  <2> QED BY <2>1, <2>2, <2>3 DEF InHandMatches, OrderWith, OrderFor
<1>7. CASE EnrolldStep /\ ~EnrollAccepted
  <2>1. CASE EnrollPublishCollect \/ EnrollPublishAdd
    <3>1. /\ enrolld.pc # "idle" /\ enroll'.current = enroll.current
          /\ enrolld'.certId = enrolld.certId /\ enrolld'.key = enrolld.key
      BY <1>1, <2>1 DEF EnrollPublishCollect, EnrollPublishAdd, Enrolling,
                        EnrolldIdle
    <3> QED BY <1>4, <3>1
  <2>2. CASE EnrollPublishFails \/ EnrollAck \/ EnrolldCrash
    BY <1>2, <1>3, <2>2 DEF EnrollPublishFails, EnrollAck, EnrolldCrash
  <2>3. CASE \/ EnrollRefused \/ EnrollAnswerLost
             \/ EnrollAnswerUnreadable \/ EnrollUnprepared
    BY <1>5, <2>3 DEF EnrollRefused, EnrollAnswerLost, EnrollUnprepared,
                      EnrollAnswerUnreadable, EnrollTaken
  <2> QED BY <1>7, <2>1, <2>2, <2>3 DEF EnrolldStep, EnrolldNext
<1>8. CASE GrpcdStep
  <2>1. enroll'.current = enroll.current
    BY <1>1, <1>8, EnrollSent, PutMessages
  <2> QED BY <1>4, <1>5, <1>8, <2>1, GrpcdFrame
<1>9. CASE BrokerRestart
  BY <1>2, <1>3, <1>9 DEF BrokerRestart
<1>10. CASE UNCHANGED <<enroll, enrolld>>
  BY <1>4, <1>5, <1>10
<1> QED BY <1>6, <1>7, <1>8, <1>9, <1>10, CollectdFrame, RevokedFrame,
           DbdFrame, CheckerdFrame DEF Next

(* RecordsMatch: dbd inserts what enrolld published for one order, and an  *)
(* update touches the record of its own order only.                        *)
LEMMA RecordsStep ==
    ASSUME IInv, Next
    PROVE  RecordsMatch'
<1> DEFINE h == Head(db.ready)
           Right(rec) == /\ OrderWith(rec.certId, rec.subject, rec.key)
                         /\ rec.cert \in {0, rec.certId}
<1>1. /\ db \in QueueOf(DbEvent) /\ OrdersKept /\ subjects \subseteq Record
      /\ db.current = <<>> <=> dbd = "idle"
      /\ RecordsMatch /\ DbEventsMatch
  BY StepFacts DEF IInv, Typed, TypeOK, LondoTypeOK, OneInHand
<1>2. ASSUME NEW c, NEW s, NEW k, OrderWith(c, s, k)
      PROVE  OrderWith(c, s, k)'
  BY <1>1, <1>2 DEF OrderWith, OrderFor, OrdersKept
<1>3. ASSUME NEW rec \in subjects PROVE Right(rec)'
  BY <1>1, <1>2, <1>3 DEF RecordsMatch
<1>4. ASSUME NEW cmd, Command(cmd) PROVE h \in Messages(db) /\ h.cmd = cmd
  BY <1>1, <1>4, TakeLemma, MessagesType DEF Command
<1>5. CASE subjects' \subseteq subjects
  BY <1>3, <1>5 DEF RecordsMatch
<1>6. CASE AddSubject
  <2>1. PICK e \in Messages(db) : e = h /\ e.cmd = "subj.add"
    BY <1>4, <1>6 DEF AddSubject
  <2> DEFINE new == [id |-> inserted + 1, subject |-> e.subject,
                     key |-> e.key, certId |-> e.certId, cert |-> 0]
  <2>2. PICK n : n = new
    OBVIOUS
  <2>3. subjects' = subjects \cup {n}
    BY <1>6, <2>1, <2>2 DEF AddSubject
  <2>4. OrderWith(e.certId, e.subject, e.key)'
    BY <1>1, <1>2, <2>1 DEF DbEventsMatch
  <2>5. Right(n)'
    BY <2>2, <2>4
  <2> QED BY <1>3, <2>3, <2>5 DEF RecordsMatch
<1>7. CASE UpdateSubject
  <2>1. PICK e \in Messages(db) : e = h /\ e.cmd = "subj.update"
    BY <1>4, <1>7 DEF UpdateSubject
  <2>2. e.cert = e.certId
    BY <1>1, <2>1 DEF DbEventsMatch
  <2>3. CASE UNCHANGED subjects
    BY <1>5, <2>3
  <2>4. ASSUME NEW rec \in MatchingCertId(e.certId),
               subjects' = (subjects \ {rec}) \cup {[rec EXCEPT !.cert = e.cert]}
        PROVE  RecordsMatch'
    <3>1. PICK n : n = [rec EXCEPT !.cert = e.cert]
      OBVIOUS
    <3>2. rec \in subjects /\ rec \in Record /\ rec.certId = e.certId
      BY <1>1 DEF MatchingCertId
    <3>3. /\ n.certId = rec.certId /\ n.subject = rec.subject
          /\ n.key = rec.key /\ n.cert = rec.certId
      BY <2>2, <3>1, <3>2 DEF Record
    <3>4. Right(n)'
      BY <1>3, <3>2, <3>3
    <3> QED BY <1>3, <2>4, <3>1, <3>4 DEF RecordsMatch
  <2> QED BY <1>7, <2>1, <2>3, <2>4 DEF UpdateSubject
<1>8. CASE DeleteSubject
  BY <1>5, <1>8 DEF DeleteSubject
<1>9. CASE UNCHANGED subjects
  BY <1>5, <1>9
<1>10. CASE DbdStep
  BY <1>6, <1>7, <1>8, <1>9, <1>10
     DEF DbdStep, DbdNext, AddSubjectFails, UpdateSubjectFails,
         DeleteSubjectNone, DeleteSubjectFails, GetSubject, GetSubjectFails,
         GetSubjectUnanswered, DbdAck, DbdCrash
<1>11. CASE BrokerRestart
  BY <1>9, <1>11 DEF BrokerRestart
<1> QED BY <1>9, <1>10, <1>11, EnrolldFrame, CollectdFrame, RevokedFrame,
           GrpcdFrame, CheckerdFrame DEF Next

(* DbEventsMatch: enrolld publishes the key and the order it holds         *)
(* together, collectd the certificate of the order it asked for.           *)
LEMMA DbEventsStep ==
    ASSUME IInv, Next
    PROVE  DbEventsMatch'
<1> DEFINE Right(e) ==
        /\ e.cmd = "subj.add" => OrderWith(e.certId, e.subject, e.key)
        /\ e.cmd = "subj.update" => e.cert = e.certId
        /\ e.cmd = "subj.get" => e.subject = req[e.replyTo].subject
<1> SUFFICES ASSUME NEW e \in Messages(db') PROVE Right(e)'
  BY DEF DbEventsMatch
<1>1. /\ db \in QueueOf(DbEvent) /\ OrdersKept
      /\ InHandMatches /\ DbEventsMatch
      /\ \A r \in Requests : req'[r].subject = req[r].subject
      /\ e \in Messages(db) \/ DbNews(e)
  BY StepFacts, CallMovesLemma, DbNewsLemma DEF IInv, Typed, TypeOK, LondoTypeOK
<1>2. CASE e \in Messages(db)
  <2>1. e \in DbEvent /\ Right(e)
    BY <1>1, <1>2, MessagesType DEF DbEventsMatch
  <2>2. e.cmd = "subj.get" => e.replyTo \in Requests
    BY <2>1, DbEventFields
  <2> QED BY <1>1, <2>1, <2>2 DEF OrderWith, OrderFor, OrdersKept
<1>3. CASE EnrollPublishAdd /\ e = AddEventSent
  <2>1. OrderWith(enrolld.certId, enroll.current[1].subject, enrolld.key)
    BY <1>1, <1>3 DEF InHandMatches, EnrollPublishAdd
  <2>2. OrderWith(e.certId, e.subject, e.key) /\ e.cmd = "subj.add"
    BY <1>3, <2>1 DEF AddEventSent
  <2> QED BY <1>1, <2>2 DEF OrderWith, OrderFor, OrdersKept
<1>4. CASE CollectPublish /\ e = UpdateEventSent
  BY <1>4 DEF UpdateEventSent
<1>5. ASSUME NEW r \in Requests, Lookup(r), e = GetEventSent(r)
      PROVE  Right(e)'
  BY <1>1, <1>5 DEF GetEventSent
<1>6. ASSUME NEW snap, e = DeleteEventSent(snap)
      PROVE  Right(e)'
  BY <1>6 DEF DeleteEventSent
<1> QED BY <1>1, <1>2, <1>3, <1>4, <1>5, <1>6 DEF DbNews

(* What an answer names is a record its subject had. *)
SnapRight(snap, s) == snap # NoSubject => OrderFor(snap.certId, s)

(* An answer dbd publishes is a record of the subject that was asked for. *)
LEMMA RepliesStep ==
    ASSUME IInv, Next, NEW r \in Requests, NEW snap \in Range(reply'[r])
    PROVE  (snap \in Range(reply[r]) \/ SnapRight(snap, req[r].subject))
<1> DEFINE h == Head(db.ready)
<1>1. /\ db \in QueueOf(DbEvent)
      /\ db.current = <<>> <=> dbd = "idle"
      /\ RecordsMatch /\ DbEventsMatch
      /\ reply \in [Requests -> Seq(Snapshot)]
  BY StepFacts DEF IInv, Typed, TypeOK, LondoTypeOK, OneInHand
<1>2. CASE UNCHANGED reply
  BY <1>2
<1>3. ASSUME NEW n, Answer(h.replyTo, n),
             SnapRight(n, req[h.replyTo].subject)
      PROVE  snap \in Range(reply[r]) \/ SnapRight(snap, req[r].subject)
  <2>1. CASE reply'[r] = reply[r]
    BY <2>1
  <2>2. CASE reply'[r] # reply[r]
    <3>1. r = h.replyTo /\ reply'[r] = <<n>>
      BY <1>1, <1>3, <2>2 DEF Answer
    <3>2. Range(<<n>>) = {n}
      BY DEF Range
    <3> QED BY <1>3, <3>1, <3>2
  <2> QED BY <2>1, <2>2
<1>4. CASE GetSubject
  <2>1. h \in Messages(db) /\ h.cmd = "subj.get"
    BY <1>1, <1>4, TakeLemma, MessagesType DEF GetSubject, Command
  <2>2. h.subject = req[h.replyTo].subject
    BY <1>1, <2>1 DEF DbEventsMatch
  <2>3. PICK n \in Found(h.subject) : Answer(h.replyTo, n)
    BY <1>4 DEF GetSubject
  <2>4. SnapRight(n, h.subject)
    <3>1. CASE n = NoSubject
      BY <3>1 DEF SnapRight
    <3>2. CASE n # NoSubject
      <4>1. PICK rec \in subjects : /\ rec.subject = h.subject
                                    /\ n = [id |-> rec.id, certId |-> rec.certId]
        BY <3>2 DEF Found
      <4>2. n.certId = rec.certId
        BY <4>1
      <4> QED BY <1>1, <4>1, <4>2 DEF RecordsMatch, OrderWith, SnapRight
    <3> QED BY <3>1, <3>2
  <2> QED BY <1>3, <2>2, <2>3, <2>4
<1>5. CASE GetSubjectFails
  BY <1>3, <1>5 DEF GetSubjectFails, SnapRight
<1>6. CASE DbdStep
  BY <1>2, <1>4, <1>5, <1>6
     DEF DbdStep, DbdNext, AddSubject, AddSubjectFails, UpdateSubject,
         UpdateSubjectFails, DeleteSubject, DeleteSubjectNone,
         DeleteSubjectFails, GetSubjectUnanswered, DbdAck, DbdCrash
<1>7. CASE BrokerRestart
  BY <1>7, EmptyRange DEF BrokerRestart
<1> QED BY <1>2, <1>6, <1>7, EnrolldFrame, CollectdFrame, RevokedFrame,
           GrpcdFrame, CheckerdFrame DEF Next

(* How a check may move in one step. *)
CheckStays(x) == check'[x].snap = check[x].snap
                 /\ check'[x].pc \in {check[x].pc, "done"}
CheckReads(x) ==
    /\ check[x].pc = "idle"
    /\ \E rec \in subjects : check'[x].snap.certId = rec.certId
                            /\ check'[x].pc = "expired"
CheckDeletes(x) ==
    /\ CheckDelete(x) /\ Excuse(GivenUp(x))
    /\ check'[x].snap = check[x].snap

(* What a step does to one check: nothing, read a record, or ask for its   *)
(* deletion.                                                               *)
LEMMA CheckMovesLemma ==
    ASSUME Typed, Next, NEW x \in Checks
    PROVE  /\ CheckStays(x) \/ CheckReads(x) \/ CheckDeletes(x)
           /\ check[x].pc = "idle" => check'[x].pc \in {"idle", "expired"}
<1> DEFINE Good == /\ CheckStays(x) \/ CheckReads(x) \/ CheckDeletes(x)
                   /\ check[x].pc = "idle" => check'[x].pc \in {"idle", "expired"}
<1>1. check \in [Checks -> Checking]
  BY DEF Typed, TypeOK
<1>2. ASSUME check'[x] = check[x] PROVE Good
  BY <1>1, <1>2 DEF CheckStays, Checking
<1>3. CASE CheckerdStep
  <2>1. ASSUME NEW y \in Checks, NEW rec \in subjects, CheckRead(y, rec)
        PROVE  Good
    <3>1. CASE x # y
      BY <1>1, <1>2, <2>1, <3>1 DEF CheckRead
    <3>2. CASE x = y
      <4>1. check'[x] = [pc |-> "expired",
                         snap |-> [id |-> rec.id, certId |-> rec.certId]]
        BY <1>1, <2>1, <3>2 DEF CheckRead
      <4>2. check[x].pc = "idle"
        BY <2>1, <3>2 DEF CheckRead
      <4> QED BY <2>1, <4>1, <4>2 DEF CheckReads
    <3> QED BY <3>1, <3>2
  <2>2. ASSUME NEW y \in Checks, NEW pc, check' = [check EXCEPT ![y].pc = pc]
        PROVE  /\ x # y => check'[x] = check[x]
               /\ x = y => check'[x].snap = check[x].snap /\ check'[x].pc = pc
    BY <1>1, <2>2 DEF Checking
  <2>3. ASSUME NEW y \in Checks, CheckDelete(y), Excuse(GivenUp(y))
        PROVE  Good
    <3>1. check[y].pc = "expired" /\ check' = [check EXCEPT ![y].pc = "revoke"]
      BY <2>3 DEF CheckDelete
    <3> QED BY <1>2, <2>2, <2>3, <3>1 DEF CheckDeletes
  <2>4. ASSUME NEW y \in Checks, CheckRevoke(y) \/ CheckAborts(y)
        PROVE  Good
    <3>1. check[y].pc # "idle" /\ check' = [check EXCEPT ![y].pc = "done"]
      BY <2>4 DEF CheckRevoke, CheckAborts
    <3> QED BY <1>2, <2>2, <2>4, <3>1 DEF CheckStays
  <2> QED BY <1>3, <2>1, <2>3, <2>4 DEF CheckerdStep
<1>4. CASE BrokerRestart
  <2>1. CASE check[x].pc \in {"expired", "revoke"}
    <3>1. check'[x] = [check[x] EXCEPT !.pc = "done"]
      BY <1>4, <2>1 DEF BrokerRestart
    <3> QED BY <1>1, <2>1, <3>1 DEF CheckStays, Checking
  <2>2. CASE check[x].pc \notin {"expired", "revoke"}
    BY <1>2, <1>4, <2>2 DEF BrokerRestart
  <2> QED BY <2>1, <2>2
<1>5. CASE UNCHANGED check
  BY <1>2, <1>5
<1> QED BY <1>3, <1>4, <1>5, EnrolldFrame, CollectdFrame, RevokedFrame,
           DbdFrame, GrpcdFrame DEF Next

(* SnapshotsMatch: what a call or a check has read stays a record its      *)
(* subject had.                                                            *)
LEMMA SnapshotsStep ==
    ASSUME IInv, Next
    PROVE  SnapshotsMatch'
<1>1. /\ OrdersKept /\ SnapshotsMatch /\ RecordsMatch
      /\ reply \in [Requests -> Seq(Snapshot)]
      /\ \A r \in Requests : req'[r].subject = req[r].subject
  BY StepFacts, CallMovesLemma DEF IInv, Typed, TypeOK, LondoTypeOK
<1>2. ASSUME NEW c, NEW s, OrderFor(c, s) PROVE OrderFor(c, s)'
  BY <1>1, <1>2 DEF OrderFor, OrdersKept
<1>3. ASSUME NEW r \in Requests, NEW snap \in Range(reply'[r]),
             snap # NoSubject
      PROVE  OrderFor(snap.certId, req[r].subject)'
  <2>1. OrderFor(snap.certId, req[r].subject)
    BY <1>1, <1>3, RepliesStep DEF SnapshotsMatch, SnapRight
  <2> QED BY <1>1, <2>1 DEF OrderFor, OrdersKept
<1>4. ASSUME NEW r \in Requests, req'[r].pc \in {"enroll", "delete"}
      PROVE  OrderFor(req[r].snap.certId, req[r].subject)'
  <2>1. OrderFor(req'[r].snap.certId, req[r].subject)
    <3>1. CASE CallStays(r) \/ CallEnrolls(r)
      BY <1>1, <1>4, <3>1 DEF CallStays, CallEnrolls, SnapshotsMatch
    <3>2. CASE CallRevokes(r)
      <4>1. /\ reply[r] \in Seq(Snapshot) /\ reply[r] # <<>>
            /\ Answer1(r) # NoSubject
        BY <1>1, <3>2 DEF CallRevokes, RenewRevoke, Answered
      <4>2. Answer1(r) \in Range(reply[r])
        BY <4>1, HeadTailRange DEF Answer1
      <4>3. OrderFor(Answer1(r).certId, req[r].subject)
        BY <1>1, <4>1, <4>2 DEF SnapshotsMatch
      <4> QED BY <3>2, <4>3 DEF CallRevokes
    <3>3. CASE CallMoves(r)
      BY <1>4, <3>3 DEF CallMoves
    <3> QED BY <3>1, <3>2, <3>3, StepFacts, CallMovesLemma
  <2> QED BY <1>1, <2>1 DEF OrderFor, OrdersKept
<1>5. ASSUME NEW x \in Checks, check'[x].pc # "idle"
      PROVE  check'[x].snap.certId \in DOMAIN orders'
  <2>1. check'[x].snap.certId \in DOMAIN orders
    <3>1. CASE CheckStays(x)
      <4>1. check[x].pc # "idle"
        BY <1>5, <3>1, StepFacts, CheckMovesLemma DEF CheckStays
      <4> QED BY <1>1, <3>1, <4>1 DEF CheckStays, SnapshotsMatch
    <3>2. CASE CheckReads(x)
      BY <1>1, <3>2 DEF CheckReads, RecordsMatch, OrderWith, OrderFor
    <3>3. CASE CheckDeletes(x)
      BY <1>1, <3>3 DEF CheckDeletes, CheckDelete, SnapshotsMatch
    <3> QED BY <3>1, <3>2, <3>3, StepFacts, CheckMovesLemma
  <2> QED BY <1>1, <2>1 DEF OrdersKept
<1> QED BY <1>3, <1>4, <1>5 DEF SnapshotsMatch

(* NoSubjectLost: the enrol event AddNewSubject publishes keeps its        *)
(* subject from then on.                                                   *)
LEMMA AcceptedStep ==
    ASSUME IInv, Next
    PROVE  NoSubjectLost'
<1> SUFFICES ASSUME NEW s \in accepted' PROVE Kept(s, 0)'
  BY DEF NoSubjectLost
<1>1. /\ accepted \subseteq Subjects /\ 0 \in 0 .. Len(orders)
      /\ enroll \in QueueOf(EnrollEvent) /\ NoSubjectLost
  BY StepFacts DEF IInv, Typed, TypeOK, LondoTypeOK
<1>2. CASE s \in accepted
  BY <1>1, <1>2, KeptStable DEF NoSubjectLost
<1>3. CASE s \notin accepted
  <2>1. GrpcdStep
    BY <1>3, EnrolldFrame, CollectdFrame, RevokedFrame, DbdFrame,
       CheckerdFrame DEF Next, BrokerRestart
  <2>2. PICK r \in Requests : AddEnroll(r) /\ s = req[r].subject
    BY <1>3, <2>1 DEF GrpcdStep, GrpcdNext, Lookup, AddExists, AddEnroll,
       RenewMissing, RenewRevoke, RenewEnroll, RenewDelete, DeleteCall,
       CallAborts
  <2>3. PICK e : e = [subject |-> req[r].subject]
    OBVIOUS
  <2>4. e.subject = s /\ enroll' = Put(enroll, e)
    BY <2>2, <2>3 DEF AddEnroll
  <2>5. e \in Waiting(enroll')
    BY <1>1, <2>4, PutMessages
  <2> QED BY <2>4, <2>5 DEF Kept, Alive, EnrollWaits
<1> QED BY <1>2, <1>3

(* The checker asks for a deletion only of a record that has a successor,  *)
(* or gives its subject up in the same breath.                             *)
LEMMA CheckSupersedes ==
    ASSUME IInv, Next, NEW x \in Checks, CheckDelete(x), Excuse(GivenUp(x)),
           NEW c, c = check[x].snap.certId
    PROVE  Superseded(c)'
<1>1. c \in DOMAIN orders /\ orders[c].subject \in Subjects
  BY StepFacts DEF CheckDelete, IInv, SnapshotsMatch
<1>2. CASE Alive(orders[c].subject, c)
  BY <1>1, <1>2, SupersededStable DEF Superseded, Kept
<1>3. CASE ~Alive(orders[c].subject, c)
  <2>1. orders[c].subject \in excused'
    BY <1>3 DEF Excuse, GivenUp
  <2>2. c \in DOMAIN orders' /\ orders'[c].subject = orders[c].subject
    BY <1>1, StepFacts DEF OrdersKept
  <2> QED BY <2>1, <2>2 DEF Superseded, Kept
<1> QED BY <1>2, <1>3

(* DeletesSuperseded: a renewal asks for the deletion after its enrol      *)
(* event is out, a check after it gave the subject up.                     *)
LEMMA DeletesStep ==
    ASSUME IInv, Next
    PROVE  DeletesSuperseded'
<1>1. Typed /\ DeletesSuperseded
  BY IInvParts DEF IInv
<1>2. ASSUME NEW e \in Messages(db'), e.cmd = "subj.delete"
      PROVE  Superseded(e.certId)'
  <2>1. CASE e \in Messages(db)
    <3>1. Superseded(e.certId)
      BY <1>1, <1>2, <2>1 DEF DeletesSuperseded
    <3> QED BY <3>1, SupersededStable
  <2>2. CASE DbNews(e)
    <3>1. CASE \E r \in Requests :
                   RenewDelete(r) /\ e = DeleteEventSent(req[r].snap)
      <4>1. PICK r \in Requests :
                RenewDelete(r) /\ e = DeleteEventSent(req[r].snap)
        BY <3>1
      <4>2. Superseded(e.certId)
        BY <1>1, <4>1 DEF RenewDelete, At, DeletesSuperseded, DeleteEventSent
      <4> QED BY <4>2, SupersededStable
    <3>2. CASE \E x \in Checks : /\ CheckDelete(x) /\ Excuse(GivenUp(x))
                                 /\ e = DeleteEventSent(check[x].snap)
      <4>1. PICK x \in Checks : /\ CheckDelete(x) /\ Excuse(GivenUp(x))
                                /\ e.certId = check[x].snap.certId
        BY <3>2 DEF DeleteEventSent
      <4> QED BY <4>1, CheckSupersedes
    <3> QED BY <1>2, <2>2, <3>1, <3>2
            DEF DbNews, AddEventSent, UpdateEventSent, GetEventSent
  <2> QED BY <1>1, <2>1, <2>2, DbNewsLemma
<1>3. ASSUME NEW r \in Requests, req'[r].pc = "delete"
      PROVE  Superseded(req[r].snap.certId)'
  <2>1. PICK c : c = req[r].snap.certId
    OBVIOUS
  <2>2. CASE CallStays(r)
    <3>1. Superseded(c) /\ req'[r].snap.certId = c
      BY <1>1, <1>3, <2>1, <2>2 DEF CallStays, DeletesSuperseded
    <3>2. Superseded(c)'
      BY <3>1, SupersededStable
    <3> QED BY <3>1, <3>2
  <2>3. CASE CallEnrolls(r)
    <3>1. Superseded(c)' /\ req'[r].snap.certId = c
      BY <2>1, <2>3, RenewalKeeps DEF CallEnrolls
    <3> QED BY <3>1
  <2>4. CASE CallMoves(r) \/ CallRevokes(r)
    BY <1>3, <2>4 DEF CallMoves, CallRevokes
  <2> QED BY <1>1, <2>2, <2>3, <2>4, CallMovesLemma
<1> QED BY <1>2, <1>3 DEF DeletesSuperseded

(* Where a new revocation comes from: the broker's messages ...            *)
LEMMA OrdersRevoked ==
    ASSUME IInv, Next, NEW c \in DOMAIN orders', orders'[c].revoked
    PROVE  /\ c \in DOMAIN orders
           /\ orders[c].revoked \/ \E e \in Messages(revoke) : e.certId = c
<1> DEFINE Good == /\ c \in DOMAIN orders
                   /\ \/ orders[c].revoked
                      \/ \E e \in Messages(revoke) : e.certId = c
<1>1. /\ TypeOK /\ RevokesKnown
      /\ enroll \in QueueOf(EnrollEvent) /\ revoke \in QueueOf(RevokeEvent)
      /\ enroll.current = <<>> <=> enrolld.pc = "idle"
      /\ revoke.current = <<>> <=> revoked = "idle"
  BY IInvParts DEF Typed, TypeOK, LondoTypeOK, OneInHand
<1>2. CASE UNCHANGED orders
  BY <1>2
<1>3. ASSUME EnrollTaken, PlaceOrder(Head(enroll.ready).subject) PROVE Good
  <2>1. Head(enroll.ready) \in EnrollEvent
    BY <1>1, <1>3, TakeLemma DEF EnrollTaken
  <2>2. Head(enroll.ready).subject \in Subjects
    BY <2>1 DEF EnrollEvent
  <2>3. /\ DOMAIN orders' = DOMAIN orders \cup {Len(orders) + 1}
        /\ \A d \in DOMAIN orders : orders'[d] = orders[d]
        /\ orders'[Len(orders) + 1] =
              [subject |-> Head(enroll.ready).subject, key |-> NewKey,
               revoked |-> FALSE]
    BY <1>1, <1>3, <2>2, PlaceOrderLemma
  <2> QED BY <2>3
<1>4. ASSUME Revoking, RevokeOrder(Head(revoke.ready).certId) PROVE Good
  <2>1. PICK e \in Messages(revoke) : e = Head(revoke.ready)
    BY <1>1, <1>4, TakeLemma, MessagesType DEF Revoking
  <2>2. e.certId \in DOMAIN orders
    BY <1>1, <2>1 DEF RevokesKnown
  <2>3. /\ DOMAIN orders' = DOMAIN orders
        /\ \A d \in DOMAIN orders : d # e.certId => orders'[d] = orders[d]
    BY <1>1, <1>4, <2>1, <2>2, RevokeOrderLemma
  <2> QED BY <2>1, <2>2, <2>3
<1>5. CASE EnrolldStep
  BY <1>2, <1>3, <1>5
     DEF EnrolldStep, EnrolldNext, EnrollAccepted, EnrollRefused,
         EnrollAnswerLost, EnrollAnswerUnreadable, EnrollUnprepared,
         EnrollPublishCollect, EnrollPublishAdd, EnrollPublishFails, EnrollAck,
         EnrolldCrash
<1>6. CASE RevokedStep
  BY <1>2, <1>4, <1>6
     DEF RevokedStep, RevokedNext, DeclareRevoke, RevokeAnswered,
         RevokeRefused, RevokeAnswerLost, RevokeAck, RevokedCrash
<1>7. CASE BrokerRestart
  BY <1>2, <1>7 DEF BrokerRestart
<1> QED BY <1>2, <1>5, <1>6, <1>7, CollectdFrame, DbdFrame, GrpcdFrame,
           CheckerdFrame DEF Next

(* ... and those from a renewal or from a check. *)
RevokeNews(e) ==
    \/ \E r \in Requests : RenewRevoke(r) /\ e = Answer1(r)
    \/ \E x \in Checks : CheckRevoke(x) /\ e = check[x].snap

(* A new message for londo-revoked comes from a renewal that goes on to    *)
(* enrol, or from a check that has asked for the deletion.                 *)
LEMMA RevokeNewsLemma ==
    ASSUME Typed, Next, NEW e \in Messages(revoke')
    PROVE  e \in Messages(revoke) \/ RevokeNews(e)
<1> DEFINE Good == e \in Messages(revoke) \/ RevokeNews(e)
<1>1. /\ revoke \in QueueOf(RevokeEvent)
      /\ revoke.current = <<>> <=> revoked = "idle"
  BY DEF Typed, TypeOK, LondoTypeOK, OneInHand
<1>2. CASE UNCHANGED revoke
  BY <1>2
<1>3. ASSUME NEW m, revoke' = Put(revoke, m), RevokeNews(m) PROVE Good
  BY <1>1, <1>3, PutMessages
<1>4. CASE RevokedStep
  <2>1. CASE RevokeAnswered
    BY <1>1, <2>1, TakeLemma DEF RevokeAnswered, Revoking
  <2>2. CASE RevokeRefused \/ RevokeAnswerLost
    BY <1>1, <2>2, TakeReturnLemma DEF RevokeRefused, RevokeAnswerLost, Revoking
  <2>3. CASE RevokeAck
    BY <1>1, <2>3, SettleLemma, MessagesType DEF RevokeAck
  <2>4. CASE RevokedCrash
    BY <1>1, <2>4, ReturnLemma DEF RevokedCrash
  <2>5. CASE DeclareRevoke
    BY <1>2, <2>5 DEF DeclareRevoke
  <2> QED BY <1>4, <2>1, <2>2, <2>3, <2>4, <2>5 DEF RevokedStep, RevokedNext
<1>5. CASE GrpcdStep
  <2>1. CASE \E r \in Requests : RenewRevoke(r)
    <3>1. PICK r \in Requests : RenewRevoke(r)
      BY <2>1
    <3>2. RevokeNews(Answer1(r))
      BY <3>1 DEF RevokeNews
    <3> QED BY <1>2, <1>3, <3>1, <3>2 DEF RenewRevoke
  <2>2. CASE ~\E r \in Requests : RenewRevoke(r)
    BY <1>2, <1>5, <2>2
       DEF GrpcdStep, GrpcdNext, Lookup, AddExists, AddEnroll, RenewMissing,
           RenewEnroll, RenewDelete, DeleteCall, CallAborts
  <2> QED BY <2>1, <2>2
<1>6. CASE CheckerdStep
  <2>1. CASE \E x \in Checks : CheckRevoke(x)
    <3>1. PICK x \in Checks : CheckRevoke(x)
      BY <2>1
    <3>2. RevokeNews(check[x].snap)
      BY <3>1 DEF RevokeNews
    <3> QED BY <1>3, <3>1, <3>2 DEF CheckRevoke
  <2>2. CASE ~\E x \in Checks : CheckRevoke(x)
    BY <1>2, <1>6, <2>2 DEF CheckerdStep, CheckRead, CheckDelete, CheckAborts
  <2> QED BY <2>1, <2>2
<1>7. CASE BrokerRestart
  BY <1>7, EmptyQueueLemma DEF BrokerRestart
<1> QED BY <1>2, <1>4, <1>5, <1>6, <1>7, EnrolldFrame, CollectdFrame, DbdFrame
        DEF Next

(* RevokesReplaced: an order is revoked only by a message londo-revoked    *)
(* had, and whoever sent it left a successor or was interrupted.           *)
LEMMA RevokesStep ==
    ASSUME IInv, Next
    PROVE  RevokesReplaced'
<1>1. Typed /\ RevokesReplaced /\ SnapshotsMatch
      /\ reply \in [Requests -> Seq(Snapshot)]
  BY IInvParts DEF IInv, TypeOK, LondoTypeOK
<1>2. ASSUME NEW c \in DOMAIN orders', orders'[c].revoked
      PROVE  Replaced(c)'
  <2>1. c \in DOMAIN orders /\ Replaced(c)
    BY <1>1, <1>2, OrdersRevoked DEF RevokesReplaced
  <2> QED BY <2>1, ReplacedStable
<1>3. ASSUME NEW e \in Messages(revoke')
      PROVE  e.certId \in DOMAIN orders' /\ Replaced(e.certId)'
  <2>1. CASE e \in Messages(revoke)
    <3>1. e.certId \in DOMAIN orders /\ Replaced(e.certId)
      BY <1>1, <2>1 DEF RevokesReplaced
    <3> QED BY <3>1, ReplacedStable, StepFacts DEF OrdersKept
  <2>2. ASSUME NEW r \in Requests, RenewRevoke(r), e = Answer1(r)
        PROVE  e.certId \in DOMAIN orders' /\ Replaced(e.certId)'
    <3>1. e # NoSubject /\ e \in Range(reply[r])
      <4>1. reply[r] \in Seq(Snapshot) /\ reply[r] # <<>> /\ e # NoSubject
        BY <1>1, <2>2 DEF RenewRevoke, Answered
      <4> QED BY <2>2, <4>1, HeadTailRange DEF Answer1
    <3>2. e.certId \in DOMAIN orders
      BY <1>1, <3>1 DEF SnapshotsMatch, OrderFor
    <3>3. req'[r].snap = e /\ req'[r].pc = "enroll"
      BY <1>1, <2>2 DEF RenewRevoke, Typed, TypeOK, Call
    <3> QED BY <3>2, <3>3, StepFacts DEF OrdersKept, Replaced, Interrupted
  <2>3. ASSUME NEW x \in Checks, CheckRevoke(x), e = check[x].snap
        PROVE  e.certId \in DOMAIN orders' /\ Replaced(e.certId)'
    <3>1. Superseded(e.certId)
      BY <1>1, <2>3 DEF CheckRevoke, RevokesReplaced
    <3>2. Superseded(e.certId)'
      BY <3>1, SupersededStable
    <3> QED BY <3>2 DEF Superseded, Replaced
  <2> QED BY <1>1, <2>1, <2>2, <2>3, RevokeNewsLemma DEF RevokeNews
<1>4. ASSUME NEW x \in Checks, check'[x].pc = "revoke"
      PROVE  Superseded(check[x].snap.certId)'
  <2>1. PICK c : c = check[x].snap.certId
    OBVIOUS
  <2>2. CASE CheckStays(x)
    <3>1. Superseded(c) /\ check'[x].snap.certId = c
      BY <1>1, <1>4, <2>1, <2>2 DEF CheckStays, RevokesReplaced
    <3>2. Superseded(c)'
      BY <3>1, SupersededStable
    <3> QED BY <3>1, <3>2
  <2>3. CASE CheckDeletes(x)
    <3>1. Superseded(c)' /\ check'[x].snap.certId = c
      BY <2>1, <2>3, CheckSupersedes DEF CheckDeletes
    <3> QED BY <3>1
  <2>4. CASE CheckReads(x)
    BY <1>4, <2>4 DEF CheckReads
  <2> QED BY <1>1, <2>2, <2>3, <2>4, CheckMovesLemma
<1> QED BY <1>2, <1>3, <1>4 DEF RevokesReplaced
-----------------------------------------------------------------------------
(* The initial states satisfy the inductive invariant. *)
LEMMA IInvInit ==
    ASSUME Init
    PROVE  IInv
<1>1. Typed
  BY InitTyped
<1>2. /\ Messages(db) = {} /\ Messages(revoke) = {}
      /\ orders = <<>> /\ subjects = {} /\ accepted = {}
      /\ enrolld.pc = "idle"
      /\ \A r \in Requests : Range(reply[r]) = {}
  BY EmptyQueueLemma, EmptyRange
     DEF Init, LondoInit, EnrolldInit, DbdInit, GrpcdInit, EnrolldIdle
<1>3. /\ \A r \in Requests : req[r].pc = "idle"
      /\ \A x \in Checks : check[x].pc = "idle"
  BY DEF Init, GrpcdInit, CheckerdInit
<1> QED BY <1>1, <1>2, <1>3
        DEF IInv, Typed, InHandMatches, RecordsMatch, DbEventsMatch,
            SnapshotsMatch, NoSubjectLost, DeletesSuperseded, RevokesReplaced

(* Every step preserves the inductive invariant. *)
LEMMA IInvStep ==
    ASSUME IInv, [Next]_vars
    PROVE  IInv'
<1>1. CASE Next
  BY <1>1, StepFacts, InHandStep, RecordsStep, DbEventsStep, SnapshotsStep,
     AcceptedStep, DeletesStep, RevokesStep DEF IInv, Typed
<1>2. CASE UNCHANGED vars
  <2> USE <1>2 DEF vars, queueVars, dbdVars, grpcdVars
  <2>1. TypeOK' /\ OneInHand'
    BY DEF IInv, TypeOK, LondoTypeOK, OneInHand
  <2>2. InHandMatches' /\ RecordsMatch' /\ DbEventsMatch' /\ SnapshotsMatch'
    BY DEF IInv, InHandMatches, RecordsMatch, DbEventsMatch, SnapshotsMatch,
           OrderWith, OrderFor
  <2>3. \A s, c : Kept(s, c)' <=> Kept(s, c)
    BY DEF Kept, Alive, EnrollWaits, EnrollInHand, AddWaits
  <2>4. \A c : Replaced(c) => Replaced(c)'
    BY <2>3 DEF Replaced, Interrupted
  <2>5. NoSubjectLost' /\ DeletesSuperseded' /\ RevokesReplaced'
    BY <2>3, <2>4 DEF IInv, NoSubjectLost, DeletesSuperseded, RevokesReplaced,
                      Superseded
  <2> QED BY <2>1, <2>2, <2>5 DEF IInv
<1> QED BY <1>1, <1>2

(* The inductive invariant holds in every reachable state. *)
THEOREM Invariance == Spec => []IInv
<1>1. Init => IInv
  BY IInvInit
<1>2. IInv /\ [Next]_vars => IInv'
  BY IInvStep
<1> QED BY <1>1, <1>2, PTL DEF Spec

(* Every variable of the daemons and of the broker keeps its type. *)
THEOREM TypeCorrect == Spec => []TypeOK
<1>1. IInv => TypeOK
  BY DEF IInv
<1> QED BY <1>1, Invariance, PTL

(* Whatever enrolld retried, the broker redelivered or dbd inserted twice: *)
(* the certificate in a record answers the CSR made with the record's key. *)
THEOREM KeyMatchesCertHolds == Spec => []KeyMatchesCert
<1>1. IInv => KeyMatchesCert
  BY DEF IInv, RecordsMatch, OrderWith, KeyMatchesCert
<1> QED BY <1>1, Invariance, PTL

(* A subject AddNewSubject answered for is never lost, not by a crash      *)
(* between two publishes, nor by a deletion decided long before.           *)
THEOREM NoSubjectLostHolds == Spec => []NoSubjectLost
<1>1. IInv => NoSubjectLost
  BY DEF IInv
<1> QED BY <1>1, Invariance, PTL

(* A revoked order in use has a successor on its way. *)
THEOREM RevokedIsReplacedHolds == Spec => []RevokedIsReplaced
<1>1. IInv => RevokedIsReplaced
  BY DEF IInv, RecordsMatch, RevokesReplaced, RevokedIsReplaced, OrderWith,
         OrderFor
<1> QED BY <1>1, Invariance, PTL
=============================================================================
