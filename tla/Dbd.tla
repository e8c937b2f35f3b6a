---------------------------------- MODULE Dbd -------------------------------
(***************************************************************************)
(* londo-dbd: ConsumeDbRPC, the only process that touches MongoDB.  One    *)
(* action per command and outcome; a delivery is taken in the step that    *)
(* queries the database, and acknowledged in a step of its own because a   *)
(* crash in between makes the broker deliver it again.                     *)
(***************************************************************************)
EXTENDS Londo

VARIABLES
    subjects,   \* the collection: records of type Subject
    inserted,   \* documents inserted so far, the source of fresh _ids
    dbd         \* where the handler is

dbdVars == <<subjects, inserted, dbd>>

(* cert is the order whose certificate the record holds, 0 before any.     *)
Record == [id : Nat, subject : Subjects, key : Keys, certId : Nat, cert : Nat]

DbdInit ==
    /\ subjects = {}
    /\ inserted = 0
    /\ dbd = "idle"

Command(cmd) ==
    /\ dbd = "idle"
    /\ db.ready # <<>>
    /\ Head(db.ready).cmd = cmd

(* The three ways a handler leaves its delivery. *)
Handled  == db' = Take(db) /\ dbd' = "ack"
Rejected == db' = Settle(Take(db)) /\ UNCHANGED dbd
Requeued == db' = Requeue(Take(db)) /\ UNCHANGED dbd
-----------------------------------------------------------------------------
(* InsertSubject makes an _id of its own: nothing keeps a redelivered      *)
(* event, or a second enrolment, from inserting the subject again.         *)
AddSubject ==
    /\ Command("subj.add")
    /\ LET e == Head(db.ready) IN
       subjects' = subjects \cup
           {[id |-> inserted + 1, subject |-> e.subject, key |-> e.key,
             certId |-> e.certId, cert |-> 0]}
    /\ inserted' = inserted + 1
    /\ Handled
    /\ UNCHANGED <<enroll, collect, revoke, revokeDeclared, reply, orders,
                   faults, excused>>

AddSubjectFails ==
    /\ Command("subj.add")
    /\ Fault("db")
    /\ Requeued
    /\ UNCHANGED <<enroll, collect, revoke, revokeDeclared, reply, orders,
                   excused, subjects, inserted>>

(* Mutant: an update that forgets its filter. *)
MatchingAny(c) == subjects

(* UpdateSubjCert: UpdateOne by cert_id.  No match is no error. *)
MatchingCertId(c) == {rec \in subjects : rec.certId = c}

UpdateSubject ==
    /\ Command("subj.update")
    /\ LET e == Head(db.ready) IN
       \/ /\ MatchingCertId(e.certId) = {}
          /\ UNCHANGED subjects
       \/ \E rec \in MatchingCertId(e.certId) :
             subjects' = (subjects \ {rec}) \cup {[rec EXCEPT !.cert = e.cert]}
    /\ Handled
    /\ UNCHANGED <<enroll, collect, revoke, revokeDeclared, reply, orders,
                   faults, excused, inserted>>

(* A certificate that does not parse, or the database is away. *)
UpdateSubjectFails ==
    /\ Command("subj.update")
    /\ Fault("update")
    /\ Rejected
    /\ UNCHANGED <<enroll, collect, revoke, revokeDeclared, reply, orders,
                   excused, subjects, inserted>>

(* Mutant: deletion by name, which takes the renewed record along. *)
MatchingName(e) ==
    {rec \in subjects : rec.subject = orders[e.certId].subject}

(* DeleteSubject: DeleteOne by _id and cert_id. *)
MatchingDelete(e) ==
    {rec \in subjects : rec.id = e.id /\ rec.certId = e.certId}

DeleteSubject ==
    /\ Command("subj.delete")
    /\ MatchingDelete(Head(db.ready)) # {}
    /\ subjects' = subjects \ MatchingDelete(Head(db.ready))
    /\ Handled
    /\ UNCHANGED <<enroll, collect, revoke, revokeDeclared, reply, orders,
                   faults, excused, inserted>>

(* Mutant: the delivery goes back to the head of the queue, as it would    *)
(* with a prefetch limit of one.                                           *)
DeleteSubjectBlocks ==
    /\ Command("subj.delete")
    /\ MatchingDelete(Head(db.ready)) = {}
    /\ UNCHANGED <<enroll, collect, revoke, db, revokeDeclared, reply, orders,
                   faults, excused, subjects, inserted, dbd>>

(* Nothing to delete is an error, and every error is Reject(true). *)
DeleteSubjectNone ==
    /\ Command("subj.delete")
    /\ MatchingDelete(Head(db.ready)) = {}
    /\ Requeued
    /\ UNCHANGED <<enroll, collect, revoke, revokeDeclared, reply, orders,
                   faults, excused, subjects, inserted>>

(* Mutant: a deletion that failed is dropped. *)
DeleteSubjectFailsDropped ==
    /\ Command("subj.delete")
    /\ Fault("db")
    /\ Rejected
    /\ UNCHANGED <<enroll, collect, revoke, revokeDeclared, reply, orders,
                   excused, subjects, inserted>>

DeleteSubjectFails ==
    /\ Command("subj.delete")
    /\ Fault("db")
    /\ Requeued
    /\ UNCHANGED <<enroll, collect, revoke, revokeDeclared, reply, orders,
                   excused, subjects, inserted>>

(* The caller reads one answer; a later one finds nobody waiting. *)
Answer(r, snap) ==
    reply' = [reply EXCEPT ![r] = IF @ = <<>> THEN <<snap>> ELSE @]

Found(s) ==
    LET recs == {rec \in subjects : rec.subject = s} IN
    IF recs = {} THEN {NoSubject}
    ELSE {[id |-> rec.id, certId |-> rec.certId] : rec \in recs}

(* FindSubject: FindOne by name, any of them when there are several.       *)
GetSubject ==
    /\ Command("subj.get")
    /\ LET e == Head(db.ready) IN
       \E snap \in Found(e.subject) : Answer(e.replyTo, snap)
    /\ Handled
    /\ UNCHANGED <<enroll, collect, revoke, revokeDeclared, orders, faults,
                   excused, subjects, inserted>>

(* A failed query is answered like a subject that does not exist. *)
GetSubjectFails ==
    /\ Command("subj.get")
    /\ Fault("db")
    /\ Answer(Head(db.ready).replyTo, NoSubject)
    /\ Handled
    /\ UNCHANGED <<enroll, collect, revoke, revokeDeclared, orders, excused,
                   subjects, inserted>>

(* The answer cannot be published: the handler returns as it stands. *)
GetSubjectUnanswered ==
    /\ Command("subj.get")
    /\ Fault("publish")
    /\ db' = Forget(Take(db))
    /\ UNCHANGED <<enroll, collect, revoke, revokeDeclared, reply, orders,
                   excused, subjects, inserted, dbd>>

DbdAck ==
    /\ dbd = "ack"
    /\ db' = Settle(db)
    /\ dbd' = "idle"
    /\ UNCHANGED <<enroll, collect, revoke, revokeDeclared, reply, orders,
                   faults, excused, subjects, inserted>>

DbdCrash ==
    /\ db.current # <<>> \/ db.stuck # <<>>
    /\ Fault("dbd")
    /\ db' = ChannelLost(db)
    /\ dbd' = "idle"
    /\ UNCHANGED <<enroll, collect, revoke, revokeDeclared, reply, orders,
                   excused, subjects, inserted>>

DbdNext ==
    \/ AddSubject \/ AddSubjectFails
    \/ UpdateSubject \/ UpdateSubjectFails
    \/ DeleteSubject \/ DeleteSubjectNone \/ DeleteSubjectFails
    \/ GetSubject \/ GetSubjectFails \/ GetSubjectUnanswered
    \/ DbdAck \/ DbdCrash
=============================================================================
