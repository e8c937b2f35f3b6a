--------------------------------- MODULE Grpcd ------------------------------
(***************************************************************************)
(* londo-grpcd: the methods that change something, AddNewSubject,          *)
(* RenewSubjects and DeleteSubject.  Every call runs in a goroutine of its *)
(* own and talks to dbd through a reply queue of its own, so the calls     *)
(* interleave at every publish and at the wait for dbd's answer.           *)
(***************************************************************************)
EXTENDS Londo

VARIABLES
    req,        \* the calls
    accepted,   \* history: subjects AddNewSubject answered "enrolled." for
    unrouted    \* history: calls whose revocation the broker lost

grpcdVars == <<req, accepted, unrouted>>

Call == [op : Ops, subject : Subjects,
         pc : {"idle", "lookup", "enroll", "delete", "done", "failed"},
         snap : Snapshot]

GrpcdInit ==
    /\ req \in [Requests -> {[op |-> op, subject |-> s, pc |-> "idle",
                              snap |-> NoSubject] : op \in Ops, s \in Subjects}]
    /\ accepted = {}
    /\ unrouted = {}

At(r, op, pc) == req[r].op = op /\ req[r].pc = pc
GoTo(r, pc) == req' = [req EXCEPT ![r].pc = pc]

Answered(r) == reply[r] # <<>>
Answer1(r) == Head(reply[r])
-----------------------------------------------------------------------------
(* AddNewSubject and RenewSubjects both ask dbd for the subject first. *)
Lookup(r) ==
    /\ At(r, "add", "idle") \/ At(r, "renew", "idle")
    /\ db' = Put(db, [cmd |-> "subj.get", subject |-> req[r].subject,
                      replyTo |-> r])
    /\ GoTo(r, "lookup")
    /\ UNCHANGED <<enroll, collect, revoke, revokeDeclared, reply, orders,
                   faults, excused, accepted, unrouted>>

(* AddNewSubject: "already exists". *)
AddExists(r) ==
    /\ At(r, "add", "lookup")
    /\ Answered(r) /\ Answer1(r) # NoSubject
    /\ GoTo(r, "failed")
    /\ UNCHANGED <<enroll, collect, revoke, db, revokeDeclared, reply, orders,
                   faults, excused, accepted, unrouted>>

(* AddNewSubject: the enrol event is out and the caller is told so. *)
AddEnroll(r) ==
    /\ At(r, "add", "lookup")
    /\ Answered(r) /\ Answer1(r) = NoSubject
    /\ enroll' = Put(enroll, [subject |-> req[r].subject])
    /\ GoTo(r, "done")
    /\ accepted' = accepted \cup {req[r].subject}
    /\ UNCHANGED <<collect, revoke, db, revokeDeclared, reply, orders, faults,
                   excused, unrouted>>

(* RenewSubjects: "not found". *)
RenewMissing(r) ==
    /\ At(r, "renew", "lookup")
    /\ Answered(r) /\ Answer1(r) = NoSubject
    /\ GoTo(r, "failed")
    /\ UNCHANGED <<enroll, collect, revoke, db, revokeDeclared, reply, orders,
                   faults, excused, accepted, unrouted>>

(* RenewSubjects revokes first.  While nobody declared the revoke queue    *)
(* the broker drops the event and Publish reports no error.                *)
RenewRevoke(r) ==
    /\ At(r, "renew", "lookup")
    /\ Answered(r) /\ Answer1(r) # NoSubject
    /\ req' = [req EXCEPT ![r].pc = "enroll", ![r].snap = Answer1(r)]
    /\ IF revokeDeclared
       THEN revoke' = Put(revoke, Answer1(r)) /\ UNCHANGED unrouted
       ELSE unrouted' = unrouted \cup {r} /\ UNCHANGED revoke
    /\ UNCHANGED <<enroll, collect, db, revokeDeclared, reply, orders, faults,
                   excused, accepted>>

(* ... then enrols the subject anew ... *)
RenewEnroll(r) ==
    /\ At(r, "renew", "enroll")
    /\ enroll' = Put(enroll, [subject |-> req[r].subject])
    /\ GoTo(r, "delete")
    /\ UNCHANGED <<collect, revoke, db, revokeDeclared, reply, orders, faults,
                   excused, accepted, unrouted>>

(* Mutant: the event carries the order the renewal has just placed. *)
RenewDeleteNewest(r) ==
    /\ At(r, "renew", "delete")
    /\ db' = Put(db, [cmd |-> "subj.delete", id |-> req[r].snap.id,
                      certId |-> Len(orders)])
    /\ GoTo(r, "done")
    /\ UNCHANGED <<enroll, collect, revoke, revokeDeclared, reply, orders,
                   faults, excused, accepted, unrouted>>

(* ... and deletes the record it read. *)
RenewDelete(r) ==
    /\ At(r, "renew", "delete")
    /\ db' = Put(db, [cmd |-> "subj.delete", id |-> req[r].snap.id,
                      certId |-> req[r].snap.certId])
    /\ GoTo(r, "done")
    /\ UNCHANGED <<enroll, collect, revoke, revokeDeclared, reply, orders,
                   faults, excused, accepted, unrouted>>

(* DeleteSubject logs and returns. *)
DeleteCall(r) ==
    /\ At(r, "delete", "idle")
    /\ GoTo(r, "done")
    /\ UNCHANGED <<enroll, collect, revoke, db, revokeDeclared, reply, orders,
                   faults, excused, accepted, unrouted>>

(* A publish fails, or grpcd dies, between any two of these steps. *)
CallAborts(r) ==
    /\ req[r].pc \in {"lookup", "enroll", "delete"}
    /\ Fault("abort")
    /\ GoTo(r, "failed")
    /\ UNCHANGED <<enroll, collect, revoke, db, revokeDeclared, reply, orders,
                   excused, accepted, unrouted>>

GrpcdNext ==
    \E r \in Requests :
        \/ Lookup(r)
        \/ AddExists(r) \/ AddEnroll(r)
        \/ RenewMissing(r) \/ RenewRevoke(r) \/ RenewEnroll(r) \/ RenewDelete(r)
        \/ DeleteCall(r)
        \/ CallAborts(r)
=============================================================================
