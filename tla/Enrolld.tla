------------------------------- MODULE Enrolld ------------------------------
(***************************************************************************)
(* londo-enrolld: ConsumeEnroll.  The handler makes a key and a CSR, waits *)
(* a minute, orders a certificate, publishes the collect event, publishes  *)
(* the record dbd is to add and acknowledges.  Everything before the order *)
(* leaves no trace if it is cut short, so a delivery is taken in the same  *)
(* step as the authority's answer; after it every publish is a step.       *)
(***************************************************************************)
EXTENDS Londo

VARIABLE enrolld   \* what the handler holds between two of its calls

EnrolldIdle == [pc |-> "idle", key |-> NoKey, certId |-> 0]
Enrolling == {EnrolldIdle} \cup
             [pc : {"collect", "add", "ack"}, key : Keys, certId : Nat]

EnrolldInit == enrolld = EnrolldIdle

EnrollTaken == enrolld.pc = "idle" /\ enroll.ready # <<>>

(* Mutant: the handler does not keep the key it generated. *)
EnrollAcceptedNoKey ==
    /\ EnrollTaken
    /\ PlaceOrder(Head(enroll.ready).subject)
    /\ enrolld' = [pc |-> "collect", key |-> NoKey, certId |-> Len(orders) + 1]
    /\ enroll' = Take(enroll)
    /\ UNCHANGED <<collect, revoke, db, revokeDeclared, reply, faults, excused>>

(* The authority accepted the order and the answer was readable. *)
EnrollAccepted ==
    /\ EnrollTaken
    /\ PlaceOrder(Head(enroll.ready).subject)
    /\ enrolld' = [pc |-> "collect", key |-> NewKey, certId |-> Len(orders) + 1]
    /\ enroll' = Take(enroll)
    /\ UNCHANGED <<collect, revoke, db, revokeDeclared, reply, faults, excused>>

(* Mutant: Reject(false) for Reject(true). *)
EnrollRefusedDropped ==
    /\ EnrollTaken
    /\ enroll' = Settle(Take(enroll))
    /\ UNCHANGED <<collect, revoke, db, revokeDeclared, reply, orders, faults,
                   excused, enrolld>>

(* The authority refused, or could not be reached: Reject(true). *)
EnrollRefused ==
    /\ EnrollTaken
    /\ enroll' = Requeue(Take(enroll))
    /\ UNCHANGED <<collect, revoke, db, revokeDeclared, reply, orders, faults,
                   excused, enrolld>>

(* The authority took the order but the answer never came or was not 200,  *)
(* and the delivery is requeued: the next attempt orders once more.        *)
EnrollAnswerLost ==
    /\ EnrollTaken
    /\ Fault("ca")
    /\ PlaceOrder(Head(enroll.ready).subject)
    /\ enroll' = Requeue(Take(enroll))
    /\ UNCHANGED <<collect, revoke, db, revokeDeclared, reply, excused, enrolld>>

(* A 200 whose body does not parse: Reject(false), the subject is dropped. *)
EnrollAnswerUnreadable ==
    /\ EnrollTaken
    /\ Fault("body")
    /\ PlaceOrder(Head(enroll.ready).subject)
    /\ enroll' = Settle(Take(enroll))
    /\ Excuse({Head(enroll.ready).subject})
    /\ UNCHANGED <<collect, revoke, db, revokeDeclared, reply, enrolld>>

(* The key or the CSR could not be made: Reject(false), dropped as well. *)
EnrollUnprepared ==
    /\ EnrollTaken
    /\ Fault("key")
    /\ enroll' = Settle(Take(enroll))
    /\ Excuse({Head(enroll.ready).subject})
    /\ UNCHANGED <<collect, revoke, db, revokeDeclared, reply, orders, enrolld>>

EnrollPublishCollect ==
    /\ enrolld.pc = "collect"
    /\ collect' = Put(collect, [certId |-> enrolld.certId])
    /\ enrolld' = [enrolld EXCEPT !.pc = "add"]
    /\ UNCHANGED <<enroll, revoke, db, revokeDeclared, reply, orders, faults,
                   excused>>

EnrollPublishAdd ==
    /\ enrolld.pc = "add"
    /\ db' = Put(db, [cmd |-> "subj.add", subject |-> enroll.current[1].subject,
                      key |-> enrolld.key, certId |-> enrolld.certId])
    /\ enrolld' = [enrolld EXCEPT !.pc = "ack"]
    /\ UNCHANGED <<enroll, collect, revoke, revokeDeclared, reply, orders,
                   faults, excused>>

(* Either publish fails: the handler returns, the delivery stays with it. *)
EnrollPublishFails ==
    /\ enrolld.pc \in {"collect", "add"}
    /\ Fault("publish")
    /\ enroll' = Forget(enroll)
    /\ enrolld' = EnrolldIdle
    /\ UNCHANGED <<collect, revoke, db, revokeDeclared, reply, orders, excused>>

EnrollAck ==
    /\ enrolld.pc = "ack"
    /\ enroll' = Settle(enroll)
    /\ enrolld' = EnrolldIdle
    /\ UNCHANGED <<collect, revoke, db, revokeDeclared, reply, orders, faults,
                   excused>>

(* The process dies, or its connection does, and is started again. *)
EnrolldCrash ==
    /\ enroll.current # <<>> \/ enroll.stuck # <<>>
    /\ Fault("enrolld")
    /\ enroll' = ChannelLost(enroll)
    /\ enrolld' = EnrolldIdle
    /\ UNCHANGED <<collect, revoke, db, revokeDeclared, reply, orders, excused>>

EnrolldNext ==
    \/ EnrollAccepted
    \/ EnrollRefused
    \/ EnrollAnswerLost
    \/ EnrollAnswerUnreadable
    \/ EnrollUnprepared
    \/ EnrollPublishCollect
    \/ EnrollPublishAdd
    \/ EnrollPublishFails
    \/ EnrollAck
    \/ EnrolldCrash
=============================================================================
