------------------------------- MODULE Collectd -----------------------------
(***************************************************************************)
(* londo-collectd: ConsumeCollect.  The handler waits a minute, asks the   *)
(* authority for the certificate of one order, publishes it for dbd to     *)
(* store and acknowledges; whatever fails puts the delivery back.          *)
(***************************************************************************)
EXTENDS Londo

VARIABLE collectd   \* where the handler is

CollectdInit == collectd = "idle"

Collecting == collectd = "idle" /\ collect.ready # <<>>
Collected == collect.current[1].certId

(* 200: the authority has issued the certificate of this order. *)
CollectAnswered ==
    /\ Collecting
    /\ collect' = Take(collect)
    /\ collectd' = "publish"
    /\ UNCHANGED <<enroll, revoke, db, revokeDeclared, reply, orders, faults,
                   excused>>

(* Mutant: an order that is not ready yet is dropped. *)
CollectNotReadyDropped ==
    /\ Collecting
    /\ collect' = Settle(Take(collect))
    /\ UNCHANGED <<enroll, revoke, db, revokeDeclared, reply, orders, faults,
                   excused, collectd>>

(* Anything else: not issued yet, refused, unreachable. *)
CollectNotReady ==
    /\ Collecting
    /\ collect' = Requeue(Take(collect))
    /\ UNCHANGED <<enroll, revoke, db, revokeDeclared, reply, orders, faults,
                   excused, collectd>>

CollectPublish ==
    /\ collectd = "publish"
    /\ db' = Put(db, [cmd |-> "subj.update", certId |-> Collected,
                      cert |-> Collected])
    /\ collectd' = "ack"
    /\ UNCHANGED <<enroll, collect, revoke, revokeDeclared, reply, orders,
                   faults, excused>>

CollectPublishFails ==
    /\ collectd = "publish"
    /\ Fault("publish")
    /\ collect' = Requeue(collect)
    /\ collectd' = "idle"
    /\ UNCHANGED <<enroll, revoke, db, revokeDeclared, reply, orders, excused>>

CollectAck ==
    /\ collectd = "ack"
    /\ collect' = Settle(collect)
    /\ collectd' = "idle"
    /\ UNCHANGED <<enroll, revoke, db, revokeDeclared, reply, orders, faults,
                   excused>>

CollectdCrash ==
    /\ collect.current # <<>>
    /\ Fault("collectd")
    /\ collect' = ChannelLost(collect)
    /\ collectd' = "idle"
    /\ UNCHANGED <<enroll, revoke, db, revokeDeclared, reply, orders, excused>>

CollectdNext ==
    \/ CollectAnswered
    \/ CollectNotReady
    \/ CollectPublish
    \/ CollectPublishFails
    \/ CollectAck
    \/ CollectdCrash
=============================================================================
