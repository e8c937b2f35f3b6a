-------------------------------- MODULE Revoked -----------------------------
(***************************************************************************)
(* londo-revoked: ConsumeRevoke.  The handler asks the authority to revoke *)
(* one order and acknowledges when the answer is 204; every other outcome  *)
(* puts the delivery back.  A renewal may be served before this daemon     *)
(* was ever started: grpcd does not declare the queue it publishes to.     *)
(***************************************************************************)
EXTENDS Londo

VARIABLE revoked   \* where the handler is

RevokedInit == revoked = "idle"

Revoking == revoked = "idle" /\ revoke.ready # <<>>

(* londo-revoked or londo-checkerd starts: both Declare the queue. *)
DeclareRevoke ==
    /\ ~revokeDeclared
    /\ revokeDeclared' = TRUE
    /\ UNCHANGED <<enroll, collect, revoke, db, reply, orders, faults, excused,
                   revoked>>

RevokeAnswered ==
    /\ Revoking
    /\ RevokeOrder(Head(revoke.ready).certId)
    /\ revoke' = Take(revoke)
    /\ revoked' = "ack"
    /\ UNCHANGED <<enroll, collect, db, revokeDeclared, reply, faults, excused>>

(* Mutant: a refused revocation is dropped. *)
RevokeRefusedDropped ==
    /\ Revoking
    /\ revoke' = Settle(Take(revoke))
    /\ UNCHANGED <<enroll, collect, db, revokeDeclared, reply, orders, faults,
                   excused, revoked>>

(* Unreachable or not 204 (an order revoked before, say): Reject(true). *)
RevokeRefused ==
    /\ Revoking
    /\ revoke' = Requeue(Take(revoke))
    /\ UNCHANGED <<enroll, collect, db, revokeDeclared, reply, orders, faults,
                   excused, revoked>>

(* The authority revoked but its answer was lost: Reject(true). *)
RevokeAnswerLost ==
    /\ Revoking
    /\ Fault("ca")
    /\ RevokeOrder(Head(revoke.ready).certId)
    /\ revoke' = Requeue(Take(revoke))
    /\ UNCHANGED <<enroll, collect, db, revokeDeclared, reply, excused, revoked>>

RevokeAck ==
    /\ revoked = "ack"
    /\ revoke' = Settle(revoke)
    /\ revoked' = "idle"
    /\ UNCHANGED <<enroll, collect, db, revokeDeclared, reply, orders, faults,
                   excused>>

RevokedCrash ==
    /\ revoke.current # <<>>
    /\ Fault("revoked")
    /\ revoke' = ChannelLost(revoke)
    /\ revoked' = "idle"
    /\ UNCHANGED <<enroll, collect, db, revokeDeclared, reply, orders, excused>>

RevokedNext ==
    \/ DeclareRevoke
    \/ RevokeAnswered
    \/ RevokeRefused
    \/ RevokeAnswerLost
    \/ RevokeAck
    \/ RevokedCrash
=============================================================================
