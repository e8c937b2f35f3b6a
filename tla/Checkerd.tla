-------------------------------- MODULE Checkerd ----------------------------
(***************************************************************************)
(* londo-checkerd where it changes the life of a subject: ConsumeCheck     *)
(* on a host that has been unresolvable for longer than RevokeHours.  The  *)
(* goroutine acts on the record dbGetAllSubjects read for the scan, which  *)
(* may be long gone; that the host really expired is left open here.       *)
(***************************************************************************)
EXTENDS Londo

VARIABLE check   \* the goroutines

Checking == [pc : {"idle", "expired", "revoke", "done"}, snap : Snapshot]

CheckerdInit == check = [x \in Checks |-> [pc |-> "idle", snap |-> NoSubject]]

(* dbGetAllSubjects reads a record, publishes it, checkerd acknowledges it *)
(* and its goroutine finds the host expired.                               *)
CheckRead(x, rec) ==
    /\ check[x].pc = "idle"
    /\ check' = [check EXCEPT ![x] =
                    [pc |-> "expired",
                     snap |-> [id |-> rec.id, certId |-> rec.certId]]]
    /\ UNCHANGED <<enroll, collect, revoke, db, revokeDeclared, reply, orders,
                   faults, excused>>

(* The host is given up: dbd is told to delete the record that was read.   *)
(* Whether that gives up the subject too is for the composition to say.    *)
CheckDelete(x) ==
    /\ check[x].pc = "expired"
    /\ db' = Put(db, [cmd |-> "subj.delete", id |-> check[x].snap.id,
                      certId |-> check[x].snap.certId])
    /\ check' = [check EXCEPT ![x].pc = "revoke"]
    /\ UNCHANGED <<enroll, collect, revoke, revokeDeclared, reply, orders,
                   faults>>

(* Then the order is to be revoked; checkerd declared the queue itself. *)
CheckRevoke(x) ==
    /\ check[x].pc = "revoke"
    /\ revokeDeclared
    /\ revoke' = Put(revoke, check[x].snap)
    /\ check' = [check EXCEPT ![x].pc = "done"]
    /\ UNCHANGED <<enroll, collect, db, revokeDeclared, reply, orders, faults,
                   excused>>

(* A publish fails or checkerd dies: the event was acknowledged before     *)
(* the goroutine started, so the rest of this check never happens.         *)
CheckAborts(x) ==
    /\ check[x].pc \in {"expired", "revoke"}
    /\ Fault("check")
    /\ check' = [check EXCEPT ![x].pc = "done"]
    /\ UNCHANGED <<enroll, collect, revoke, db, revokeDeclared, reply, orders,
                   excused>>
=============================================================================
