------------------------------ MODULE MCLifecycle ---------------------------
(***************************************************************************)
(* Small instances of Lifecycle for TLC.                                   *)
(***************************************************************************)
EXTENDS Lifecycle, TLC

CallSymmetry == Permutations(Requests)

(* Later starts, so that more calls fit: the daemons run, one subject has   *)
(* been accepted, and every call is a renewal that has not begun.          *)
Subj == CHOOSE s \in Subjects : TRUE
Key == CHOOSE k \in Keys : TRUE

Later ==
    /\ collect = EmptyQueue /\ revoke = EmptyQueue /\ db = EmptyQueue
    /\ revokeDeclared = TRUE
    /\ reply = [r \in Requests |-> <<>>]
    /\ faults = 0
    /\ excused = {}
    /\ EnrolldInit /\ CollectdInit /\ RevokedInit /\ CheckerdInit
    /\ dbd = "idle"
    /\ req = [r \in Requests |-> [op |-> "renew", subject |-> Subj,
                                  pc |-> "idle", snap |-> NoSubject]]
    /\ accepted = {Subj}
    /\ unrouted = {}

(* Its enrol event has just been published ... *)
Accepted ==
    /\ Later
    /\ enroll = Put(EmptyQueue, [subject |-> Subj])
    /\ orders = <<>>
    /\ subjects = {} /\ inserted = 0

(* ... or it has been stored, with its certificate. *)
Enrolled ==
    /\ Later
    /\ enroll = EmptyQueue
    /\ orders = <<[subject |-> Subj, key |-> Key, revoked |-> FALSE]>>
    /\ subjects = {[id |-> 1, subject |-> Subj, key |-> Key,
                    certId |-> 1, cert |-> 1]}
    /\ inserted = 1

AcceptedSpec == Accepted /\ [][Next]_vars /\ Fairness
EnrolledSpec == Enrolled /\ [][Next]_vars /\ Fairness
=============================================================================
