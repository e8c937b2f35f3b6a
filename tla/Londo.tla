-------------------------------- MODULE Londo -------------------------------
(***************************************************************************)
(* What the londo daemons share: the four work queues of the broker, the   *)
(* orders of the certificate authority (Sectigo's REST API), and the fault *)
(* budget.  Each daemon has a module of its own that EXTENDS this one and  *)
(* module Lifecycle composes them.                                         *)
(***************************************************************************)
EXTENDS Amqp, Naturals

CONSTANTS
    Subjects,    \* host names, the key a user knows a certificate by
    Keys,        \* private keys enrolld may generate
    NoKey,       \* no private key: enrolld is between two deliveries
    Requests,    \* gRPC calls, each one made at most once
    Checks,      \* checks of checkerd that may end in a deletion
    Ops,         \* the gRPC methods the calls may use
    MaxOrders,   \* bound: orders the authority accepts before it refuses
    Faults,      \* the kinds of failure that may happen
    MaxFaults    \* bound: failures in one behaviour

ASSUME LondoAssumption ==
    /\ NoKey \notin Keys
    /\ Ops \subseteq {"add", "renew", "delete"}
    /\ MaxOrders \in Nat
    /\ MaxFaults \in Nat

VARIABLES
    enroll, collect, revoke, db, \* the broker's work queues
    revokeDeclared,  \* the revoke queue exists and is bound
    reply,           \* the answers published to the calls' reply queues
    orders,          \* what the authority knows: sslId -> order
    faults,          \* failures so far
    excused          \* history: subjects the code gave up on
-----------------------------------------------------------------------------
(* The events of events.go, without the fields no property tells apart:    *)
(* Port, AltNames, Targets and the CSR go where the subject goes.          *)
EnrollEvent  == [subject : Subjects]
CollectEvent == [certId : Nat]
RevokeEvent  == [id : Nat, certId : Nat]

NewSubjectEvent ==
    [cmd : {"subj.add"}, subject : Subjects, key : Keys, certId : Nat]
CompleteEnrollEvent == [cmd : {"subj.update"}, certId : Nat, cert : Nat]
DeleteEvent == [cmd : {"subj.delete"}, id : Nat, certId : Nat]
GetSubjectEvent ==
    [cmd : {"subj.get"}, subject : Subjects, replyTo : Requests]

DbEvent ==
    NewSubjectEvent \cup CompleteEnrollEvent \cup DeleteEvent \cup GetSubjectEvent

(* A Subject as the gRPC methods and the checker use it once read: which   *)
(* record it is and which order it carries.  NoSubject is the empty        *)
(* Subject dbd answers with when it found none; record ids start at 1.     *)
Snapshot == [id : Nat, certId : Nat]
NoSubject == [id |-> 0, certId |-> 0]
-----------------------------------------------------------------------------
(* The authority numbers its orders 1, 2, ... (the sslId of the response)  *)
(* and knows the key of each through the CSR.  When it issues is its own   *)
(* affair: collectd may get the certificate, or be told to come back.      *)
Order == [subject : Subjects, key : Keys, revoked : BOOLEAN]

(* GeneratePrivateKey never returns a key somebody has already; which of   *)
(* the others it is makes no difference.                                   *)
FreshKeys == {k \in Keys : \A c \in DOMAIN orders : orders[c].key # k}
NewKey == CHOOSE k \in FreshKeys : TRUE

PlaceOrder(s) ==
    /\ FreshKeys # {}
    /\ Len(orders) < MaxOrders
    /\ orders' = Append(orders,
                        [subject |-> s, key |-> NewKey, revoked |-> FALSE])

RevokeOrder(c) == orders' = [orders EXCEPT ![c].revoked = TRUE]
-----------------------------------------------------------------------------
(* A failure of kind f happens in this step. *)
Fault(f) ==
    /\ f \in Faults
    /\ faults < MaxFaults
    /\ faults' = faults + 1

Excuse(S) == excused' = excused \cup S

LondoInit ==
    /\ enroll = EmptyQueue
    /\ collect = EmptyQueue
    /\ revoke = EmptyQueue
    /\ db = EmptyQueue
    /\ revokeDeclared \in BOOLEAN
    /\ reply = [r \in Requests |-> <<>>]
    /\ orders = <<>>
    /\ faults = 0
    /\ excused = {}

LondoTypeOK ==
    /\ enroll \in QueueOf(EnrollEvent)
    /\ collect \in QueueOf(CollectEvent)
    /\ revoke \in QueueOf(RevokeEvent)
    /\ db \in QueueOf(DbEvent)
    /\ revokeDeclared \in BOOLEAN
    /\ reply \in [Requests -> Seq(Snapshot)]
    /\ orders \in Seq(Order)
    /\ faults \in Nat
    /\ excused \subseteq Subjects
=============================================================================
