------------------------------- MODULE Lifecycle ----------------------------
(***************************************************************************)
(* The life of a subject and of its certificates: londo-grpcd, enrolld,    *)
(* collectd, revoked, checkerd and dbd composed through the broker's       *)
(* queues.  Every daemon is sequential, the calls of grpcd and the         *)
(* goroutines of checkerd are not, and any step of one may come between    *)
(* two steps of another.                                                   *)
(***************************************************************************)
EXTENDS Enrolld, Collectd, Revoked, Dbd, Grpcd, Checkerd

CONSTANT SleepOrders  \* the minute collectd sleeps outlasts enrolld and dbd

ASSUME SleepAssumption == SleepOrders \in BOOLEAN

queueVars == <<enroll, collect, revoke, db, revokeDeclared, reply>>

vars == <<queueVars, orders, faults, excused, enrolld, collectd, revoked,
          dbdVars, grpcdVars, check>>

Init ==
    /\ LondoInit
    /\ EnrolldInit
    /\ CollectdInit
    /\ RevokedInit
    /\ DbdInit
    /\ GrpcdInit
    /\ CheckerdInit
-----------------------------------------------------------------------------
(* Enrolments of subject s that still have to end in a record: an enrol    *)
(* event nobody holds, ...                                                 *)
EnrollWaits(s) == \E e \in Waiting(enroll) : e.subject = s

(* ... the one in enrolld's hands, until it has told dbd, if its order is  *)
(* newer than c, ...                                                       *)
EnrollInHand(s, c) ==
    /\ enrolld.pc \in {"collect", "add"}
    /\ enroll.current[1].subject = s
    /\ enrolld.certId > c

(* ... and an add event dbd does not hold: one it holds is inserted.       *)
AddWaits(s, c) ==
    \E e \in Waiting(db) : e.cmd = "subj.add" /\ e.subject = s /\ e.certId > c

(* Subject s has, or is going to have, a record with an order newer than c. *)
Alive(s, c) ==
    \/ EnrollWaits(s)
    \/ EnrollInHand(s, c)
    \/ AddWaits(s, c)
    \/ \E rec \in subjects : rec.subject = s /\ rec.certId > c
-----------------------------------------------------------------------------
EnrolldStep ==
    /\ EnrolldNext
    /\ UNCHANGED <<collectd, revoked, dbdVars, grpcdVars, check>>

(* The order is fresh while its add event is not in the database yet. *)
Unrecorded(c) ==
    \/ enrolld.pc \in {"collect", "add"} /\ enrolld.certId = c
    \/ \E e \in Messages(db) : e.cmd = "subj.add" /\ e.certId = c

CollectdStep ==
    /\ CollectdNext
    /\ (SleepOrders /\ Collecting)
          => (collectd' = "publish" => ~Unrecorded(Head(collect.ready).certId))
    /\ UNCHANGED <<enrolld, revoked, dbdVars, grpcdVars, check>>

RevokedStep ==
    /\ RevokedNext
    /\ UNCHANGED <<enrolld, collectd, dbdVars, grpcdVars, check>>

DbdStep ==
    /\ DbdNext
    /\ UNCHANGED <<enrolld, collectd, revoked, grpcdVars, check>>

GrpcdStep ==
    /\ GrpcdNext
    /\ UNCHANGED <<enrolld, collectd, revoked, dbdVars, check>>

(* A check gives up its subject only if nothing newer than the record it   *)
(* read was there, or on its way, when it asked for the deletion.          *)
GivenUp(x) ==
    LET c == check[x].snap.certId  s == orders[c].subject IN
    IF Alive(s, c) THEN {} ELSE {s}

CheckerdStep ==
    /\ \/ \E x \in Checks, rec \in subjects : CheckRead(x, rec)
       \/ \E x \in Checks : CheckDelete(x) /\ Excuse(GivenUp(x))
       \/ \E x \in Checks : CheckRevoke(x) \/ CheckAborts(x)
    /\ UNCHANGED <<enrolld, collectd, revoked, dbdVars, grpcdVars>>

(* The broker restarts.  Queues are declared non-durable and messages are  *)
(* not persistent, so whatever was in flight is gone; the daemons find     *)
(* their connection closed and are started again.                          *)
BrokerRestart ==
    /\ Fault("broker")
    /\ enroll' = EmptyQueue
    /\ collect' = EmptyQueue
    /\ revoke' = EmptyQueue
    /\ db' = EmptyQueue
    /\ revokeDeclared' = FALSE
    /\ reply' = [r \in Requests |-> <<>>]
    /\ Excuse({s \in Subjects :
                  \/ EnrollWaits(s)
                  \/ EnrollInHand(s, 0)
                  \/ AddWaits(s, 0)})
    /\ enrolld' = EnrolldIdle
    /\ collectd' = "idle"
    /\ revoked' = "idle"
    /\ dbd' = "idle"
    /\ req' = [r \in Requests |->
                  IF req[r].pc \in {"lookup", "enroll", "delete"}
                  THEN [req[r] EXCEPT !.pc = "failed"] ELSE req[r]]
    /\ check' = [x \in Checks |->
                    IF check[x].pc \in {"expired", "revoke"}
                    THEN [check[x] EXCEPT !.pc = "done"] ELSE check[x]]
    /\ unrouted' = unrouted \cup
           {r \in Requests :
               \E e \in Messages(revoke) : e.certId = req[r].snap.certId}
    /\ UNCHANGED <<orders, subjects, inserted, accepted>>

Next ==
    \/ EnrolldStep
    \/ CollectdStep
    \/ RevokedStep
    \/ DbdStep
    \/ GrpcdStep
    \/ CheckerdStep
    \/ BrokerRestart

Spec == Init /\ [][Next]_vars

(* Fairness.  Every daemon runs: what it can do next without a failure, it *)
(* does in the end, and so does a call once it is under way.  The          *)
(* authority may refuse, but not forever: an answer that is possible again *)
(* and again comes.  Nobody has to make a call, and nothing has to fail.   *)
Healthy == UNCHANGED faults

Fairness ==
    /\ SF_vars(EnrollAccepted /\ EnrolldStep)
    /\ WF_vars(EnrolldStep /\ enrolld.pc # "idle" /\ Healthy)
    /\ SF_vars(CollectAnswered /\ CollectdStep)
    /\ WF_vars(CollectdStep /\ collectd # "idle" /\ Healthy)
    /\ SF_vars(RevokeAnswered /\ RevokedStep)
    /\ WF_vars(RevokedStep /\ revoked # "idle" /\ Healthy)
    /\ WF_vars(DbdStep /\ Healthy)
    /\ \A r \in Requests :
          WF_vars(GrpcdStep /\ req[r].pc \notin {"idle", req'[r].pc} /\ Healthy)

FairSpec == Spec /\ Fairness
-----------------------------------------------------------------------------
TypeOK ==
    /\ LondoTypeOK
    /\ enrolld \in Enrolling
    /\ collectd \in {"idle", "publish", "ack"}
    /\ revoked \in {"idle", "ack"}
    /\ subjects \subseteq Record
    /\ inserted \in Nat
    /\ dbd \in {"idle", "ack"}
    /\ req \in [Requests -> Call]
    /\ accepted \subseteq Subjects
    /\ unrouted \subseteq Requests
    /\ check \in [Checks -> Checking]

(* A record never pairs a certificate with another key: whatever was       *)
(* retried, redelivered or reordered, the certificate stored is the answer *)
(* to the CSR made with the private key stored next to it.                 *)
KeyMatchesCert ==
    \A rec \in subjects : rec.cert # 0 => orders[rec.cert].key = rec.key

(* A subject somebody was told is enrolled is in the database, or will be  *)
(* put there by a message nobody has lost, unless the code gave it up.     *)
Kept(s, c) == Alive(s, c) \/ s \in excused

NoSubjectLost == \A s \in accepted : Kept(s, 0)

(* A record whose order has been revoked has a successor, in the database  *)
(* or on its way, unless its renewal failed half way and said so, or the   *)
(* subject was given up.                                                   *)
Interrupted(c) ==
    \E r \in Requests :
        req[r].snap.certId = c /\ req[r].pc \in {"enroll", "failed"}

Replaced(c) == Kept(orders[c].subject, c) \/ Interrupted(c)

RevokedIsReplaced ==
    \A rec \in subjects : orders[rec.certId].revoked => Replaced(rec.certId)

OrderRevoked(c) == c \in DOMAIN orders /\ orders[c].revoked

RevocationKept(r) ==
    \/ r \in unrouted
    \/ OrderRevoked(req[r].snap.certId)
    \/ \E e \in Messages(revoke) : e.certId = req[r].snap.certId

(* A renewal that was answered revokes the order it replaced, provided a   *)
(* queue took its event and the broker kept it.                            *)
ReplacedIsRevoked ==
    \A r \in Requests : At(r, "renew", "done") => RevocationKept(r)

(* dbd has inserted the order of this record twice: it died before it had  *)
(* acknowledged the first time.  The other one is there, or has been read  *)
(* by the renewal or the check that deleted it.                            *)
Twin(rec, other) == other.certId = rec.certId /\ other.id # rec.id

InsertedTwice(rec) ==
    \/ \E other \in subjects : Twin(rec, other)
    \/ \E r \in Requests : Twin(rec, req[r].snap)
    \/ \E x \in Checks : Twin(rec, check[x].snap)

(* A record without a certificate is not forgotten: collectd still has its *)
(* order to collect, or dbd the certificate to store, unless the order was *)
(* inserted twice, for an update completes only one of its records.        *)
CollectPending ==
    \A rec \in subjects :
        rec.cert = 0 =>
            \/ \E e \in Messages(collect) : e.certId = rec.certId
            \/ \E e \in Waiting(db) :
                  e.cmd = "subj.update" /\ e.certId = rec.certId
            \/ InsertedTwice(rec)

(* A renewal that was answered is rid of the record it replaced, or dbd    *)
(* still has the event that will delete it.                                *)
DeletionKept(r) ==
    \/ \A rec \in subjects : rec.id # req[r].snap.id
    \/ \E e \in Messages(db) :
          /\ e.cmd = "subj.delete"
          /\ e.id = req[r].snap.id /\ e.certId = req[r].snap.certId

DeletionPending == \A r \in Requests : At(r, "renew", "done") => DeletionKept(r)

(* DeleteSubject "schedules an existing subject to be removed, and its     *)
(* certificate revoked", says the usage text of londo-admin: once the call *)
(* is answered, dbd has a delete event for each record the subject has.    *)
DeletionScheduled(r) ==
    (At(r, "delete", "idle") /\ req'[r].pc = "done")
        => \A rec \in subjects :
              rec.subject = req[r].subject
                  => \E e \in Messages(db') :
                        e.cmd = "subj.delete" /\ e.id = rec.id

DeleteIsScheduled == [][\A r \in Requests : DeletionScheduled(r)]_vars
-----------------------------------------------------------------------------
(* Why these invariants hold: the inductive invariant the proofs use.      *)

(* A daemon holds a delivery exactly while it is busy. *)
OneInHand ==
    /\ enroll.current = <<>> <=> enrolld.pc = "idle"
    /\ collect.current = <<>> <=> collectd = "idle"
    /\ revoke.current = <<>> <=> revoked = "idle"
    /\ db.current = <<>> <=> dbd = "idle"

(* What carries an order number carries the subject and the key the order  *)
(* was placed for.                                                         *)
OrderFor(c, s) == c \in DOMAIN orders /\ orders[c].subject = s
OrderWith(c, s, key) == OrderFor(c, s) /\ orders[c].key = key

InHandMatches ==
    enrolld.pc # "idle" =>
        OrderWith(enrolld.certId, enroll.current[1].subject, enrolld.key)

RecordsMatch ==
    \A rec \in subjects :
        /\ OrderWith(rec.certId, rec.subject, rec.key)
        /\ rec.cert \in {0, rec.certId}

DbEventsMatch ==
    \A e \in Messages(db) :
        /\ e.cmd = "subj.add" => OrderWith(e.certId, e.subject, e.key)
        /\ e.cmd = "subj.update" => e.cert = e.certId
        /\ e.cmd = "subj.get" => e.subject = req[e.replyTo].subject

(* What a call or a check has read is a record its subject had. *)
SnapshotsMatch ==
    /\ \A r \in Requests : \A snap \in Range(reply[r]) :
          snap # NoSubject => OrderFor(snap.certId, req[r].subject)
    /\ \A r \in Requests :
          req[r].pc \in {"enroll", "delete"} =>
              OrderFor(req[r].snap.certId, req[r].subject)
    /\ \A x \in Checks :
          check[x].pc # "idle" => check[x].snap.certId \in DOMAIN orders

(* Whoever asks dbd to delete a record, or has asked, left a successor.    *)
Superseded(c) == c \in DOMAIN orders /\ Kept(orders[c].subject, c)

DeletesSuperseded ==
    /\ \A e \in Messages(db) : e.cmd = "subj.delete" => Superseded(e.certId)
    /\ \A r \in Requests :
          req[r].pc = "delete" => Superseded(req[r].snap.certId)

(* An order is revoked, or about to be, only with a successor in view.     *)
RevokesReplaced ==
    /\ \A c \in DOMAIN orders : orders[c].revoked => Replaced(c)
    /\ \A e \in Messages(revoke) :
          e.certId \in DOMAIN orders /\ Replaced(e.certId)
    /\ \A x \in Checks :
          check[x].pc = "revoke" => Superseded(check[x].snap.certId)

IInv ==
    /\ TypeOK
    /\ OneInHand
    /\ InHandMatches
    /\ RecordsMatch
    /\ DbEventsMatch
    /\ SnapshotsMatch
    /\ NoSubjectLost
    /\ DeletesSuperseded
    /\ RevokesReplaced

(* For ReplacedIsRevoked: a renewal's event is never lost once it is out,  *)
(* for londo-revoked acknowledges only what the authority has revoked.     *)
RevocationsKept ==
    /\ \A r \in Requests :
          (req[r].op = "renew" /\ req[r].pc \in {"enroll", "delete", "done"})
              => RevocationKept(r)
    /\ revoked = "ack" =>
          \A e \in Range(revoke.current) : OrderRevoked(e.certId)

(* For CollectPending: an order is collected only once its record is in    *)
(* the database, so what collectd then asks dbd to store finds it there.   *)

(* Every record has an _id of its own, out of those given so far. *)
RecordsDistinct ==
    \A rec \in subjects :
        /\ rec.id \in 1 .. inserted
        /\ \A other \in subjects : other.id = rec.id => other = rec

(* What a call has read still names the record it was read from: dbd never *)
(* gives the _id, nor another order, to it or to another.                  *)
Exact(snap) ==
    /\ snap.id \in 0 .. inserted
    /\ \A rec \in subjects : rec.id = snap.id => rec.certId = snap.certId

SnapshotsExact ==
    \A r \in Requests :
        Exact(req[r].snap) /\ \A snap \in Range(reply[r]) : Exact(snap)

(* dbd acknowledges a deletion only once the record is gone. *)
DeletionsDone ==
    \A e \in Range(db.current) :
        e.cmd = "subj.delete" => MatchingDelete(e) = {}

(* For DeletionPending: a deletion names one record and no other, ever,    *)
(* and dbd settles it only once that record is gone.                       *)
DeletionInv ==
    /\ RecordsDistinct
    /\ SnapshotsExact
    /\ DeletionsDone
    /\ DeletionPending

(* Nobody has a snapshot before it reads one, and whoever asks for a       *)
(* deletion read the record and keeps what it read.                        *)
Read(e) ==
    \/ \E r \in Requests : req[r].snap = [id |-> e.id, certId |-> e.certId]
    \/ \E x \in Checks : check[x].snap = [id |-> e.id, certId |-> e.certId]

DeletesRead ==
    /\ \A r \in Requests :
          req[r].pc \in {"idle", "lookup"} => req[r].snap = NoSubject
    /\ \A x \in Checks : check[x].pc = "idle" => check[x].snap = NoSubject
    /\ \A e \in Messages(db) : e.cmd = "subj.delete" => Read(e)

(* An order that is not in the database yet has not been collected: it was *)
(* placed, collectd is to collect it once dbd is told of it, does not      *)
(* hold its certificate, and has not published that.                       *)
CollectSent(c) == \E e \in Messages(collect) : e.certId = c

Uncollected ==
    /\ \A e \in Messages(collect) : e.certId \in DOMAIN orders
    /\ \A e \in Messages(db) :
          e.cmd = "subj.update" =>
              e.certId \in DOMAIN orders /\ ~Unrecorded(e.certId)
    /\ collectd # "idle" => ~Unrecorded(Collected)
    /\ enrolld.pc = "add" => CollectSent(enrolld.certId)
    /\ \A e \in Messages(db) : e.cmd = "subj.add" => CollectSent(e.certId)

(* collectd holds one order at a time, and once it is to acknowledge it,   *)
(* dbd has the certificate.                                                *)
UpdateWaits(c) ==
    \E e \in Waiting(db) : e.cmd = "subj.update" /\ e.certId = c

CollectedSent ==
    /\ \A e \in Range(collect.current) : e.certId = Collected
    /\ collectd = "ack" =>
          \A rec \in subjects :
              (rec.certId = Collected /\ rec.cert = 0)
                  => UpdateWaits(Collected) \/ InsertedTwice(rec)

(* A record waits for its certificate as CollectPending says, because an   *)
(* order is collected only once dbd knows of it, and let go of only once   *)
(* its certificate is on the way to dbd.                                   *)
CollectInv ==
    /\ RecordsDistinct
    /\ DeletesRead
    /\ Uncollected
    /\ CollectPending
    /\ CollectedSent
-----------------------------------------------------------------------------
(* A subject somebody was told is enrolled ends up in the database with a  *)
(* certificate, through whatever renewals follow, or is given up.          *)
Stored(s) == \E rec \in subjects : rec.subject = s /\ rec.cert # 0

StoredEventually ==
    \A s \in Subjects : s \in accepted ~> Stored(s) \/ s \in excused

(* A renewal that was answered ends with the old record gone for good,     *)
(* although a deletion that finds no record goes round the queue for ever. *)
ReplacedIsDeleted ==
    \A r \in Requests :
        At(r, "renew", "done")
            ~> [](\A rec \in subjects : rec.id # req[r].snap.id)

(* ... and with its order revoked, if the broker took the event.           *)
ReplacedIsRevokedEventually ==
    \A r \in Requests :
        At(r, "renew", "done")
            ~> r \in unrouted \/ OrderRevoked(req[r].snap.certId)
=============================================================================
