------------------------------ MODULE HostCheck -----------------------------
(***************************************************************************)
(* The host check of londo: checkerd asks dbd for all subjects, dbd puts   *)
(* an event for each into the check queue, checkerd looks each subject up  *)
(* in the DNS, dials its addresses and tells dbd what it saw, or has the   *)
(* record deleted when the name has been unresolvable for too long.  Every *)
(* event carries the date and the serial number its scan read, the results *)
(* find their record by name, and scans may overlap.                       *)
(*                                                                         *)
(* Dates are ages in half hours: time.Duration.Round decides at the half.  *)
(***************************************************************************)
EXTENDS Amqp, SequencesExt, Integers

CONSTANTS
    Subjects,     \* host names
    Hosts,        \* the addresses names resolve to
    Scans,        \* scans that may be under way at the same time
    RevokeHours,  \* the flag --old of londo-checkerd
    MaxRecords,   \* bound: records inserted
    MaxChanges,   \* bound: changes of the DNS
    Faults,       \* the kinds of failure that may happen
    MaxFaults     \* bound: failures in one behaviour

ASSUME HostCheckAssumption ==
    /\ RevokeHours \in Nat
    /\ MaxRecords \in Nat
    /\ MaxChanges \in Nat
    /\ MaxFaults \in Nat

VARIABLES
    dns,      \* the addresses each name resolves to, {} for none
    served,   \* the certificate each address serves for a name, 0: another
    records,  \* the collection "subjects", as far as the checks go
    db,       \* dbd's queue
    checks,   \* the check queue
    running,  \* goroutines of checkerd that start to look a name up
    results,  \* goroutines of checkerd that are about to report
    down,     \* history: how long the checks have seen a name unresolvable
    first,    \* history: how long ago a check first did
    crossed,  \* history: names whose recovery was lost, or read around
    inserted, changes, faults

environment == <<dns, served>>
checker == <<checks, running, results>>
history == <<down, first, crossed>>
bounds == <<inserted, changes, faults>>

vars == <<environment, records, db, checker, history, bounds>>
-----------------------------------------------------------------------------
(* Time.  Zero is time.Time{}, no date at all; ages are not told apart     *)
(* once they are too old.                                                  *)
Zero == -1
TooOld == 2 * RevokeHours + 1
Age == {Zero} \cup 0 .. TooOld

Older(age) == IF age \in {Zero, TooOld} THEN age ELSE age + 1

(* Mutant: at least RevokeHours. *)
ExpiredEarly(age) == age # Zero /\ (age + 1) \div 2 >= RevokeHours

(* t.Round(time.Hour).Hours() > RevokeHours, and the date is not zero. *)
Expired(age) == age # Zero /\ (age + 1) \div 2 > RevokeHours
-----------------------------------------------------------------------------
(* CheckCertEvent, on its way to checkerd and back.  A certificate is known *)
(* by its serial number, the id of the record it was stored in; a record   *)
(* has none before collectd got it.                                        *)
CheckEvent == [cmd : {"check"}, scan : Scans, id : Nat, subject : Subjects,
               serial : Nat, unresolvable : Age]
StatusEvent == [cmd : {"subj.update.status"}, scan : Scans,
                subject : Subjects, unresolvable : Age, match : BOOLEAN,
                targets : SUBSET Hosts, outdated : SUBSET Hosts]
ScanEvent == [cmd : {"subj.get.all"}, scan : Scans]
DeleteEvent == [cmd : {"subj.delete"}, id : Nat]

Record == [id : 1 .. MaxRecords, subject : Subjects, serial : 0 .. MaxRecords,
           unresolvable : Age, match : BOOLEAN,
           targets : SUBSET Hosts, outdated : SUBSET Hosts]

RecordsOf(s) == {rec \in records : rec.subject = s}

Init ==
    /\ dns \in [Subjects -> SUBSET Hosts]
    /\ served = [s \in Subjects |-> [h \in Hosts |-> 0]]
    /\ records = {}
    /\ db = EmptyQueue
    /\ checks = EmptyQueue
    /\ running = {} /\ results = {}
    /\ down = [s \in Subjects |-> Zero]
    /\ first = [s \in Subjects |-> Zero]
    /\ crossed = {}
    /\ inserted = 0 /\ changes = 0 /\ faults = 0

Fault(f) ==
    /\ f \in Faults
    /\ faults < MaxFaults
    /\ faults' = faults + 1
-----------------------------------------------------------------------------
(* The scan. *)
UnderWay(sc) ==
    \E e \in Messages(db) \cup Messages(checks) \cup running \cup results :
        e.cmd # "subj.delete" /\ e.scan = sc

(* When checkerd starts, and every ScanHours, whatever is still under way. *)
PublishGetAllSubjects(sc) ==
    /\ ~UnderWay(sc)
    /\ db' = Put(db, [cmd |-> "subj.get.all", scan |-> sc])
    /\ UNCHANGED <<environment, records, checker, history, bounds>>

Command(cmd) == db.ready # <<>> /\ Head(db.ready).cmd = cmd
Handled == db' = Settle(Take(db))

CheckOf(rec, sc) ==
    [cmd |-> "check", scan |-> sc, id |-> rec.id, subject |-> rec.subject,
     serial |-> rec.serial, unresolvable |-> rec.unresolvable]

(* Names found up again, according to the results among E. *)
Recovering(E) ==
    {e.subject : e \in {r \in E : r.cmd = "subj.update.status"
                                  /\ r.unresolvable = Zero}}

(* The scan is acknowledged first: what cannot be published, because dbd   *)
(* dies or the broker is away, or all of it if the query fails, is left to *)
(* the next scan.                                                          *)
GetAllSubjects ==
    /\ Command("subj.get.all")
    /\ Handled
    /\ \E told \in SUBSET records :
          /\ (told = records /\ UNCHANGED faults) \/ Fault("scan")
          /\ checks' = [checks EXCEPT !.ready =
                @ \o SetToSeq({CheckOf(rec, Head(db.ready).scan) : rec \in told})]
    /\ crossed' = crossed \cup Recovering(results \cup Messages(db))
    /\ UNCHANGED <<environment, records, running, results, down, first,
                   inserted, changes>>
-----------------------------------------------------------------------------
(* ConsumeCheck acknowledges the event and starts a goroutine for it. *)
ConsumeCheck ==
    /\ checks.ready # <<>>
    /\ checks' = Settle(Take(checks))
    /\ running' = running \cup {Head(checks.ready)}
    /\ UNCHANGED <<environment, records, db, results, history, bounds>>

LookupFails(e) ==
    /\ e \in running /\ dns[e.subject] = {}
    /\ running' = running \ {e}
    /\ down' = [down EXCEPT ![e.subject] = IF @ = Zero THEN 0 ELSE @]
    /\ first' = [first EXCEPT ![e.subject] = IF @ = Zero THEN 0 ELSE @]
    /\ UNCHANGED <<environment, records, checks, crossed, bounds>>

(* Unresolvable, and has been for too long: the record is to be deleted.   *)
(* Its order is revoked next, which is module Checkerd's affair.           *)
GiveUp(e) ==
    /\ LookupFails(e)
    /\ Expired(e.unresolvable)
    /\ db' = Put(db, [cmd |-> "subj.delete", id |-> e.id])
    /\ UNCHANGED results

(* Mutant: the date is that of the last check. *)
SinceLast(age) == 0

Since(age) == IF age = Zero THEN 0 ELSE age

(* Unresolvable since now, or since the date the event carries. *)
Unreachable(e) ==
    /\ LookupFails(e)
    /\ ~Expired(e.unresolvable)
    /\ results' = results \cup
           {[cmd |-> "subj.update.status", scan |-> e.scan,
             subject |-> e.subject, unresolvable |-> Since(e.unresolvable),
             match |-> FALSE, targets |-> {}, outdated |-> {}]}
    /\ UNCHANGED db

(* GetCertSerialNumber: an empty serial number equals none. *)
Installed(e, h) == e.serial # 0 /\ served[e.subject][h] = e.serial

(* Mutant: the date of an earlier check is kept. *)
SeenUpKeepsDate(e, targets) ==
    [cmd |-> "subj.update.status", scan |-> e.scan, subject |-> e.subject,
     unresolvable |-> e.unresolvable, match |-> targets = dns[e.subject],
     targets |-> targets, outdated |-> dns[e.subject] \ targets]

SeenUp(e, targets) ==
    [cmd |-> "subj.update.status", scan |-> e.scan, subject |-> e.subject,
     unresolvable |-> Zero, match |-> targets = dns[e.subject],
     targets |-> targets, outdated |-> dns[e.subject] \ targets]

(* Other checks of the name whose date is from before its recovery. *)
Overtaken(e) ==
    \E o \in (running \ {e}) \cup results \cup Messages(checks) \cup Messages(db) :
        /\ o.cmd \in {"check", "subj.update.status"}
        /\ o.subject = e.subject /\ o.unresolvable # Zero

(* Resolvable: every address is dialled, and one that does not answer      *)
(* counts as outdated.                                                     *)
Resolves(e) ==
    /\ e \in running /\ dns[e.subject] # {}
    /\ running' = running \ {e}
    /\ LET up == {h \in dns[e.subject] : Installed(e, h)} IN
       \E targets \in SUBSET up :
          /\ (targets = up /\ UNCHANGED faults) \/ Fault("dial")
          /\ results' = results \cup {SeenUp(e, targets)}
    /\ down' = [down EXCEPT ![e.subject] = Zero]
    /\ crossed' = IF Overtaken(e) THEN crossed \cup {e.subject} ELSE crossed
    /\ UNCHANGED <<environment, records, db, checks, first, inserted, changes>>

PublishStatus(r) ==
    /\ r \in results
    /\ results' = results \ {r}
    /\ db' = Put(db, r)
    /\ UNCHANGED <<environment, records, checks, running, history, bounds>>

(* checkerd, or its connection, is gone, and its goroutines with it: every *)
(* event was acknowledged before.                                          *)
CheckerdCrash ==
    /\ running \cup results # {}
    /\ Fault("checkerd")
    /\ running' = {} /\ results' = {}
    /\ crossed' = crossed \cup Recovering(results)
    /\ UNCHANGED <<environment, records, db, checks, down, first, inserted,
                   changes>>
-----------------------------------------------------------------------------
(* londo-dbd.  A crash between an update and its acknowledgement repeats   *)
(* the update at once, to the same effect, and is left out.                *)
Update(rec, e) ==
    [rec EXCEPT !.unresolvable = e.unresolvable, !.match = e.match,
                !.targets = e.targets, !.outdated = e.outdated]

(* Mutant: what is empty is not written. *)
WriteNonEmpty(rec, e) ==
    IF e.outdated = {} THEN [Update(rec, e) EXCEPT !.outdated = rec.outdated]
    ELSE Update(rec, e)

(* UpdateUnreachable: UpdateOne by name, whichever record of that name. *)
Write(rec, e) == Update(rec, e)

(* Mutant: the result is put into a record of its own. *)
UpsertStatus ==
    /\ Command("subj.update.status")
    /\ Handled
    /\ LET e == Head(db.ready) IN
       records' = records \cup
           {[id |-> 0, subject |-> e.subject, serial |-> 0,
             unresolvable |-> e.unresolvable, match |-> e.match,
             targets |-> e.targets, outdated |-> e.outdated]}
    /\ UNCHANGED <<environment, checker, history, bounds>>

StatusUpdate ==
    /\ Command("subj.update.status")
    /\ Handled
    /\ LET e == Head(db.ready)  recs == RecordsOf(e.subject) IN
       /\ \/ recs = {} /\ UNCHANGED records
          \/ \E rec \in recs :
                records' = (records \ {rec}) \cup {Write(rec, e)}
       /\ crossed' = IF Cardinality(recs) > 1
                     THEN crossed \cup Recovering({e}) ELSE crossed
    /\ UNCHANGED <<environment, checker, down, first, bounds>>

(* The database is away: Reject(false). *)
StatusUpdateFails ==
    /\ Command("subj.update.status")
    /\ Fault("db")
    /\ Handled
    /\ crossed' = crossed \cup Recovering({Head(db.ready)})
    /\ UNCHANGED <<environment, records, checker, down, first, inserted,
                   changes>>

(* As in module Dbd: a deletion that finds no record goes round the queue. *)
DeleteSubject ==
    /\ Command("subj.delete")
    /\ LET recs == {rec \in records : rec.id = Head(db.ready).id} IN
       /\ records' = records \ recs
       /\ db' = IF recs = {} THEN Requeue(Take(db)) ELSE Settle(Take(db))
    /\ UNCHANGED <<environment, checker, history, bounds>>

DbdNext ==
    \/ GetAllSubjects
    \/ StatusUpdate \/ StatusUpdateFails
    \/ DeleteSubject
-----------------------------------------------------------------------------
(* What the other daemons do to the collection meanwhile, for which see    *)
(* module Lifecycle: an enrolment adds a record with the targets its       *)
(* caller named, or those of the record it renews, collectd completes it,  *)
(* and a renewal has the record it replaces deleted, before or after.      *)
InsertSubject(s) ==
    /\ inserted < MaxRecords
    /\ inserted' = inserted + 1
    /\ \E targets \in SUBSET Hosts :
          records' = records \cup
              {[id |-> inserted + 1, subject |-> s, serial |-> 0,
                unresolvable |-> Zero, match |-> FALSE,
                targets |-> targets, outdated |-> {}]}
    /\ UNCHANGED <<environment, db, checker, history, changes, faults>>

UpdateSubjCert(rec) ==
    /\ rec.serial = 0
    /\ records' = (records \ {rec}) \cup
           {[rec EXCEPT !.serial = rec.id, !.match = FALSE]}
    /\ UNCHANGED <<environment, db, checker, history, bounds>>

RenewalDeletes(rec) ==
    /\ records' = records \ {rec}
    /\ UNCHANGED <<environment, db, checker, history, bounds>>

(* The DNS, the hosts, the clock. *)
DnsChanges(s) ==
    /\ changes < MaxChanges
    /\ changes' = changes + 1
    /\ \E addrs \in SUBSET Hosts :
          addrs # dns[s] /\ dns' = [dns EXCEPT ![s] = addrs]
    /\ UNCHANGED <<served, records, db, checker, history, inserted, faults>>

(* londo-client on host h, "get" or "get -u": the filter compares the      *)
(* whole array with the one address that asks.                             *)
Correlated(h) == {rec \in records : rec.targets = {h}}
Mismatched(h) == {rec \in records : rec.outdated = {h}}

(* SaveCert, and the host serves what was saved, which is nothing while    *)
(* the record has no certificate.                                          *)
Fetch(h) ==
    /\ \E rec \in Correlated(h) \cup Mismatched(h) :
          served' = [served EXCEPT ![rec.subject][h] = rec.serial]
    /\ UNCHANGED <<dns, records, db, checker, history, bounds>>

OlderEvent(e) ==
    IF e.cmd \in {"check", "subj.update.status"}
    THEN [e EXCEPT !.unresolvable = Older(@)] ELSE e

OlderQueue(q) ==
    [q EXCEPT !.ready = [i \in DOMAIN q.ready |-> OlderEvent(q.ready[i])]]

Tick ==
    /\ records' = {[rec EXCEPT !.unresolvable = Older(@)] : rec \in records}
    /\ db' = OlderQueue(db)
    /\ checks' = OlderQueue(checks)
    /\ running' = {OlderEvent(e) : e \in running}
    /\ results' = {OlderEvent(e) : e \in results}
    /\ down' = [s \in Subjects |-> Older(down[s])]
    /\ first' = [s \in Subjects |-> Older(first[s])]
    /\ UNCHANGED <<environment, crossed, bounds>>
-----------------------------------------------------------------------------
EnvironmentNext ==
    \/ \E s \in Subjects : InsertSubject(s) \/ DnsChanges(s)
    \/ \E rec \in records : UpdateSubjCert(rec) \/ RenewalDeletes(rec)
    \/ \E h \in Hosts : Fetch(h)

CheckerdNext ==
    \/ \E sc \in Scans : PublishGetAllSubjects(sc)
    \/ ConsumeCheck
    \/ \E e \in running : GiveUp(e) \/ Unreachable(e) \/ Resolves(e)
    \/ \E r \in results : PublishStatus(r)
    \/ CheckerdCrash

Next == DbdNext \/ CheckerdNext \/ Tick \/ EnvironmentNext

Spec == Init /\ [][Next]_vars

(* checkerd scans again and again, dbd and the goroutines run, and time    *)
(* goes on.  Nobody has to enrol, renew or fetch anything.                 *)
Healthy == UNCHANGED faults

Checked(sc) ==
    \/ \E e \in running :
          e.scan = sc /\ (GiveUp(e) \/ Unreachable(e) \/ Resolves(e))
    \/ \E r \in results : r.scan = sc /\ PublishStatus(r)

Fairness ==
    /\ WF_vars(DbdNext /\ Healthy)
    /\ WF_vars(ConsumeCheck)
    /\ \A sc \in Scans :
          /\ WF_vars(PublishGetAllSubjects(sc))
          /\ WF_vars(Checked(sc) /\ Healthy)
    /\ WF_vars(Tick)

FairSpec == Spec /\ Fairness
-----------------------------------------------------------------------------
TypeOK ==
    /\ dns \in [Subjects -> SUBSET Hosts]
    /\ served \in [Subjects -> [Hosts -> 0 .. MaxRecords]]
    /\ records \subseteq Record
    /\ db \in QueueOf(ScanEvent \cup StatusEvent \cup DeleteEvent)
    /\ checks \in QueueOf(CheckEvent)
    /\ running \subseteq CheckEvent
    /\ results \subseteq StatusEvent
    /\ down \in [Subjects -> Age]
    /\ first \in [Subjects -> Age]
    /\ crossed \subseteq Subjects

(* A goroutine gives its subject up in this step. *)
GivesUp(e) ==
    /\ e \in running /\ e \notin running'
    /\ Len(db'.ready) > Len(db.ready)

(* londo-checkerd's --old is the "number of HOURS before subject is        *)
(* considered being too old": whatever was late, lost or written to        *)
(* another record of that name, no subject is given up unless a check      *)
(* found it unresolvable more than RevokeHours ago.                        *)
GivenUpOnDate ==
    [][\A e \in running :
          GivesUp(e) => first[e.subject] > 2 * RevokeHours]_vars

(* And no subject that a check has seen resolve in the meantime, unless    *)
(* that result was lost, went to another record of that name, or a second  *)
(* check of the name had read the old date: these are the only ways.       *)
GivenUpIsDown ==
    [][\A e \in running :
          GivesUp(e) => \/ down[e.subject] > 2 * RevokeHours
                        \/ e.subject \in crossed]_vars

(* A name that never resolves again loses its record in the end.  With two *)
(* records of one name it may not: the one without a date keeps renewing   *)
(* the date of the other.                                                  *)
GivenUpEventually ==
    \A s \in Subjects :
        <>[](dns[s] = {} /\ Cardinality(RecordsOf(s)) <= 1)
            => <>[](RecordsOf(s) = {})

(* When the addresses of a name and what they serve stay what they are,    *)
(* its record comes to say so and goes on saying so, whatever results of   *)
(* earlier checks or of another certificate came in between.               *)
Right(rec) ==
    LET addrs == dns[rec.subject]
        up == {h \in addrs : rec.serial # 0
                             /\ served[rec.subject][h] = rec.serial} IN
    /\ rec.targets = up
    /\ rec.outdated = addrs \ up
    /\ rec.match <=> addrs # {} /\ up = addrs
    /\ rec.unresolvable = Zero <=> addrs # {}

Settled ==
    \A s \in Subjects : Cardinality(RecordsOf(s)) = 1
                            => \A rec \in RecordsOf(s) : Right(rec)

Stays == {<<rec.id, rec.serial>> : rec \in records}

StatusConverges ==
    <>[][UNCHANGED <<environment, Stays>>]_vars => <>[]Settled

(* "retrieves all correlated certificates and private keys from the        *)
(* remote": a host that asks gets every subject it is a target of.         *)
RetrievesAll ==
    \A h \in Hosts : \A rec \in records : h \in rec.targets => rec \in Correlated(h)
=============================================================================
