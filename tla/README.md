# Londo in TLA+

Londo keeps TLS certificates: a handful of small daemons order them from a
certificate authority (Sectigo's REST API), store them in MongoDB, renew them,
revoke them and hand them out over gRPC. The daemons talk to each other only
through RabbitMQ. Each of them is short and sequential; what is hard is what
happens between them, and that is what these modules are about.

## 1. Inventory

### Components

| component | state | operations | talks to |
|---|---|---|---|
| **broker** (RabbitMQ; `amqp.go`, `publishers.go`, `Declare*` in `londo.go`) | queues `enroll`, `collect`, `revoke`, `check`, `db-rpc`; one auto-delete reply queue for each client address | `Emit`, `Consume`, `Ack`, `Reject` | everybody |
| **londo-grpcd** (`grpc_server.go`) | one goroutine for each call, one more for its reply queue | `AddNewSubject`, `RenewSubjects`, `DeleteSubject`, `GetSubject`, `GetSubjectForTarget`, `GetSubjectsByTarget`, `GetExpiringSubject`, `GetToken` | enrolld, revoked, dbd by messages; clients by gRPC |
| **londo-enrolld** (`ConsumeEnroll`) | the delivery in hand, a fresh key, the order number | key, CSR, order, publish collect, publish add, ack | authority, collectd, dbd |
| **londo-collectd** (`ConsumeCollect`) | the delivery in hand | fetch the certificate, publish update, ack | authority, dbd |
| **londo-revoked** (`ConsumeRevoke`) | the delivery in hand | revoke the order, ack | authority |
| **londo-checkerd** (`ConsumeCheck`) | one goroutine for each checked host | scan, DNS and TLS check, delete and revoke, status update | dbd, revoked, the hosts |
| **londo-dbd** (`ConsumeDbRPC`, `db.go`) | the collection `subjects` | insert, update, delete, find by name, by target, expiring, all; status update | grpcd by reply queues |
| **authority** | orders, each for one CSR | enroll, collect, revoke | enrolld, collectd, revoked |
| **londo-client** (`cli/`) | a token file, a `.crt` and a `.key` file of each subject | `get`, `get -u`: renew the token, fetch, save | grpcd |
| **londo-admin** (`cli/`) | none | one call for each command; `token` | grpcd |

A subject's life: `AddNewSubject` asks dbd whether the name exists and
publishes an enrol event; enrolld orders a certificate, tells collectd the
order number and dbd the record; collectd polls the authority and sends dbd the
certificate. `RenewSubjects` reads the record and publishes a revoke event, an
enrol event and a delete event, in this order. checkerd deletes and revokes the
record of a host that has not resolved for a long time. The hosts fetch what
names them with londo-client, and have their token renewed each time.

### What is hard, and what must hold

- **Redelivery and retries.** Every daemon acknowledges after its publishes, so
  a crash repeats them, with a new key and a second order in enrolld. A record
  must never pair a certificate with another order's key (`KeyMatchesCert`).
- **Several messages, no transaction.** enrolld, collectd and the calls of grpcd
  publish two or three messages that overtake each other in dbd's queue, and a
  failure may come between any two of them. An accepted subject must not get lost
  (`NoSubjectLost`), an order in use must not be revoked without a successor
  (`RevokedIsReplaced`), one that was replaced must be revoked
  (`ReplacedIsRevoked`), a record must get its certificate (`CollectPending`,
  `CollectInv`, `StoredEventually`).
- **Decisions on old data.** A renewal and a check act on the record they read;
  another renewal may have come first. A deletion must only take the record that
  was read (`NoSubjectLost`), and must take it in the end (`DeletionPending`,
  `ReplacedIsDeleted`).
- **Checks that come late.** checkerd acts on the date and the serial number a
  scan read, in one goroutine for each event; results find their record by name.
  A host must not be given up for less than it promises (`GivenUpOnDate`,
  `GivenUpIsDown`), must be given up in the end (`GivenUpEventually`), and what a
  record says of its hosts must come to be true (`StatusConverges`).
- **Poisonous messages.** A deletion without a record is requeued for ever; it
  must not starve the queue (`StoredEventually`).
- **Dropped messages.** Publishing to a queue nobody declared is no error, and a
  broker restart empties all queues.
- **The rendezvous in grpcd.** A method and its goroutine meet on two unbuffered
  channels and a wait group; methods return early; reply queues are named after
  the address of the client, and as no method watches its connection, a client
  that died may leave its address to the next while its call is still under way
  (`OwnReplies`, `Complete`, `RefusedOnlyByLeak`, `LeavesNothing`, `CallsReturn`).

- **Files without transactions.** londo-client replaces its token file and each
  pair of files in two steps, several runs of it may be under way on one host, a
  run may die anywhere, and a token is its only means to get another
  (`KeepsToken`, `PairMatches`, `FilesConverge`).

PROJECT.json lists these hazards at their lines, those without a property too.

## 2. Modules

| module | models | correspondence |
|---|---|---|
| `Amqp` | one queue with the exclusive consumer of `AMQP.Consume` | `ready`, `current` (in the handler's hands), `stuck` (a handler returned without settling it). `Put` = Publish, `Take` = the range loop, `Settle` = Ack or Reject(false), `Requeue` = Reject(true), `Forget` = return without either, `ChannelLost` = process or connection gone |
| `Londo` | what the daemons share | the four work queues, event types of `events.go`, the authority's orders, the fault budget |
| `Enrolld`, `Collectd`, `Revoked` | one daemon each | one action for each outcome of the handler; the crash and restart of the process |
| `Dbd` | dbd as far as it changes the collection, and `subj.get` | one action for each command and outcome, `DbdAck` apart |
| `Grpcd` | `AddNewSubject`, `RenewSubjects`, `DeleteSubject` | one action for each publish of each method |
| `Checkerd` | the branch of `ConsumeCheck` that deletes | one action for each publish |
| `HostCheck` | the whole of the host check: scan, check queue, goroutines, DNS and dialling, status update | one action for each outcome of a goroutine, of `dbGetAllSubjects` and of `dbStatusUpdate`; the clock; the other daemons' and `londo-client`'s part in it |
| `Lifecycle` | composes the first six daemons and calls | `Next` is the interleaving of their steps and a restart of the broker; fairness; all properties; the inductive invariant |
| `Client` | `londo-client get` and `get -u` on one host, with `GetToken`, `AuthIntercept` and the JWT package | one action for each read or write of a file, and for each answer; `Stops` for a run that dies anywhere; the clock, the host's address, and what the daemons do to its records |
| `Rpc` | what a lookup promises its caller | ask, one read of the database, succeed, deny or fail; `Jumble` takes the promise back from an address two calls were under way from at once, and from no other |
| `Replies` | how grpcd and dbd keep that promise | methods, goroutines, channels, reply queues, dbd's replies; a call may be made from an address whose earlier call still waits; refines `Rpc` |
| `MCReplies` | small instance for TLC | symmetry of the calls |
| `MCLifecycle` | small instances for TLC | symmetry of the calls; two later starts (`Accepted`, `Enrolled`) for the liveness runs |
| `AmqpTheorems`, `LifecycleTypes`, `LifecycleProofs`, `RevocationProofs`, `RecordProofs`, `ClientProofs`, `HostCheckProofs`, `RepliesProofs` | proofs | see section 5 |

Operators marked *Mutant* in a module are deliberate bugs: PROJECT.json names
for each property of a passing run one that must violate it. No action uses
them.

### Grain of the actions

A handler's step up to its first visible effect is one action. Everything
enrolld does before the authority took the order leaves no trace when it is cut
short, so taking the delivery, the key, the CSR, the minute of sleep and the
order are one action for each answer of the authority; every publish after it is
a step, the acknowledgement too, because a crash may come in between. dbd's
acknowledgement is a step apart from the change for the same reason. A call of
grpcd may be interrupted at every publish and at its wait for dbd. In `HostCheck`
a goroutine looks up and dials in one step and publishes in another, so that the
DNS, the hosts and other goroutines may move in between. dbd's scan and its
status update are one step each: the scan is acknowledged before anything is
published, hence whatever part of it gets through is one outcome of that step,
and a crash after an update only repeats that update. In `Client` the answer of
`GetToken` and the removal of the old token file are one step, because nothing
outside the run sees the former; the query of a fetch is one step, and every file
is written in one of its own.

### What is abstracted

- Port, alternative names, targets, CSR text, certificate text: they go where
  the subject goes. A certificate is the number of the order it answers; a key is
  a model value and the authority remembers the key of each order, which is what
  lets `KeyMatchesCert` be stated.
- `NewKey` picks one unused key; which one makes no difference.
- When the authority issues is left open: collectd is told "not yet" any number
  of times.
- In `Lifecycle` the condition under which checkerd gives a host up (DNS, hours)
  is left open: any record may be found expired. `HostCheck` models it and leaves
  open instead when records are inserted, completed and deleted.
- Dates in `HostCheck` are ages in half hours, because `Duration.Round` decides
  at the half hour, up to the first age that is too old; `Zero` is the zero
  `time.Time`. A tick makes every date in the system older at once. A
  certificate is known by its serial number, which is the id of its record.
- A failed dial is an address that does not answer with the certificate; a name
  resolves or does not, which covers an error of the resolver.
- In `Lifecycle` the reply queue of a call is one slot: the details are in
  `Replies`, which in turn leaves open what a query finds.
- In `Client` a token is the address it was issued for and its age in ticks. The
  signature is not modelled: a host has only tokens it was given. Nor is the
  trusted loopback address (`ip == "["`), which no remote host has. A certificate
  and a key are the id of the record they were stored in, and a record is listed for
  the host either in `targets` or in `outdated`, as `HostCheck` leaves it. A
  write that fails half way leaves an empty file. The operator issues a token only
  to a host that is locked out, and while nothing of it runs.
- `Emit` waits for no confirmation, so a message may get lost with a connection
  that dies after a publish without an error. For a daemon that consumes this is
  the crash before that publish: its acknowledgement would have travelled behind
  the message on the same connection. londo-grpcd has nothing to acknowledge, and
  for its publishes the loss is not modelled: it would answer "enrolled" or
  "renewed" for an event nobody gets (a hazard in PROJECT.json, without a property).
- That the client of a call died is no step of its own, because no method looks
  at it but through a failing `Send`: in `Replies`, `Setup` may take an address
  whose call is still under way. An error of `setupRequest` is `SetupFails`.
- `Publish` assigns a package variable from every goroutine (`publishers.go:24`),
  but only ever `nil`: none of the events can fail to marshal.
- A Publish error means the connection is gone. The daemons do not reconnect;
  an operator restarts them, which is the crash action. A delivery that was
  forgotten (`stuck`) comes back with it.
- Messages whose JSON does not parse do not occur: every publisher is in this
  repository. (`UnmarshalSubjMsg` rejects such a message and goes on.)
- The daemons other than grpcd declare their queues when they start; a message
  for a queue not declared yet is modelled for the revoke queue, the one whose
  publisher does not declare it.

History variables record what the properties speak of and influence no step:
`accepted` (subjects a caller was told are enrolled), `excused` (subjects the
code gave up: an unreadable answer, a failed key, a deletion by checkerd with no
successor in sight, a broker restart with the enrolment in flight), `unrouted`
(renewals whose revocation the broker dropped), in `Replies` `found` and `crowded`
(addresses two calls were under way from at once), in `HostCheck` `down` and `first` (how long checks have seen a name unresolvable, and
how long ago one first did) and `crossed` (names whose recovery was lost, went to
another record, or was overtaken by a check that had read the old date); in
`Client` `lost` (a run died between removing the token file and writing it, or
the host got another address) and `torn` (subjects whose pair a run left half
written, or two runs wrote across each other).

## 3. Runs

Times are for two workers.

| run | instance | checks |
|---|---|---|
| `lifecycle_faults` (`MCFaults.cfg`) | one subject, two calls, three orders, one failure of any of twelve kinds | type invariant, `IInv`, `KeyMatchesCert`, `NoSubjectLost`, `RevokedIsReplaced`, `ReplacedIsRevoked`, `RevocationsKept`; 594k states, 30 s |
| `checks` (`MCChecks.cfg`) | the same with one check of checkerd, one failure of nine kinds, `SleepOrders` | `NoSubjectLost`, `RevokedIsReplaced`, `CollectPending`, `DeletionPending`; 3.9M states, 3 min |
| `live` (`MCLive.cfg`) | one subject already enrolled, two renewals, no failure, fairness | `StoredEventually`, `ReplacedIsDeleted`; 85k states, 75 s |
| `live_faults` (`MCLiveFaults.cfg`) | one subject just accepted, one renewal, one failure of six kinds, fairness | `CollectInv`, `StoredEventually`, `ReplacedIsRevokedEventually`; 85k states, 1 min |
| `replies` (`MCReplies.cfg`) | three calls, which may overlap, from one address, three methods, two failures of five kinds | `OwnReplies`, `Complete`, `RefusedOnlyByLeak`, `LeavesNothing`, `ImplementsRpc` (`Rpc`); 924k states up to symmetry, 1 min |
| `replies_live` (`MCRepliesLive.cfg`) | two calls, two addresses, one failure (a crash of dbd among them), fairness | `OwnReplies`, `LeavesNothing`, `CallsReturn`; 418k states, 1 min |
| `host_check` (`MCHostCheck.cfg`) | one host, one address, two scans at a time, two changes of the DNS, one failure of four kinds, fairness | type invariant, `GivenUpOnDate`, `GivenUpIsDown`, `GivenUpEventually`, `StatusConverges`; 451k states, 70 s |
| `host_renewed` (`MCHostRenewed.cfg`) | the same with two records of the name, one scan at a time, one change, no failure | `GivenUpOnDate`, `GivenUpEventually`, `StatusConverges`; 347k states, 1 min |
| `client` (`MCClient.cfg`) | one subject, two jobs (`get`, `get -u`), two addresses, two records or one and the clock, one failure, fairness | type invariant, `KeepsToken`, `PairMatches`, `FilesConverge`; 553k states, 70 s |
| `retrieves_all` (`MCRetrieves.cfg`) | two addresses | **violated**: `RetrievesAll` |
| `delete_call` (`MCDelete.cfg`) | add and delete calls | **violated**: `DeleteIsScheduled` |
| `stop_closes` (`MCStop.cfg`) | one call, fairness | **violated**: `StopCloses` |

### Bounds, and why they are enough

`MaxOrders` bounds the orders the authority takes (it refuses afterwards, which
is a thing it does anyway); three let a subject be enrolled, renewed and ordered
once more by a redelivery or by a second renewal. `MaxFaults` bounds failures in
one behaviour; one failure at any point already separates any two publishes. Two
calls are one enrolment and one renewal, or two enrolments of one name.
`live_faults` starts with an accepted enrolment in the queue and `live` where it
has ended, so that the calls of `live` are two renewals, of the same record or
one after the other: that is when a deletion finds no record and goes round
dbd's queue in front of what must still be stored. The safety properties of
`Lifecycle` are proved without the bounds and for any number of subjects (section
5), so the runs serve to find mistakes cheaply and to show that the interesting
cases happen: every action fires in some run.

In `HostCheck` one hour is the limit (`RevokeHours`); ages up to an hour and a half
lie on both sides of the rounding edge. Two changes of the DNS let a name vanish,
come back and vanish again, which is what a lost or overtaken recovery needs, and
two scans overlap as any number of them do. Two records of one name are a renewal
in progress or a double enrolment. The names share nothing but the queues, and
one address can be up, missing or serve another certificate; sets of addresses are
written as a whole.

In `Client` the run checks two instances, told apart by `timed` from the start:
two records of a subject and no clock, or one record, the clock and a change of
address; together they would be too many for the fairness check. Two records are a
renewal, and two jobs meet as any number of them do (the theorems of section 5 are
for any number). Three ticks of life are the least that one failed run leaves room
for; the job must run every tick.

In `Replies`, two records are enough for a first, a last and an only one; three
calls from one address are a leak, a call it blocks and a third, or two that
overlap and a third that finds what they left. `GetExpiringSubject`, which differs
from the other streams only in that dbd does not settle a request it found nothing
for, is among the methods of `replies_live`. Symmetry is used for the calls of
safety runs only (all calls start from the same set of initial states); never with
liveness.

### Fairness

Every daemon's next step that needs no failure is weakly fair; a call that was
begun goes on. The authority may refuse any number of times, but not for ever:
strong fairness of its positive answer, since the refused delivery is requeued
and asked again. Nobody has to make a call, nothing has to fail. Publish failures
are excluded from `live_faults`: they leave a delivery unacknowledged until the
process is restarted, and nothing in the code restarts it. In `Replies` the
goroutines are scheduled by the Go runtime, hence weak fairness of each; so they
are in `HostCheck`, where checkerd moreover scans again and again
(`PublishPeriodically`), dbd handles what its queue holds, and time goes on.
Enrolling, renewing and fetching are not fair: nobody has to. In `Client` the
host starts each of its jobs again and again, as a crontab does, and a run that
was started goes on; nothing else is fair, neither the operator nor the clock.

`SleepOrders` stands for time: collectd sleeps a minute before it asks, and a
run that sets it (`checks`, `live`, `live_faults`)
assumes that enrolld's second publish and dbd's insertion take less. Without it
`CollectPending` does not hold, because the update of a record that is not there
yet is lost without an error (`db.go:135`), and the theorems about it assume it.

## 4. What the runs show

Findings (runs that violate):

- `DeleteSubject` logs the call and returns; `londo-admin`'s usage text promises
  that the subject is "scheduled to be removed, and its certificate revoked".
- A consumer that got the stop command (`CloseChannelCmd`, "Tell consumer to
  close channel") never closes its channel if the lookup was negative: the method
  returned without receiving from `doneChannel`.
- A host asks for certificates with its own address, and the filter of
  `FindManySubjects` compares that with the whole array of targets: a host that
  shares a subject with another host gets nothing, although `londo-client get`
  "retrieves all correlated certificates".

Worth knowing, although no document says otherwise:

- A renewal that is interrupted after its revoke event leaves a revoked
  certificate in use (`Interrupted` in `RevokedIsReplaced`).
- A second renewal of the same record leaves a deletion that goes round dbd's
  queue for ever; it does no harm but to the load.
- A call whose answer dbd could not publish, or whose query by target failed,
  is never answered, and has no timeout.
- Two additions of one name may both succeed.
- A client that dies while its call waits leaves its address to the next
  connection, and the reply queue with it. The consumer of the new call is then
  refused, its answer is handed to the method of the old one, which goes on with
  it - `RenewSubjects` may so renew a subject nobody asked it to -, and the new
  call waits for ever. A call whose query or whose answer failed in dbd waits until
  a later call from its address meets it in this way. No document
  promises otherwise, hence no finding; `Quiet` in the properties of `Replies`
  marks the calls this does not concern, and `ImplementsRpc` shows that it concerns
  calls from the same address only.
- After a crash of dbd between answer and acknowledgement, a later call from the
  same address may get the earlier call's answer.
- While a name that no longer resolves has two records, they may both stay for
  ever: results go to whichever record is found by name, and those of the undated
  one keep renewing the date of the other (why `GivenUpEventually` speaks of one
  record).
- A host may be given up although a check has seen it resolve since: if that
  result was lost, went to the other record of the name, or an overlapping scan had
  read the old date (`crossed` in `GivenUpIsDown`: these are the only ways).
- A record is handed out before its certificate has been collected, and
  `londo-client` saves it all the same: `get` during a renewal replaces the pair
  in use by the new key and an empty certificate, until a run after the
  collection.
- An order that was inserted twice has two records, of which one gets the
  certificate and one is deleted by the next renewal: the other stays, and is
  handed out next to the new one (`InsertedTwice` in `CollectPending`).
- Runs of londo-client that meet again and again may keep each other from ever
  fetching: one reads the token file while the other has removed it, or may not
  write a file the other has just created with mode 0400 (`OneAtATime` in
  `FilesConverge`).
- A run that dies between the removal of the token file and its writing leaves a
  host that only an operator can let in again (`lost` in `KeepsToken`).
- The command `londo-client update` does not read the token file, so a host that
  is not trusted for its address is always refused; nothing in the collection or
  the files changes, and the command is left out.

## 5. What is proved

For every value of the constants (any number of subjects, keys, calls, checks,
orders, jobs, names, addresses, records found, failures), from the named
assumptions of `Londo`, `Lifecycle`, `Client`, `HostCheck` and `Replies`, and
from the further assumption the table names beside the module:

| theorem | module | states |
|---|---|---|
| `Invariance` | `LifecycleProofs` | `Spec => []IInv` |
| `TypeCorrect` | `LifecycleProofs` | `Spec => []TypeOK` |
| `KeyMatchesCertHolds` | `LifecycleProofs` | `Spec => []KeyMatchesCert` |
| `NoSubjectLostHolds` | `LifecycleProofs` | `Spec => []NoSubjectLost` |
| `RevokedIsReplacedHolds` | `LifecycleProofs` | `Spec => []RevokedIsReplaced` |
| `ReplacedIsRevokedHolds` | `RevocationProofs` | `Spec => []ReplacedIsRevoked` |
| `RevocationsKeptHolds` | `RevocationProofs` | `Spec => []RevocationsKept` |
| `CollectInvariance` | `RecordProofs`, `CollectAssumption` | `Spec => []CollectInv` |
| `CollectPendingHolds` | `RecordProofs`, `CollectAssumption` | `Spec => []CollectPending` |
| `DeletionInvariance` | `RecordProofs`, `BrokerKeeps` | `Spec => []DeletionInv` |
| `DeletionPendingHolds` | `RecordProofs`, `BrokerKeeps` | `Spec => []DeletionPending` |
| `ClientTypeCorrect` | `ClientProofs` | `Spec => []TypeOK` |
| `KeepsTokenHolds` | `ClientProofs` | `Spec => []KeepsToken` |
| `PairMatchesHolds` | `ClientProofs` | `Spec => []PairMatches` |
| `HostCheckTypeCorrect` | `HostCheckProofs` | `Spec => []TypeOK` |
| `GivenUpOnDateHolds` | `HostCheckProofs` | `Spec => GivenUpOnDate` |
| `GivenUpIsDownHolds` | `HostCheckProofs` | `Spec => GivenUpIsDown` |
| `RepliesTypeCorrect` | `RepliesProofs` | `Spec => []TypeOK` |
| `OwnRepliesHolds` | `RepliesProofs`, `NoCrash` | `Spec => []OwnReplies`, for calls that are `Quiet` |
| `CompleteHolds` | `RepliesProofs`, `NoCrash` | `Spec => []Complete`, for calls that are `Quiet` |
| `LeavesNothingHolds` | `RepliesProofs`, `NoCrash` | `Spec => []LeavesNothing`, for calls that are `Quiet` |
| `RefusedOnlyByLeakHolds` | `RepliesProofs` | `Spec => []RefusedOnlyByLeak`, for calls that are `Quiet` |
| `OwnRepliesApart` | `RepliesProofs`, `~Reuse` | `Spec => [](OwnReplies /\ \A c \in Calls : Quiet(c))` |
| `LeavesNothingApart` | `RepliesProofs`, `~Reuse` | `Spec => [](LeavesNothing /\ \A c \in Calls : Quiet(c))` |
| `ImplementsRpcHolds` | `RepliesProofs`, `NoCrash` | `Spec => ImplementsRpc` |

None of these invariants is inductive. `KeyMatchesCert` speaks of records, but a
record is made from an add event, that from what enrolld holds, that from the
order: `IInv` has a conjunct for each of them (`InHandMatches`, `DbEventsMatch`,
`RecordsMatch`) that ties it to the order it came from. `NoSubjectLost` would be
broken by a deletion if nothing were known of deletions: `DeletesSuperseded` says
that whoever asks for one, or has asked, left something newer. The heart of the
proof is `KeptStable`: once a subject has, or is going to have, a record newer
than order `c`, it keeps it. Every daemon passes it on before it lets go of
what it holds (`KeptByEnrolld`, `KeptByDbd`), and a deletion finds only records
that something newer outlives. `RevokesReplaced` carries the same argument to
orders, their revocation events and the checks. `OneInHand` (a daemon holds a
delivery exactly while it is busy) makes the argument about queues work, whose
lemmas are in `AmqpTheorems`. For `ReplacedIsRevoked` the extra invariant is
`RevocationsKept`: the queue of londo-revoked loses a message only when the
order has been revoked.

`RecordProofs` follows one record. `CollectPending` is kept by three facts that
`CollectInv` puts together. An order's collect event is out before its add event,
and nobody has its certificate before dbd has its record (`Uncollected`), so the
update finds it there. collectd lets go of the event only when the update is in
dbd's queue (`CollectedSent`). dbd completes one record of the order; where it
leaves one out there is a second, and a second leaves a trace for good, for it
is in the database, or whoever had it deleted has read it (`DeletesRead`,
`InsertedTwice`). `CollectAssumption` is needed for each of the three:
`SleepOrders` for the first, no failed update (it is rejected for good,
`db_consumer.go`) and no restart of the broker for the others.
`DeletionPending` is kept because a deletion names one record: dbd gives no _id
twice (`RecordsDistinct`) and no other order to a record (`Exact`), so what a
renewal has read names that record for good, and dbd lets go of the event only
once it is gone (`DeletionsDone`). Nothing is assumed but that the broker keeps
its queues (`BrokerKeeps`): a deletion that fails or finds nothing is requeued.

In `Client`, `KeepsToken` rests on `TokenInv`: while the file holds a token, some
job owns it (`Owner`), which is to say that the token is no older than that job's
current run allows - one period for each failure so far, one more while the job
has read the token and not yet used it - and while the file is gone, a run is
about to write a token younger than itself. The assumption `RunsOftenEnough`
(a token lives for `MaxFaults + 2` periods) is used once, to conclude that such a
token is still good, and is the weakest that will do: in the instance of the run,
with one tick less, TLC finds a host locked out. In terms of the code, tokens live
for 48 hours, hence a host whose jobs run every twelve hours survives two failed
runs. `PairMatches` rests on `PairInv`: while
keys of a subject are still to be written, its certificate belongs to every one of
them.

In `HostCheck` a decision is taken on a date that has gone from a record through
a scan, an event and a goroutine, each of which may be old by then. `FirstSeen`
says that no date anywhere (`Dated`, `DatedRecords`) is older than the first check
that found its name unresolvable, which gives `GivenUpOnDate`. `DownSince` says
that a date is also no older than the name has been seen down, unless the name is
`crossed` or, for a record, its recovery is still on its way (`Pending`), and gives
`GivenUpIsDown`. Both are shown first for where dates come from (`EventDates`: a
date is copied from another one or written by a check that finds the name
unresolvable) and then for the clock, which makes all of them older at once.

The properties of `Replies` speak of calls that are `Quiet`: no two calls from
their address have been under way at once so far. One invariant holds whatever
fails, `Steady`: from an address that is not `crowded` calls go one at a time
(`Alone`), each ends with its goroutine (`Joins`), which owns the
queue of its address or finds it declared (`OwnedQueue`), and a message is in no
queue but that of its call's address (`Routed`). `RefusedOnlyByLeak` follows from
it and from the fact that a goroutine left behind stays (`LeakedStays`). If
besides no two calls share an address (`Apart`), a goroutine takes only messages
of its own call, and once it has ended its queue is gone and with it whatever dbd
sends again (`Sole`): hence `OwnRepliesApart` and `LeavesNothingApart`, with dbd
dying.

Where addresses are shared and dbd lives, `Inv` follows an answer to a quiet call
from dbd to its method. That the others, whose goroutines may be in any state,
leave it alone is shown once for all steps: whatever a step does to calls,
goroutines and queues it does at one address (`Footprint`), `crowded` only grows
(`CrowdedGrows`), so that a step at a crowded address keeps the invariant of every
address that is not (`CrowdedInv`, `ElsewhereInv`). As for the other steps, a method keeps in step with its goroutine (`InStep`). What is still under way belongs to a call that waits for it, or
the queue stays with the goroutine of a call that returned too early (`Flight`),
so that nothing of an earlier call can be in front of the answer of the one that
owns the queue: what it got, what its goroutine holds and what is queued are the
records dbd has sent, in order (`OwnInOrder`). The last of them is the only one
marked, hence a method that goes on has all of them (`Finished`), which is
`Complete`, and `Wants` of the last item says what the database said, which is
the refinement of `Rpc`: `Setup` is its `Ask`, `SetupFails` its `Fail`, `Query` its
`Find`, the other steps return or stutter; what is done for calls of a crowded
address is `Jumble` (`JumbleSeen`).

`NoCrash` excludes the death of dbd (`"dbd" \notin Faults`) and nothing else: a
dbd that dies before its acknowledgement queries once more: what it sends then
follows what it had sent already (which breaks `Complete` and the refinement), or
finds a later call from the same address (which breaks `OwnReplies` and
`LeavesNothing` where `Reuse` allows one). That is one of the hazards of the code,
and not one an invariant could repair.

Layout: `AmqpTheorems` (queues) - `LifecycleTypes` (types, one lemma for each
daemon) - `LifecycleProofs` (where messages come from; what is kept; each
conjunct; the theorems) - `RevocationProofs` and `RecordProofs` (collections;
deletions). `HostCheckProofs` (types, dates, recoveries) and `RepliesProofs`
(types; `Steady`; `Inv`, one lemma for each step; its consequences; refusals;
calls apart; the refinement) also use `AmqpTheorems`.
`ClientProofs` stands alone: types, pairs, tokens.

Only model-checked: liveness (`StoredEventually`, `ReplacedIsDeleted`,
`ReplacedIsRevokedEventually`, `CallsReturn`, `GivenUpEventually`,
`StatusConverges`, `FilesConverge`), which under fairness is out of the prover's
reach. Every safety property that a passing run checks has its theorem; TLC
checked `DeletionInv` on the instance of `checks` before it was proved.

## 6. Not modelled, and why

Configuration and logging, PEM and ASN.1 conversions (pure functions of the Go
libraries), generated code and the unused package `londov1`: see `components`
in PROJECT.json. Of londo-admin only the calls it makes are modelled: it keeps
nothing and prints what it is sent. `RenewSubjects` without a subject returns at
once (the source says it is incomplete) after having set up a reply queue.

An abstract registry (a subject is absent, ordered, certified or given up) was
considered and is not stated: what a renewal leaves between the deletion of the
old record and the insertion of the new one, and what a second insertion of one
order leaves for good, make every change but the loss of an accepted subject
possible, and that one is `NoSubjectLost`.

## 7. Plan

1. What holds of an answer when dbd dies in the middle of it: a method that goes on
   has a first part of one reading and all of a later one (`Replies` with `~Reuse`).
2. The part of `StoredEventually` that is safety: while dbd has no record of an
   accepted subject, which message or daemon is next to move.
3. Queries: which records an expiry limit selects; the order of addresses.
