--------------------------- MODULE HostCheckProofs --------------------------
(***************************************************************************)
(* Theorems about HostCheck: type correctness, and that no subject is      *)
(* given up before its time, for any number of subjects, hosts, scans,     *)
(* records and failures and for every --old.                               *)
(***************************************************************************)
EXTENDS HostCheck, AmqpTheorems, FiniteSetTheorems

DbEvent == ScanEvent \cup StatusEvent \cup DeleteEvent

(* Each delivery is settled or requeued in the step that takes it. *)
NothingHeld(q) == q.current = <<>> /\ q.stuck = <<>>

Typed ==
    /\ TypeOK
    /\ NothingHeld(db) /\ NothingHeld(checks)
    /\ IsFiniteSet(records)
    /\ inserted \in 0 .. MaxRecords
-----------------------------------------------------------------------------
(* Ages: no date stays none, ageing keeps their order, and one that has    *)
(* expired after rounding is more than RevokeHours old.                    *)
LEMMA AgeLemma ==
    /\ Zero \in Age /\ 0 \in Age /\ 0 # Zero
    /\ \A a \in Age :
          /\ a \in Int
          /\ a # Zero => a >= 0
          /\ Older(a) \in Age
          /\ Older(a) = Zero <=> a = Zero
          /\ Since(a) \in Age /\ Since(a) # Zero
    /\ \A a, b \in Age : a # Zero /\ b >= a => Older(b) >= Older(a)
BY HostCheckAssumption DEF Age, Zero, TooOld, Older, Since

LEMMA ExpiredLemma ==
    ASSUME NEW a \in Age, Expired(a)
    PROVE  a # Zero /\ a > 2 * RevokeHours
<1>1. a \in Int /\ RevokeHours \in Nat /\ a # Zero
  BY AgeLemma, HostCheckAssumption DEF Expired
<1>2. (a + 1) \div 2 >= RevokeHours + 1
  BY <1>1 DEF Expired
<1>3. 2 * ((a + 1) \div 2) <= a + 1
  BY <1>1
<1> QED BY <1>1, <1>2, <1>3

(* An event is of the kind its command says. *)
LEMMA CommandLemma ==
    /\ \A e \in DbEvent :
          /\ e.cmd = "subj.update.status" => e \in StatusEvent
          /\ e.cmd = "subj.get.all" => e \in ScanEvent
          /\ e.cmd = "subj.delete" => e \in DeleteEvent
          /\ e.cmd # "check"
    /\ \A e \in CheckEvent : e.cmd = "check"
    /\ \A e \in StatusEvent : e.cmd = "subj.update.status"
    /\ \A e \in ScanEvent : e.cmd = "subj.get.all"
    /\ \A e \in DeleteEvent : e.cmd = "subj.delete"
BY DEF DbEvent, ScanEvent, StatusEvent, DeleteEvent, CheckEvent

LEMMA QueueTypes ==
    ASSUME Typed
    PROVE  /\ db \in QueueOf(DbEvent) /\ checks \in QueueOf(CheckEvent)
           /\ db.current = <<>> /\ checks.current = <<>>
           /\ db.stuck = <<>> /\ checks.stuck = <<>>
           /\ Messages(db) = Range(db.ready)
           /\ Messages(checks) = Range(checks.ready)
           /\ Messages(db) \subseteq DbEvent
           /\ Messages(checks) \subseteq CheckEvent
<1>1. /\ db \in QueueOf(DbEvent) /\ checks \in QueueOf(CheckEvent)
      /\ NothingHeld(db) /\ NothingHeld(checks)
  BY DEF Typed, TypeOK, DbEvent
<1>2. /\ Messages(db) \subseteq DbEvent
      /\ Messages(checks) \subseteq CheckEvent
  BY <1>1, MessagesType
<1> QED BY <1>1, <1>2, EmptyRange DEF NothingHeld, Messages, Waiting

(* A queue after a publish, ... *)
LEMMA PublishLemma ==
    ASSUME NEW M, NEW q \in QueueOf(M), NothingHeld(q), NEW m \in M
    PROVE  /\ Put(q, m) \in QueueOf(M) /\ NothingHeld(Put(q, m))
           /\ Messages(Put(q, m)) = Messages(q) \cup {m}
<1>1. Put(q, m).stuck = q.stuck
  BY DEF Put
<1> QED BY <1>1, PutLemma DEF NothingHeld

(* ... after a delivery that was settled, ... *)
LEMMA HandledLemma ==
    ASSUME NEW M, NEW q \in QueueOf(M), NothingHeld(q), q.ready # <<>>
    PROVE  /\ Settle(Take(q)) \in QueueOf(M) /\ NothingHeld(Settle(Take(q)))
           /\ Head(q.ready) \in M /\ Head(q.ready) \in Messages(q)
           /\ Messages(q) = Messages(Settle(Take(q))) \cup {Head(q.ready)}
<1>1. /\ q.current = <<>> /\ q.stuck = <<>>
      /\ Settle(Take(q)).stuck = <<>> /\ Settle(Take(q)).current = <<>>
  BY DEF NothingHeld, Settle, Take
<1>2. /\ Messages(q) = Waiting(q)
      /\ Messages(Settle(Take(q))) = Waiting(Settle(Take(q)))
  BY <1>1, EmptyRange DEF Messages
<1> QED BY <1>1, <1>2, TakeSettleLemma, TakeLemma DEF NothingHeld

(* ... after one that went back, ... *)
LEMMA RequeuedLemma ==
    ASSUME NEW M, NEW q \in QueueOf(M), NothingHeld(q), q.ready # <<>>
    PROVE  /\ Requeue(Take(q)) \in QueueOf(M) /\ NothingHeld(Requeue(Take(q)))
           /\ Messages(Requeue(Take(q))) = Messages(q)
<1>1. q.current = <<>> /\ Requeue(Take(q)).stuck = <<>>
  BY DEF NothingHeld, Requeue, Take
<1> QED BY <1>1, TakeReturnLemma DEF NothingHeld

(* ... and after time has passed. *)
LEMMA OlderQueueLemma ==
    ASSUME NEW M, NEW q \in QueueOf(M), NothingHeld(q),
           \A m \in M : OlderEvent(m) \in M
    PROVE  /\ OlderQueue(q) \in QueueOf(M) /\ NothingHeld(OlderQueue(q))
           /\ Messages(OlderQueue(q)) = {OlderEvent(m) : m \in Messages(q)}
<1> DEFINE old == [i \in DOMAIN q.ready |-> OlderEvent(q.ready[i])]
<1>1. /\ q = [ready |-> q.ready, current |-> <<>>, stuck |-> <<>>]
      /\ q.ready \in Seq(M)
  BY DEF QueueOf, NothingHeld
<1>2. /\ Len(q.ready) \in Nat /\ DOMAIN q.ready = 1 .. Len(q.ready)
      /\ \A i \in 1 .. Len(q.ready) : q.ready[i] \in M
  BY <1>1
<1>3. old \in Seq(M)
  BY <1>2
<1>4. OlderQueue(q) = [ready |-> old, current |-> <<>>, stuck |-> <<>>]
  BY <1>1 DEF OlderQueue
<1>5. Range(old) = {OlderEvent(m) : m \in Range(q.ready)}
  BY DEF Range
<1>6. /\ Messages(q) = Range(q.ready)
      /\ Messages(OlderQueue(q)) = Range(old)
  BY <1>1, <1>4, EmptyRange DEF Messages, Waiting
<1>7. OlderQueue(q) \in QueueOf(M) /\ NothingHeld(OlderQueue(q))
  BY <1>3, <1>4, EmptySeq DEF QueueOf, NothingHeld
<1> QED BY <1>5, <1>6, <1>7

(* The image of a finite set is finite. *)
LEMMA FiniteImage ==
    ASSUME NEW S, IsFiniteSet(S), NEW T, NEW f \in [S -> T]
    PROVE  IsFiniteSet({f[x] : x \in S})
<1>1. f \in Surjection(S, {f[x] : x \in S})
  <2>1. f \in [S -> {f[x] : x \in S}]
    OBVIOUS
  <2> QED BY <2>1 DEF Surjection
<1> QED BY <1>1, FS_Surjection

(* A finite set of messages, in some order. *)
LEMMA ToSeqLemma ==
    ASSUME NEW M, NEW S, IsFiniteSet(S), S \subseteq M
    PROVE  SetToSeq(S) \in Seq(M) /\ Range(SetToSeq(S)) \subseteq S
<1> DEFINE n == Cardinality(S)
<1>1. n \in Nat /\ ExistsBijection(1 .. n, S)
  BY FS_CardinalityType
<1>2. \E f \in [1 .. n -> S] : IsInjective(f)
  BY <1>1 DEF ExistsBijection, Bijection, Injection, IsInjective
<1>3. SetToSeq(S) \in [1 .. n -> S]
  BY <1>2 DEF SetToSeq
<1> HIDE DEF n
<1> QED BY <1>1, <1>3 DEF Range
-----------------------------------------------------------------------------
LEMMA InitTyped == Init => Typed
<1> SUFFICES ASSUME Init PROVE Typed
  OBVIOUS
<1>1. /\ dns \in [Subjects -> SUBSET Hosts]
      /\ served \in [Subjects -> [Hosts -> 0 .. MaxRecords]]
      /\ inserted \in 0 .. MaxRecords
  BY HostCheckAssumption DEF Init
<1>2. /\ db \in QueueOf(DbEvent) /\ checks \in QueueOf(CheckEvent)
      /\ NothingHeld(db) /\ NothingHeld(checks)
  BY EmptyQueueLemma DEF Init, NothingHeld, EmptyQueue
<1>3. down \in [Subjects -> Age] /\ first \in [Subjects -> Age]
  BY AgeLemma DEF Init
<1>4. records = {} /\ running = {} /\ results = {} /\ crossed = {}
  BY DEF Init
<1> QED BY <1>1, <1>2, <1>3, <1>4, FS_EmptySet DEF Typed, TypeOK, DbEvent

(* dbd.  What it puts on the check queue comes from its records. *)
LEMMA CheckOfLemma ==
    ASSUME Typed, NEW rec \in records, NEW sc \in Scans
    PROVE  /\ CheckOf(rec, sc) \in CheckEvent
           /\ CheckOf(rec, sc).cmd = "check"
           /\ CheckOf(rec, sc).subject = rec.subject
           /\ CheckOf(rec, sc).unresolvable = rec.unresolvable
BY HostCheckAssumption DEF Typed, TypeOK, CheckOf, CheckEvent, Record

LEMMA ScanRead ==
    ASSUME Typed, GetAllSubjects
    PROVE  /\ Command("subj.get.all") /\ Handled
           /\ checks' \in QueueOf(CheckEvent) /\ NothingHeld(checks')
           /\ \A e \in Messages(checks') \ Messages(checks) :
                 \E rec \in records :
                    /\ e.subject = rec.subject
                    /\ e.unresolvable = rec.unresolvable
<1>1. Command("subj.get.all") /\ Handled
  BY DEF GetAllSubjects
<1> DEFINE sc == Head(db.ready).scan
           Events(S) == {CheckOf(rec, sc) : rec \in S}
<1>2. sc \in Scans
  <2>1. Head(db.ready) \in DbEvent /\ Head(db.ready).cmd = "subj.get.all"
    BY <1>1, QueueTypes, HandledLemma DEF Typed, Command
  <2>2. Head(db.ready) \in ScanEvent
    BY <2>1, CommandLemma
  <2> QED BY <2>2 DEF ScanEvent
<1>3. PICK told \in SUBSET records :
         checks' = [checks EXCEPT !.ready = @ \o SetToSeq(Events(told))]
  BY DEF GetAllSubjects
<1>4. Events(told) \subseteq CheckEvent
  BY <1>2, CheckOfLemma
<1>5. IsFiniteSet(Events(told))
  <2> DEFINE f == [rec \in told |-> CheckOf(rec, sc)]
  <2>1. IsFiniteSet(told)
    BY FS_Subset DEF Typed
  <2>2. f \in [told -> CheckEvent]
    BY <1>2, CheckOfLemma
  <2>3. Events(told) = {f[rec] : rec \in told}
    OBVIOUS
  <2> HIDE DEF f
  <2>4. IsFiniteSet({f[rec] : rec \in told})
    BY <2>1, <2>2, FiniteImage
  <2> HIDE DEF Events
  <2> QED BY <2>3, <2>4
<1> DEFINE new == SetToSeq(Events(told))
<1>6. new \in Seq(CheckEvent) /\ Range(new) \subseteq Events(told)
  BY <1>4, <1>5, ToSeqLemma
<1> HIDE DEF new
<1>7. checks.ready \in Seq(CheckEvent)
  BY QueueTypes, QueueParts
<1>8. /\ checks.ready \o new \in Seq(CheckEvent)
      /\ Range(checks.ready \o new) = Range(checks.ready) \cup Range(new)
  BY <1>6, <1>7, RangeConcatenation, ConcatProperties
<1>9. checks' = [ready |-> checks.ready \o new, current |-> <<>>, stuck |-> <<>>]
  BY <1>3, QueueTypes DEF QueueOf, new
<1>10. checks' \in QueueOf(CheckEvent) /\ NothingHeld(checks')
  BY <1>8, <1>9, EmptySeq DEF QueueOf, NothingHeld
<1>11. Messages(checks') = Messages(checks) \cup Range(new)
  <2>1. Messages(checks') = Range(checks.ready \o new)
    BY <1>9, EmptyRange DEF Messages, Waiting
  <2> QED BY <1>8, <2>1, QueueTypes
<1>12. ASSUME NEW e \in Messages(checks') \ Messages(checks)
       PROVE  \E rec \in records : /\ e.subject = rec.subject
                                   /\ e.unresolvable = rec.unresolvable
  <2>1. PICK rec \in told : e = CheckOf(rec, sc)
    BY <1>6, <1>11, <1>12
  <2> QED BY <1>2, <2>1, CheckOfLemma
<1> QED BY <1>1, <1>10, <1>12

(* The queue of dbd after it has handled the command at its head. *)
LEMMA CommandHandled ==
    ASSUME Typed, NEW cmd, Command(cmd), Handled
    PROVE  /\ db' \in QueueOf(DbEvent) /\ NothingHeld(db')
           /\ Head(db.ready) \in DbEvent /\ Head(db.ready) \in Messages(db)
           /\ Head(db.ready).cmd = cmd
           /\ Messages(db) = Messages(db') \cup {Head(db.ready)}
<1>1. db \in QueueOf(DbEvent) /\ NothingHeld(db)
  BY QueueTypes DEF Typed
<1> QED BY <1>1, HandledLemma DEF Command, Handled

LEMMA UpdateLemma ==
    ASSUME NEW rec \in Record, NEW e \in StatusEvent
    PROVE  /\ Write(rec, e) \in Record
           /\ Write(rec, e).subject = rec.subject
           /\ Write(rec, e).unresolvable = e.unresolvable
BY DEF Write, Update, Record, StatusEvent

LEMMA DbdTyped ==
    ASSUME Typed, DbdNext
    PROVE  Typed'
<1> USE DEF environment, checker, history, bounds
<1>1. CASE GetAllSubjects
  <2>1. /\ db' \in QueueOf(DbEvent) /\ NothingHeld(db')
        /\ checks' \in QueueOf(CheckEvent) /\ NothingHeld(checks')
    BY <1>1, ScanRead, CommandHandled
  <2>2. Recovering(results \cup Messages(db)) \subseteq Subjects
    <3>1. results \subseteq StatusEvent /\ Messages(db) \subseteq DbEvent
      BY QueueTypes DEF Typed, TypeOK
    <3> QED BY <3>1, CommandLemma DEF Recovering, StatusEvent
  <2> QED BY <1>1, <2>1, <2>2 DEF Typed, TypeOK, DbEvent, GetAllSubjects
<1>2. CASE StatusUpdate
  <2> DEFINE e == Head(db.ready)
  <2>1. /\ db' \in QueueOf(DbEvent) /\ NothingHeld(db')
        /\ e \in StatusEvent
    BY <1>2, CommandHandled, CommandLemma DEF StatusUpdate
  <2>2. records' \subseteq Record /\ IsFiniteSet(records')
    <3>1. CASE UNCHANGED records
      BY <3>1 DEF Typed, TypeOK
    <3>2. ASSUME NEW rec \in RecordsOf(e.subject),
                 records' = (records \ {rec}) \cup {Write(rec, e)}
          PROVE  records' \subseteq Record /\ IsFiniteSet(records')
      <4>1. rec \in Record /\ records \subseteq Record /\ IsFiniteSet(records)
        BY <3>2 DEF RecordsOf, Typed, TypeOK
      <4> QED BY <2>1, <3>2, <4>1, UpdateLemma, FS_RemoveElement, FS_AddElement
    <3> QED BY <1>2, <3>1, <3>2 DEF StatusUpdate
  <2>3. Recovering({e}) \subseteq Subjects
    BY <2>1 DEF Recovering, StatusEvent
  <2>4. crossed' \subseteq Subjects
    BY <1>2, <2>3 DEF StatusUpdate, Typed, TypeOK
  <2> QED BY <1>2, <2>1, <2>2, <2>4 DEF Typed, TypeOK, DbEvent, StatusUpdate
<1>3. CASE StatusUpdateFails
  <2>1. /\ db' \in QueueOf(DbEvent) /\ NothingHeld(db')
        /\ Head(db.ready) \in StatusEvent
    BY <1>3, CommandHandled, CommandLemma DEF StatusUpdateFails
  <2>2. Recovering({Head(db.ready)}) \subseteq Subjects
    BY <2>1 DEF Recovering, StatusEvent
  <2> QED BY <1>3, <2>1, <2>2 DEF Typed, TypeOK, DbEvent, StatusUpdateFails
<1>4. CASE DeleteSubject
  <2>1. db \in QueueOf(DbEvent) /\ NothingHeld(db) /\ db.ready # <<>>
    BY <1>4, QueueTypes DEF Typed, DeleteSubject, Command
  <2>2. db' \in QueueOf(DbEvent) /\ NothingHeld(db')
    BY <1>4, <2>1, HandledLemma, RequeuedLemma DEF DeleteSubject
  <2>3. records' \subseteq records
    BY <1>4 DEF DeleteSubject
  <2>4. IsFiniteSet(records')
    BY <2>3, FS_Subset DEF Typed
  <2> QED BY <1>4, <2>2, <2>3, <2>4 DEF Typed, TypeOK, DbEvent, DeleteSubject
<1> QED BY <1>1, <1>2, <1>3, <1>4 DEF DbdNext

(* checkerd. *)
LEMMA ConsumeCheckEffect ==
    ASSUME Typed, ConsumeCheck
    PROVE  /\ checks' \in QueueOf(CheckEvent) /\ NothingHeld(checks')
           /\ running' = running \cup {Head(checks.ready)}
           /\ Head(checks.ready) \in CheckEvent
           /\ Messages(checks) = Messages(checks') \cup {Head(checks.ready)}
<1>1. checks \in QueueOf(CheckEvent) /\ NothingHeld(checks) /\ checks.ready # <<>>
  BY QueueTypes DEF Typed, ConsumeCheck
<1> QED BY <1>1, HandledLemma DEF ConsumeCheck

LEMMA SinceUpLemma ==
    ASSUME Typed, NEW e \in CheckEvent,
           NEW targets \in SUBSET dns[e.subject]
    PROVE  /\ SeenUp(e, targets) \in StatusEvent
           /\ SeenUp(e, targets).subject = e.subject
           /\ SeenUp(e, targets).unresolvable = Zero
<1>1. dns[e.subject] \subseteq Hosts
  BY DEF Typed, TypeOK, CheckEvent
<1> QED BY <1>1, AgeLemma DEF SeenUp, StatusEvent, CheckEvent

(* What a name that does not resolve is reported with. *)
LEMMA UnreachableEffect ==
    ASSUME Typed, NEW e \in running, Unreachable(e)
    PROVE  \E r \in StatusEvent :
              /\ results' = results \cup {r}
              /\ r.subject = e.subject
              /\ r.unresolvable = Since(e.unresolvable)
<1> DEFINE r == [cmd |-> "subj.update.status", scan |-> e.scan,
                 subject |-> e.subject, unresolvable |-> Since(e.unresolvable),
                 match |-> FALSE, targets |-> {}, outdated |-> {}]
<1>1. e \in CheckEvent
  BY DEF Typed, TypeOK
<1>2. r \in StatusEvent
  BY <1>1, AgeLemma DEF StatusEvent, CheckEvent
<1> QED BY <1>2 DEF Unreachable

LEMMA ResolvesEffect ==
    ASSUME Typed, NEW e \in running, Resolves(e)
    PROVE  \E r \in StatusEvent :
              /\ results' = results \cup {r}
              /\ r.subject = e.subject
              /\ r.unresolvable = Zero
<1>1. e \in CheckEvent
  BY DEF Typed, TypeOK
<1>2. PICK targets \in SUBSET dns[e.subject] :
         results' = results \cup {SeenUp(e, targets)}
  BY DEF Resolves
<1> QED BY <1>1, <1>2, SinceUpLemma

LEMMA GiveUpEffect ==
    ASSUME Typed, NEW e \in running, GiveUp(e)
    PROVE  \E m \in DeleteEvent :
              /\ db' = Put(db, m)
              /\ db' \in QueueOf(DbEvent) /\ NothingHeld(db')
              /\ Messages(db') = Messages(db) \cup {m}
<1> DEFINE m == [cmd |-> "subj.delete", id |-> e.id]
<1>1. m \in DeleteEvent
  BY DEF Typed, TypeOK, CheckEvent, DeleteEvent
<1>2. db' = Put(db, m)
  BY DEF GiveUp
<1>3. db \in QueueOf(DbEvent) /\ NothingHeld(db) /\ m \in DbEvent
  BY <1>1, QueueTypes DEF Typed, DbEvent
<1> HIDE DEF m
<1> QED BY <1>1, <1>2, <1>3, PublishLemma

LEMMA CheckerdTyped ==
    ASSUME Typed, CheckerdNext
    PROVE  Typed'
<1> USE DEF environment, checker, history, bounds
<1>1. ASSUME NEW sc \in Scans, PublishGetAllSubjects(sc) PROVE Typed'
  <2> DEFINE m == [cmd |-> "subj.get.all", scan |-> sc]
  <2>1. m \in DbEvent /\ db \in QueueOf(DbEvent) /\ NothingHeld(db)
    BY QueueTypes DEF DbEvent, ScanEvent, Typed
  <2>2. db' = Put(db, m)
    BY <1>1 DEF PublishGetAllSubjects
  <2> HIDE DEF m
  <2>3. db' \in QueueOf(DbEvent) /\ NothingHeld(db')
    BY <2>1, <2>2, PublishLemma
  <2> QED BY <1>1, <2>3 DEF PublishGetAllSubjects, Typed, TypeOK, DbEvent
<1>2. CASE ConsumeCheck
  BY <1>2, ConsumeCheckEffect DEF ConsumeCheck, Typed, TypeOK
<1>3. ASSUME NEW e \in running, LookupFails(e)
      PROVE  /\ running' \subseteq CheckEvent
             /\ down' \in [Subjects -> Age] /\ first' \in [Subjects -> Age]
  BY <1>3, AgeLemma DEF LookupFails, Typed, TypeOK
<1>4. ASSUME NEW e \in running, GiveUp(e) PROVE Typed'
  <2>1. db' \in QueueOf(DbEvent) /\ NothingHeld(db')
    BY <1>4, GiveUpEffect
  <2> QED BY <1>3, <1>4, <2>1 DEF GiveUp, LookupFails, Typed, TypeOK, DbEvent
<1>5. ASSUME NEW e \in running, Unreachable(e) PROVE Typed'
  <2>1. results' \subseteq StatusEvent
    BY <1>5, UnreachableEffect DEF Typed, TypeOK
  <2> QED BY <1>3, <1>5, <2>1 DEF Unreachable, LookupFails, Typed, TypeOK
<1>6. ASSUME NEW e \in running, Resolves(e) PROVE Typed'
  <2>1. results' \subseteq StatusEvent
    BY <1>6, ResolvesEffect DEF Typed, TypeOK
  <2>2. running' \subseteq CheckEvent /\ down' \in [Subjects -> Age]
    BY <1>6, AgeLemma DEF Resolves, Typed, TypeOK
  <2>3. crossed' \subseteq Subjects
    BY <1>6 DEF Resolves, Typed, TypeOK, CheckEvent
  <2> QED BY <1>6, <2>1, <2>2, <2>3 DEF Resolves, Typed, TypeOK
<1>7. ASSUME NEW r \in results, PublishStatus(r) PROVE Typed'
  <2>1. r \in DbEvent /\ db \in QueueOf(DbEvent) /\ NothingHeld(db)
    BY QueueTypes DEF DbEvent, Typed, TypeOK
  <2>2. db' \in QueueOf(DbEvent) /\ NothingHeld(db')
    BY <1>7, <2>1, PublishLemma DEF PublishStatus
  <2> QED BY <1>7, <2>2 DEF PublishStatus, Typed, TypeOK, DbEvent
<1>8. CASE CheckerdCrash
  <2>1. Recovering(results) \subseteq Subjects
    BY DEF Recovering, Typed, TypeOK, StatusEvent
  <2> QED BY <1>8, <2>1 DEF CheckerdCrash, Typed, TypeOK
<1> QED BY <1>1, <1>2, <1>4, <1>5, <1>6, <1>7, <1>8 DEF CheckerdNext

(* The environment and the clock. *)
LEMMA EnvironmentTyped ==
    ASSUME Typed, EnvironmentNext
    PROVE  Typed'
<1> USE DEF environment, checker, history, bounds
<1>1. ASSUME NEW s \in Subjects, InsertSubject(s) PROVE Typed'
  <2>1. PICK targets \in SUBSET Hosts :
           records' = records \cup
              {[id |-> inserted + 1, subject |-> s, serial |-> 0,
                unresolvable |-> Zero, match |-> FALSE,
                targets |-> targets, outdated |-> {}]}
    BY <1>1 DEF InsertSubject
  <2>2. inserted' \in 0 .. MaxRecords /\ inserted + 1 \in 1 .. MaxRecords
        /\ 0 \in 0 .. MaxRecords
    BY <1>1, HostCheckAssumption DEF InsertSubject, Typed
  <2>3. [id |-> inserted + 1, subject |-> s, serial |-> 0,
         unresolvable |-> Zero, match |-> FALSE,
         targets |-> targets, outdated |-> {}] \in Record
    BY <2>2, AgeLemma DEF Record
  <2>4. records' \subseteq Record /\ IsFiniteSet(records')
    BY <2>1, <2>3, FS_AddElement DEF Typed, TypeOK
  <2> QED BY <1>1, <2>2, <2>4 DEF InsertSubject, Typed, TypeOK
<1>2. ASSUME NEW s \in Subjects, DnsChanges(s) PROVE Typed'
  BY <1>2 DEF DnsChanges, Typed, TypeOK
<1>3. ASSUME NEW rec \in records, UpdateSubjCert(rec) PROVE Typed'
  <2> DEFINE new == [rec EXCEPT !.serial = rec.id, !.match = FALSE]
  <2>1. rec \in Record /\ records \subseteq Record /\ IsFiniteSet(records)
    BY DEF Typed, TypeOK
  <2>2. new \in Record
    <3>1. rec.id \in 0 .. MaxRecords
      BY <2>1, HostCheckAssumption DEF Record
    <3>2. [rec EXCEPT !.serial = rec.id] \in Record
      BY <2>1, <3>1 DEF Record
    <3>3. new = [[rec EXCEPT !.serial = rec.id] EXCEPT !.match = FALSE]
      BY <2>1 DEF Record
    <3> QED BY <3>2, <3>3 DEF Record
  <2>3. records' = (records \ {rec}) \cup {new}
    BY <1>3 DEF UpdateSubjCert
  <2> HIDE DEF new
  <2>4. records' \subseteq Record /\ IsFiniteSet(records')
    BY <2>1, <2>2, <2>3, FS_RemoveElement, FS_AddElement
  <2> QED BY <1>3, <2>4 DEF UpdateSubjCert, Typed, TypeOK
<1>4. ASSUME NEW rec \in records, RenewalDeletes(rec) PROVE Typed'
  BY <1>4, FS_RemoveElement DEF RenewalDeletes, Typed, TypeOK
<1>5. ASSUME NEW h \in Hosts, Fetch(h) PROVE Typed'
  <2>1. PICK rec \in records :
           served' = [served EXCEPT ![rec.subject][h] = rec.serial]
    BY <1>5 DEF Fetch, Correlated, Mismatched
  <2>2. rec.serial \in 0 .. MaxRecords
    BY DEF Typed, TypeOK, Record
  <2>3. served' \in [Subjects -> [Hosts -> 0 .. MaxRecords]]
    BY <2>1, <2>2 DEF Typed, TypeOK
  <2> QED BY <1>5, <2>3 DEF Fetch, Typed, TypeOK
<1> QED BY <1>1, <1>2, <1>3, <1>4, <1>5 DEF EnvironmentNext

(* Ageing changes nothing of an event or a record but its date. *)
LEMMA OlderEventLemma ==
    /\ \A e \in CheckEvent \cup StatusEvent :
          /\ OlderEvent(e).cmd = e.cmd /\ OlderEvent(e).subject = e.subject
          /\ OlderEvent(e).unresolvable = Older(e.unresolvable)
    /\ \A e \in CheckEvent : OlderEvent(e) \in CheckEvent
    /\ \A e \in StatusEvent : OlderEvent(e) \in StatusEvent
    /\ \A e \in ScanEvent \cup DeleteEvent : OlderEvent(e) = e
    /\ \A e \in DbEvent : OlderEvent(e) \in DbEvent
<1>1. \A e \in CheckEvent :
         /\ OlderEvent(e).cmd = e.cmd /\ OlderEvent(e).subject = e.subject
         /\ OlderEvent(e).unresolvable = Older(e.unresolvable)
         /\ OlderEvent(e) \in CheckEvent
  BY AgeLemma DEF OlderEvent, CheckEvent
<1>2. \A e \in StatusEvent :
         /\ OlderEvent(e).cmd = e.cmd /\ OlderEvent(e).subject = e.subject
         /\ OlderEvent(e).unresolvable = Older(e.unresolvable)
         /\ OlderEvent(e) \in StatusEvent
  BY AgeLemma DEF OlderEvent, StatusEvent
<1>3. \A e \in ScanEvent \cup DeleteEvent : OlderEvent(e) = e
  BY CommandLemma DEF OlderEvent
<1> QED BY <1>1, <1>2, <1>3 DEF DbEvent

OlderRecord(rec) == [rec EXCEPT !.unresolvable = Older(@)]

LEMMA OlderRecordLemma ==
    ASSUME NEW rec \in Record
    PROVE  /\ OlderRecord(rec) \in Record
           /\ OlderRecord(rec).subject = rec.subject
           /\ OlderRecord(rec).unresolvable = Older(rec.unresolvable)
BY AgeLemma DEF OlderRecord, Record

LEMMA TickEffect ==
    ASSUME Typed, Tick
    PROVE  /\ db' \in QueueOf(DbEvent) /\ NothingHeld(db')
           /\ checks' \in QueueOf(CheckEvent) /\ NothingHeld(checks')
           /\ Messages(db') = {OlderEvent(e) : e \in Messages(db)}
           /\ Messages(checks') = {OlderEvent(e) : e \in Messages(checks)}
           /\ records' = {OlderRecord(rec) : rec \in records}
<1>1. /\ db \in QueueOf(DbEvent) /\ NothingHeld(db)
      /\ checks \in QueueOf(CheckEvent) /\ NothingHeld(checks)
  BY QueueTypes DEF Typed
<1>2. db' = OlderQueue(db) /\ checks' = OlderQueue(checks)
  BY DEF Tick
<1>3. records' = {OlderRecord(rec) : rec \in records}
  BY DEF Tick, OlderRecord
<1> QED BY <1>1, <1>2, <1>3, OlderQueueLemma, OlderEventLemma

LEMMA TickTyped ==
    ASSUME Typed, Tick
    PROVE  Typed'
<1> USE DEF environment, checker, history, bounds
<1>1. records' \subseteq Record
  BY TickEffect, OlderRecordLemma DEF Typed, TypeOK
<1>2. IsFiniteSet(records')
  <2> DEFINE f == [rec \in records |-> OlderRecord(rec)]
  <2>1. f \in [records -> Record]
    BY OlderRecordLemma DEF Typed, TypeOK
  <2>2. records' = {f[rec] : rec \in records}
    BY TickEffect
  <2> HIDE DEF f
  <2>3. IsFiniteSet({f[rec] : rec \in records})
    BY <2>1, FiniteImage DEF Typed
  <2> QED BY <2>2, <2>3
<1>3. running' \subseteq CheckEvent /\ results' \subseteq StatusEvent
  BY OlderEventLemma DEF Tick, Typed, TypeOK
<1>4. down' \in [Subjects -> Age] /\ first' \in [Subjects -> Age]
  BY AgeLemma DEF Tick, Typed, TypeOK
<1> QED BY <1>1, <1>2, <1>3, <1>4, TickEffect DEF Tick, Typed, TypeOK, DbEvent

THEOREM AlwaysTyped == Spec => []Typed
<1>1. Typed /\ [Next]_vars => Typed'
  <2>1. ASSUME Typed, UNCHANGED vars PROVE Typed'
    BY <2>1 DEF vars, environment, checker, history, bounds, Typed, TypeOK
  <2> QED BY <2>1, DbdTyped, CheckerdTyped, TickTyped, EnvironmentTyped DEF Next
<1> QED BY <1>1, InitTyped, PTL DEF Spec

(* Every record, every event on its way and every history of the host      *)
(* check stays well formed, for all subjects, hosts and overlapping scans. *)
THEOREM HostCheckTypeCorrect == Spec => []TypeOK
<1>1. Typed => TypeOK
  BY DEF Typed
<1> QED BY <1>1, AlwaysTyped, PTL
-----------------------------------------------------------------------------
(* Where dates are: with the events on their way and in the records.       *)
Events == Messages(db) \cup Messages(checks) \cup running \cup results

Dated ==
    {e \in Events : /\ e.cmd \in {"check", "subj.update.status"}
                    /\ e.unresolvable # Zero}

DatedRecords == {rec \in records : rec.unresolvable # Zero}

(* Names whose recovery is on its way to their record. *)
Pending == Recovering(results \cup Messages(db))

SameDate(x, y) == x.subject = y.subject /\ x.unresolvable = y.unresolvable

LEMMA DatedTypes ==
    ASSUME Typed
    PROVE  /\ \A e \in Dated : e.subject \in Subjects /\ e.unresolvable \in Age
           /\ \A rec \in DatedRecords :
                 rec \in Record /\ rec.subject \in Subjects /\ rec.unresolvable \in Age
<1>1. Events \subseteq DbEvent \cup CheckEvent
  BY QueueTypes DEF Events, Typed, TypeOK, DbEvent
<1>2. \A e \in Dated : e \in StatusEvent \cup CheckEvent
  BY <1>1, CommandLemma DEF Dated
<1>3. \A e \in StatusEvent \cup CheckEvent :
         e.subject \in Subjects /\ e.unresolvable \in Age
  BY DEF StatusEvent, CheckEvent
<1> QED BY <1>2, <1>3 DEF DatedRecords, Typed, TypeOK, Record

(* An event gets its date from another one, from the record a scan read,   *)
(* or from a check that finds its name unresolvable.                       *)
Inherited(e) ==
    \/ e \in Dated
    \/ GetAllSubjects /\ \E rec \in DatedRecords : SameDate(e, rec)
    \/ \E x \in running : /\ Unreachable(x)
                          /\ e.subject = x.subject
                          /\ e.unresolvable = Since(x.unresolvable)

LEMMA EventDates ==
    ASSUME Typed, DbdNext \/ CheckerdNext \/ EnvironmentNext,
           NEW e \in Dated'
    PROVE  Inherited(e)
<1> USE DEF environment, checker, history, bounds
<1>0. /\ e \in Events'
      /\ e.cmd \in {"check", "subj.update.status"} /\ e.unresolvable # Zero
  BY DEF Dated
<1>a. CASE Events' \subseteq Events
  BY <1>0, <1>a DEF Inherited, Dated
<1>b. ASSUME NEW m \in ScanEvent \cup DeleteEvent, Events' \subseteq Events \cup {m}
      PROVE  Inherited(e)
  <2>1. m.cmd \notin {"check", "subj.update.status"}
    BY CommandLemma
  <2> QED BY <1>0, <1>b, <2>1 DEF Inherited, Dated
<1>c. ASSUME NEW r \in StatusEvent, r.unresolvable = Zero,
             Events' \subseteq Events \cup {r}
      PROVE  Inherited(e)
  BY <1>0, <1>c DEF Inherited, Dated
<1>1. CASE GetAllSubjects
  <2>1. /\ Messages(db') \subseteq Messages(db)
        /\ running' = running /\ results' = results
    BY <1>1, ScanRead, CommandHandled DEF GetAllSubjects
  <2>2. CASE e \in Events
    BY <1>0, <2>2 DEF Inherited, Dated
  <2>3. CASE e \notin Events
    <3>1. e \in Messages(checks') \ Messages(checks)
      BY <1>0, <2>1, <2>3 DEF Events
    <3>2. PICK rec \in records : SameDate(e, rec)
      BY <1>1, <3>1, ScanRead DEF SameDate
    <3>3. rec \in DatedRecords
      BY <1>0, <3>2 DEF DatedRecords, SameDate
    <3> QED BY <1>1, <3>2, <3>3 DEF Inherited
  <2> QED BY <2>2, <2>3
<1>2. CASE StatusUpdate \/ StatusUpdateFails
  <2>1. Messages(db') \subseteq Messages(db)
    BY <1>2, CommandHandled DEF StatusUpdate, StatusUpdateFails
  <2>2. UNCHANGED <<checks, running, results>>
    BY <1>2 DEF StatusUpdate, StatusUpdateFails
  <2> QED BY <1>a, <2>1, <2>2 DEF Events
<1>3. CASE DeleteSubject
  <2>1. db \in QueueOf(DbEvent) /\ NothingHeld(db) /\ db.ready # <<>>
    BY <1>3, QueueTypes DEF Typed, DeleteSubject, Command
  <2>2. Messages(db') \subseteq Messages(db)
    BY <1>3, <2>1, HandledLemma, RequeuedLemma DEF DeleteSubject
  <2> QED BY <1>3, <1>a, <2>2 DEF DeleteSubject, Events
<1>4. ASSUME NEW sc \in Scans, PublishGetAllSubjects(sc) PROVE Inherited(e)
  <2> DEFINE m == [cmd |-> "subj.get.all", scan |-> sc]
  <2>1. m \in ScanEvent /\ m \in DbEvent
        /\ db \in QueueOf(DbEvent) /\ NothingHeld(db)
    BY QueueTypes DEF DbEvent, ScanEvent, Typed
  <2>2. db' = Put(db, m) /\ UNCHANGED <<checks, running, results>>
    BY <1>4 DEF PublishGetAllSubjects
  <2> HIDE DEF m
  <2>3. Messages(db') = Messages(db) \cup {m}
    BY <2>1, <2>2, PublishLemma
  <2> QED BY <1>b, <2>1, <2>2, <2>3 DEF Events
<1>5. CASE ConsumeCheck
  <2>1. /\ Messages(checks) = Messages(checks') \cup {Head(checks.ready)}
        /\ running' = running \cup {Head(checks.ready)}
    BY <1>5, ConsumeCheckEffect
  <2> QED BY <1>5, <1>a, <2>1 DEF ConsumeCheck, Events
<1>6. ASSUME NEW x \in running, GiveUp(x) PROVE Inherited(e)
  <2>1. PICK m \in DeleteEvent : Messages(db') = Messages(db) \cup {m}
    BY <1>6, GiveUpEffect
  <2> QED BY <1>6, <1>b, <2>1 DEF GiveUp, LookupFails, Events
<1>7. ASSUME NEW x \in running, Unreachable(x) PROVE Inherited(e)
  <2>1. PICK r \in StatusEvent : /\ results' = results \cup {r}
                                 /\ r.subject = x.subject
                                 /\ r.unresolvable = Since(x.unresolvable)
    BY <1>7, UnreachableEffect
  <2>2. Events' \subseteq Events \cup {r}
    BY <1>7, <2>1 DEF Unreachable, LookupFails, Events
  <2> QED BY <1>0, <1>7, <2>1, <2>2 DEF Inherited, Dated
<1>8. ASSUME NEW x \in running, Resolves(x) PROVE Inherited(e)
  <2>1. PICK r \in StatusEvent : /\ results' = results \cup {r}
                                 /\ r.unresolvable = Zero
    BY <1>8, ResolvesEffect
  <2> QED BY <1>8, <1>c, <2>1 DEF Resolves, Events
<1>9. ASSUME NEW r \in results, PublishStatus(r) PROVE Inherited(e)
  <2>1. r \in DbEvent /\ db \in QueueOf(DbEvent) /\ NothingHeld(db)
    BY QueueTypes DEF DbEvent, Typed, TypeOK
  <2>2. Messages(db') = Messages(db) \cup {r}
    BY <1>9, <2>1, PublishLemma DEF PublishStatus
  <2> QED BY <1>9, <1>a, <2>2 DEF PublishStatus, Events
<1>10. CASE CheckerdCrash
  BY <1>10, <1>a DEF CheckerdCrash, Events
<1>11. CASE EnvironmentNext
  <2>1. UNCHANGED <<db, checks, running, results>>
    BY <1>11 DEF EnvironmentNext, InsertSubject, DnsChanges, UpdateSubjCert,
                 RenewalDeletes, Fetch
  <2> QED BY <1>a, <2>1 DEF Events
<1> QED BY <1>1, <1>2, <1>3, <1>4, <1>5, <1>6, <1>7, <1>8, <1>9, <1>10, <1>11
        DEF DbdNext, CheckerdNext

(* A record keeps its date or gets that of a result. *)
LEMMA RecordDates ==
    ASSUME Typed, DbdNext \/ CheckerdNext \/ EnvironmentNext,
           NEW rec \in DatedRecords'
    PROVE  \/ \E old \in DatedRecords : SameDate(rec, old)
           \/ \E e \in Dated : SameDate(rec, e)
<1> USE DEF environment, checker, history, bounds
<1>0. rec \in records' /\ rec.unresolvable # Zero
  BY DEF DatedRecords
<1>a. CASE records' \subseteq records
  BY <1>0, <1>a DEF DatedRecords, SameDate
<1>1. CASE StatusUpdate
  <2> DEFINE e == Head(db.ready)
  <2>1. e \in StatusEvent /\ e \in Events /\ e.cmd = "subj.update.status"
    BY <1>1, CommandHandled, CommandLemma DEF StatusUpdate, Events
  <2>2. CASE UNCHANGED records
    BY <1>a, <2>2
  <2>3. ASSUME NEW old \in RecordsOf(e.subject),
               records' = (records \ {old}) \cup {Write(old, e)}
        PROVE  \/ \E r \in DatedRecords : SameDate(rec, r)
               \/ \E x \in Dated : SameDate(rec, x)
    <3>1. old \in Record /\ old.subject = e.subject
      BY <2>3 DEF RecordsOf, Typed, TypeOK
    <3>2. CASE rec \in records
      BY <1>0, <3>2 DEF DatedRecords, SameDate
    <3>3. CASE rec = Write(old, e)
      <4>1. rec.subject = e.subject /\ rec.unresolvable = e.unresolvable
        BY <2>1, <3>1, <3>3, UpdateLemma
      <4>2. e \in Dated
        BY <1>0, <2>1, <4>1 DEF Dated
      <4> QED BY <4>1, <4>2 DEF SameDate
    <3> QED BY <1>0, <2>3, <3>2, <3>3
  <2> QED BY <1>1, <2>2, <2>3 DEF StatusUpdate
<1>2. ASSUME NEW s \in Subjects, InsertSubject(s)
      PROVE  \E old \in DatedRecords : SameDate(rec, old)
  <2>1. rec \in records
    BY <1>0, <1>2 DEF InsertSubject
  <2> QED BY <1>0, <2>1 DEF DatedRecords, SameDate
<1>3. ASSUME NEW r \in records, UpdateSubjCert(r)
      PROVE  \E old \in DatedRecords : SameDate(rec, old)
  <2>1. rec \in records \/ rec = [r EXCEPT !.serial = r.id, !.match = FALSE]
    BY <1>0, <1>3 DEF UpdateSubjCert
  <2>2. r \in Record
    BY DEF Typed, TypeOK
  <2>3. CASE rec \in records
    BY <1>0, <2>3 DEF DatedRecords, SameDate
  <2>4. CASE rec = [r EXCEPT !.serial = r.id, !.match = FALSE]
    <3>1. SameDate(rec, r)
      BY <2>2, <2>4 DEF SameDate, Record
    <3> QED BY <1>0, <3>1 DEF DatedRecords, SameDate
  <2> QED BY <2>1, <2>3, <2>4
<1>4. CASE /\ ~StatusUpdate
           /\ ~ \E s \in Subjects : InsertSubject(s)
           /\ ~ \E r \in records : UpdateSubjCert(r)
  <2>1. records' \subseteq records
    BY <1>4 DEF DbdNext, CheckerdNext, EnvironmentNext, GetAllSubjects,
                StatusUpdateFails, DeleteSubject, PublishGetAllSubjects,
                ConsumeCheck, GiveUp, Unreachable, LookupFails, Resolves,
                PublishStatus, CheckerdCrash, DnsChanges, RenewalDeletes, Fetch
  <2> QED BY <1>a, <2>1
<1> QED BY <1>1, <1>2, <1>3, <1>4
-----------------------------------------------------------------------------
(* No date anywhere is older than the first check that found the name      *)
(* unresolvable.                                                           *)
FirstSeen ==
    \A x \in Dated \cup DatedRecords : first[x.subject] >= x.unresolvable

(* checkerd publishes a deletion only when it gives a subject up. *)
LEMMA GivesUpLemma ==
    ASSUME Typed, [Next]_vars, NEW e \in running, GivesUp(e)
    PROVE  GiveUp(e)
<1> USE DEF environment, checker, history, bounds
<1>0. e \notin running' /\ Len(db'.ready) > Len(db.ready)
  BY DEF GivesUp
<1>1. Len(db.ready) \in Nat
  BY QueueTypes, QueueParts, LenProperties
<1>2. CASE UNCHANGED db
  BY <1>0, <1>1, <1>2
<1>3. CASE running \subseteq running'
  BY <1>0, <1>3
<1>4. ASSUME NEW x \in running, GiveUp(x) PROVE GiveUp(e)
  <2>1. running' = running \ {x}
    BY <1>4 DEF GiveUp, LookupFails
  <2> QED BY <1>0, <1>4, <2>1
<1>5. CASE Tick
  <2>1. DOMAIN db'.ready = DOMAIN db.ready
    BY <1>5 DEF Tick, OlderQueue
  <2>2. db.ready \in Seq(DbEvent) /\ db'.ready \in Seq(DbEvent)
    BY <1>5, QueueTypes, TickEffect, QueueParts
  <2>3. /\ Len(db'.ready) \in Nat
        /\ 1 .. Len(db'.ready) = 1 .. Len(db.ready)
    BY <2>1, <2>2, LenProperties
  <2>4. Len(db'.ready) = Len(db.ready)
    <3>1. Len(db'.ready) \in 1 .. Len(db'.ready)
      BY <1>0, <1>1, <2>3
    <3> QED BY <1>0, <1>1, <2>3, <3>1
  <2> QED BY <1>0, <1>1, <2>4
<1>6. CASE ~Tick /\ ~ \E x \in running : GiveUp(x)
  <2>1. UNCHANGED db \/ running \subseteq running'
    BY <1>6 DEF Next, DbdNext, CheckerdNext, EnvironmentNext, GetAllSubjects,
                StatusUpdate, StatusUpdateFails, DeleteSubject,
                PublishGetAllSubjects, ConsumeCheck, Unreachable, LookupFails,
                Resolves, PublishStatus, CheckerdCrash, InsertSubject,
                UpdateSubjCert, DnsChanges, RenewalDeletes, Fetch, vars
  <2> QED BY <1>2, <1>3, <2>1
<1> QED BY <1>4, <1>5, <1>6

(* The check whose name is given up carries an expired date. *)
LEMMA GivenUpDate ==
    ASSUME Typed, NEW e \in running, GiveUp(e)
    PROVE  /\ e \in Dated
           /\ e.subject \in Subjects
           /\ e.unresolvable \in Int /\ e.unresolvable > 2 * RevokeHours
<1>1. e \in CheckEvent /\ Expired(e.unresolvable)
  BY DEF GiveUp, Typed, TypeOK
<1>2. /\ e.cmd = "check" /\ e.subject \in Subjects
      /\ e.unresolvable \in Age /\ e.unresolvable # Zero
      /\ e.unresolvable \in Int /\ e.unresolvable > 2 * RevokeHours
  BY <1>1, ExpiredLemma, AgeLemma DEF CheckEvent
<1> QED BY <1>2 DEF Dated, Events

(* A failed lookup only adds to what the histories remember. *)
LEMMA LookupHistory ==
    ASSUME Typed, NEW x \in running, LookupFails(x)
    PROVE  /\ first'[x.subject] >= 0 /\ down'[x.subject] >= 0
           /\ \A s \in Subjects :
                 /\ first[s] \in Age /\ down[s] \in Age
                 /\ first'[s] \in Age /\ down'[s] \in Age
                 /\ first'[s] >= first[s] /\ down'[s] >= down[s]
BY AgeLemma DEF LookupFails, Typed, TypeOK, CheckEvent, Age, Zero

(* The clock ages dates and histories alike. *)
LEMMA TickDates ==
    ASSUME Typed, Tick
    PROVE  /\ \A y \in Dated' : \E x \in Dated :
                 y.subject = x.subject /\ y.unresolvable = Older(x.unresolvable)
           /\ \A y \in DatedRecords' : \E x \in DatedRecords :
                 y.subject = x.subject /\ y.unresolvable = Older(x.unresolvable)
           /\ \A s \in Subjects : /\ first'[s] = Older(first[s])
                                  /\ down'[s] = Older(down[s])
           /\ crossed' = crossed
<1> USE DEF environment, checker, history, bounds
<1>0. /\ Events \subseteq DbEvent \cup CheckEvent
      /\ Events' = {OlderEvent(e) : e \in Events}
  BY QueueTypes, TickEffect DEF Tick, Events, Typed, TypeOK, DbEvent
<1>1. ASSUME NEW y \in Dated'
      PROVE  \E x \in Dated :
                y.subject = x.subject /\ y.unresolvable = Older(x.unresolvable)
  <2>1. PICK x \in Events : y = OlderEvent(x)
    BY <1>0, <1>1 DEF Dated
  <2>2. y.cmd \in {"check", "subj.update.status"} /\ y.unresolvable # Zero
    BY <1>1 DEF Dated
  <2>3. x \in CheckEvent \cup StatusEvent
    BY <1>0, <2>1, <2>2, OlderEventLemma, CommandLemma DEF DbEvent
  <2>4. /\ y.cmd = x.cmd /\ y.subject = x.subject
        /\ y.unresolvable = Older(x.unresolvable)
    BY <2>1, <2>3, OlderEventLemma
  <2>5. x.unresolvable \in Age
    BY <2>3 DEF CheckEvent, StatusEvent
  <2>6. x \in Dated
    BY <2>1, <2>2, <2>4, <2>5, AgeLemma DEF Dated
  <2> QED BY <2>4, <2>6
<1>2. ASSUME NEW y \in DatedRecords'
      PROVE  \E x \in DatedRecords :
                y.subject = x.subject /\ y.unresolvable = Older(x.unresolvable)
  <2>1. PICK x \in records : y = OlderRecord(x)
    BY <1>2, TickEffect DEF DatedRecords
  <2>2. x \in Record /\ x.unresolvable \in Age
    BY DEF Typed, TypeOK, Record
  <2>3. y.subject = x.subject /\ y.unresolvable = Older(x.unresolvable)
    BY <2>1, <2>2, OlderRecordLemma
  <2>4. y.unresolvable # Zero
    BY <1>2 DEF DatedRecords
  <2>5. x \in DatedRecords
    BY <2>2, <2>3, <2>4, AgeLemma DEF DatedRecords
  <2> QED BY <2>3, <2>5
<1>3. \A s \in Subjects : first'[s] = Older(first[s]) /\ down'[s] = Older(down[s])
  BY DEF Tick
<1> QED BY <1>1, <1>2, <1>3 DEF Tick

LEMMA FirstSeenStep ==
    ASSUME Typed, FirstSeen, [Next]_vars
    PROVE  FirstSeen'
<1> USE DEF environment, checker, history, bounds
<1>0. \A s \in Subjects : first[s] \in Age
  BY DEF Typed, TypeOK
<1>1. CASE DbdNext \/ CheckerdNext \/ EnvironmentNext
  <2>1. \A s \in Subjects : first'[s] \in Int /\ first'[s] >= first[s]
    <3>1. CASE \E x \in running : LookupFails(x)
      BY <3>1, LookupHistory, AgeLemma
    <3>2. CASE ~ \E x \in running : LookupFails(x)
      <4>1. UNCHANGED first
        BY <1>1, <3>2 DEF DbdNext, CheckerdNext, EnvironmentNext, GetAllSubjects,
                StatusUpdate, StatusUpdateFails, DeleteSubject,
                PublishGetAllSubjects, ConsumeCheck, GiveUp, Unreachable,
                Resolves, PublishStatus, CheckerdCrash, InsertSubject,
                UpdateSubjCert, DnsChanges, RenewalDeletes, Fetch
      <4> QED BY <1>0, <4>1, AgeLemma
    <3> QED BY <3>1, <3>2
  <2>2. ASSUME NEW x \in Dated \cup DatedRecords
        PROVE  first'[x.subject] >= x.unresolvable
    <3>1. x.subject \in Subjects /\ x.unresolvable \in Int
      BY DatedTypes, AgeLemma
    <3>2. first[x.subject] \in Int /\ first[x.subject] >= x.unresolvable
      BY <1>0, <3>1, AgeLemma DEF FirstSeen
    <3> QED BY <2>1, <3>1, <3>2
  <2>3. ASSUME NEW y \in Dated' PROVE first'[y.subject] >= y.unresolvable
    <3>1. CASE \E x \in Dated \cup DatedRecords : SameDate(y, x)
      BY <2>2, <3>1 DEF SameDate
    <3>2. CASE \E x \in running : /\ Unreachable(x) /\ y.subject = x.subject
                                  /\ y.unresolvable = Since(x.unresolvable)
      <4>1. PICK x \in running : /\ Unreachable(x) /\ y.subject = x.subject
                                 /\ y.unresolvable = Since(x.unresolvable)
        BY <3>2
      <4>2. CASE x.unresolvable = Zero
        BY <4>1, <4>2, LookupHistory DEF Since, Unreachable
      <4>3. CASE x.unresolvable # Zero
        <5>1. x.cmd = "check"
          BY CommandLemma DEF Typed, TypeOK
        <5>2. x \in Dated
          BY <4>3, <5>1 DEF Dated, Events
        <5> QED BY <2>2, <4>1, <4>3, <5>2 DEF Since
      <4> QED BY <4>2, <4>3
    <3> QED BY <1>1, <2>3, <3>1, <3>2, EventDates DEF Inherited, SameDate
  <2>4. ASSUME NEW y \in DatedRecords' PROVE first'[y.subject] >= y.unresolvable
    <3>1. \E x \in Dated \cup DatedRecords : SameDate(y, x)
      BY <1>1, <2>4, RecordDates
    <3> QED BY <2>2, <3>1 DEF SameDate
  <2> QED BY <2>3, <2>4 DEF FirstSeen
<1>2. CASE Tick
  <2> SUFFICES ASSUME NEW y \in (Dated \cup DatedRecords)'
               PROVE  first'[y.subject] >= y.unresolvable
    BY DEF FirstSeen
  <2>1. PICK x \in Dated \cup DatedRecords :
           y.subject = x.subject /\ y.unresolvable = Older(x.unresolvable)
    BY <1>2, TickDates
  <2>2. /\ x.subject \in Subjects /\ x.unresolvable \in Age
        /\ x.unresolvable # Zero
    BY DatedTypes DEF Dated, DatedRecords
  <2>3. first[x.subject] >= x.unresolvable
    BY DEF FirstSeen
  <2> QED BY <1>0, <1>2, <2>1, <2>2, <2>3, TickDates, AgeLemma
<1>3. CASE UNCHANGED vars
  BY <1>3 DEF vars, FirstSeen, Dated, DatedRecords, Events
<1> QED BY <1>1, <1>2, <1>3 DEF Next

(* The flag --old of londo-checkerd: a subject is given up only when a     *)
(* check found it unresolvable more than RevokeHours ago, however its      *)
(* scans overlap, whatever is lost or late, whichever of several records   *)
(* of its name the results went to, and for every value of --old.          *)
THEOREM GivenUpOnDateHolds == Spec => GivenUpOnDate
<1>1. Init => FirstSeen
  <2> SUFFICES ASSUME Init PROVE FirstSeen
    OBVIOUS
  <2>1. Dated = {} /\ DatedRecords = {}
    BY EmptyQueueLemma DEF Init, Dated, DatedRecords, Events
  <2> QED BY <2>1 DEF FirstSeen
<1>2. Typed /\ FirstSeen /\ [Next]_vars => FirstSeen'
  BY FirstSeenStep
<1>3. Typed /\ FirstSeen /\ [Next]_vars =>
         \A e \in running : GivesUp(e) => first[e.subject] > 2 * RevokeHours
  <2> SUFFICES ASSUME Typed, FirstSeen, [Next]_vars, NEW e \in running, GivesUp(e)
               PROVE  first[e.subject] > 2 * RevokeHours
    OBVIOUS
  <2>1. /\ e \in Dated /\ e.subject \in Subjects
        /\ e.unresolvable \in Int /\ e.unresolvable > 2 * RevokeHours
    BY GivesUpLemma, GivenUpDate
  <2>2. first[e.subject] \in Int /\ first[e.subject] >= e.unresolvable
    BY <2>1, AgeLemma DEF FirstSeen, Typed, TypeOK
  <2> QED BY <2>1, <2>2, HostCheckAssumption
<1> QED BY <1>1, <1>2, <1>3, AlwaysTyped, PTL DEF Spec, GivenUpOnDate
-----------------------------------------------------------------------------
(* No date is older than what the checks have seen since the name last     *)
(* resolved, but for names excused and for records whose recovery is still *)
(* on its way.                                                             *)
Truthful(x) == x.subject \in crossed \/ down[x.subject] >= x.unresolvable

DownSince ==
    /\ \A e \in Dated : Truthful(e)
    /\ \A rec \in DatedRecords : rec.subject \in Pending \/ Truthful(rec)

(* Excuses are for good. *)
LEMMA CrossedGrows ==
    ASSUME [Next]_vars
    PROVE  crossed \subseteq crossed'
BY DEF Next, DbdNext, CheckerdNext, EnvironmentNext, GetAllSubjects, Tick,
       StatusUpdate, StatusUpdateFails, DeleteSubject, PublishGetAllSubjects,
       ConsumeCheck, GiveUp, Unreachable, LookupFails, Resolves, PublishStatus,
       CheckerdCrash, InsertSubject, UpdateSubjCert, DnsChanges, RenewalDeletes,
       Fetch, vars, environment, checker, history, bounds

(* A recovery gets lost or misses a record only with an excuse. *)
LEMMA RecoveryArrives ==
    ASSUME Typed, DbdNext \/ CheckerdNext \/ EnvironmentNext,
           NEW s \in Pending, s \notin crossed'
    PROVE  s \in Pending' \/ \A rec \in DatedRecords' : rec.subject # s
<1> USE DEF environment, checker, history, bounds
<1>a. CASE results \cup Messages(db) \subseteq results' \cup Messages(db')
  BY <1>a DEF Pending, Recovering
<1>1. CASE GetAllSubjects
  BY <1>1 DEF GetAllSubjects, Pending
<1>2. CASE StatusUpdate
  <2> DEFINE e == Head(db.ready)
             recs == RecordsOf(e.subject)
  <2>1. /\ Messages(db) = Messages(db') \cup {e}
        /\ e \in StatusEvent /\ UNCHANGED results
    BY <1>2, CommandHandled, CommandLemma DEF StatusUpdate
  <2>2. CASE s \in Recovering(results' \cup Messages(db'))
    BY <2>2 DEF Pending
  <2>3. CASE s \notin Recovering(results' \cup Messages(db'))
    <3>1. s = e.subject /\ e.unresolvable = Zero /\ s \in Recovering({e})
      BY <2>1, <2>3, CommandLemma DEF Pending, Recovering
    <3>2. ~(Cardinality(recs) > 1)
      BY <1>2, <3>1 DEF StatusUpdate
    <3>3. recs = {} \/ \E old : recs = {old}
      <4>1. IsFiniteSet(recs)
        BY FS_Subset DEF RecordsOf, Typed
      <4>2. Cardinality(recs) \in Nat
        BY <4>1, FS_CardinalityType
      <4>3. Cardinality(recs) = 0 \/ Cardinality(recs) = 1
        BY <3>2, <4>2
      <4> QED BY <4>1, <4>3, FS_EmptySet, FS_Singleton
    <3>4. ASSUME NEW rec \in DatedRecords' PROVE rec.subject # s
      <4>1. rec \in records' /\ rec.unresolvable # Zero
        BY <3>4 DEF DatedRecords
      <4>2. CASE recs = {}
        <5>1. UNCHANGED records
          BY <1>2, <4>2 DEF StatusUpdate
        <5> QED BY <3>1, <4>1, <4>2, <5>1 DEF RecordsOf
      <4>3. ASSUME NEW old, recs = {old} PROVE rec.subject # s
        <5>1. old \in records /\ old \in Record
          BY <4>3 DEF RecordsOf, Typed, TypeOK
        <5>2. records' = (records \ {old}) \cup {Write(old, e)}
          BY <1>2, <4>3 DEF StatusUpdate
        <5>3. Write(old, e).unresolvable = Zero
          BY <2>1, <3>1, <5>1, UpdateLemma
        <5>4. rec \in records /\ rec # old
          BY <4>1, <5>2, <5>3
        <5> QED BY <3>1, <4>3, <5>4 DEF RecordsOf
      <4> QED BY <3>3, <4>2, <4>3
    <3> QED BY <3>4
  <2> QED BY <2>2, <2>3
<1>3. CASE StatusUpdateFails
  <2>1. /\ Messages(db) = Messages(db') \cup {Head(db.ready)}
        /\ UNCHANGED results
    BY <1>3, CommandHandled DEF StatusUpdateFails
  <2>2. s \notin Recovering({Head(db.ready)})
    BY <1>3 DEF StatusUpdateFails
  <2> QED BY <2>1, <2>2 DEF Pending, Recovering
<1>4. CASE DeleteSubject
  <2>1. /\ db \in QueueOf(DbEvent) /\ NothingHeld(db) /\ db.ready # <<>>
        /\ Head(db.ready).cmd = "subj.delete"
    BY <1>4, QueueTypes DEF Typed, DeleteSubject, Command
  <2>2. Messages(db) \subseteq Messages(db') \cup {Head(db.ready)}
    BY <1>4, <2>1, HandledLemma, RequeuedLemma DEF DeleteSubject
  <2> QED BY <1>4, <2>1, <2>2 DEF DeleteSubject, Pending, Recovering
<1>5. ASSUME NEW sc \in Scans, PublishGetAllSubjects(sc)
      PROVE  results \cup Messages(db) \subseteq results' \cup Messages(db')
  <2> DEFINE m == [cmd |-> "subj.get.all", scan |-> sc]
  <2>1. m \in DbEvent /\ db \in QueueOf(DbEvent) /\ NothingHeld(db)
    BY QueueTypes DEF DbEvent, ScanEvent, Typed
  <2>2. db' = Put(db, m) /\ UNCHANGED results
    BY <1>5 DEF PublishGetAllSubjects
  <2> HIDE DEF m
  <2> QED BY <2>1, <2>2, PublishLemma
<1>6. ASSUME NEW x \in running, GiveUp(x)
      PROVE  results \cup Messages(db) \subseteq results' \cup Messages(db')
  BY <1>6, GiveUpEffect DEF GiveUp
<1>7. ASSUME NEW x \in running, Unreachable(x) \/ Resolves(x)
      PROVE  results \cup Messages(db) \subseteq results' \cup Messages(db')
  BY <1>7 DEF Unreachable, Resolves
<1>8. ASSUME NEW r \in results, PublishStatus(r)
      PROVE  results \cup Messages(db) \subseteq results' \cup Messages(db')
  <2>1. r \in DbEvent /\ db \in QueueOf(DbEvent) /\ NothingHeld(db)
    BY QueueTypes DEF DbEvent, Typed, TypeOK
  <2>2. Messages(db') = Messages(db) \cup {r}
    BY <1>8, <2>1, PublishLemma DEF PublishStatus
  <2> QED BY <1>8, <2>2 DEF PublishStatus
<1>9. CASE CheckerdCrash
  <2>1. s \notin Recovering(results) /\ UNCHANGED db
    BY <1>9 DEF CheckerdCrash
  <2> QED BY <2>1 DEF Pending, Recovering
<1>10. CASE ConsumeCheck \/ EnvironmentNext
  <2>1. UNCHANGED <<db, results>>
    BY <1>10 DEF ConsumeCheck, EnvironmentNext, InsertSubject, DnsChanges,
                 UpdateSubjCert, RenewalDeletes, Fetch
  <2> QED BY <1>a, <2>1
<1> QED BY <1>a, <1>1, <1>2, <1>3, <1>4, <1>5, <1>6, <1>7, <1>8, <1>9, <1>10
        DEF DbdNext, CheckerdNext

(* The name resolves: other checks that read the old date are the excuse,  *)
(* its records await the recovery.                                         *)
LEMMA DownSinceResolves ==
    ASSUME Typed, DownSince, NEW x \in running, Resolves(x)
    PROVE  DownSince'
<1> USE DEF environment, checker, history, bounds
<1> DEFINE s == x.subject
<1>0. /\ x \in CheckEvent /\ s \in Subjects
      /\ down' = [down EXCEPT ![s] = Zero] /\ down \in [Subjects -> Age]
  BY DEF Resolves, Typed, TypeOK, CheckEvent
<1>1. PICK r \in StatusEvent : /\ results' = results \cup {r}
                               /\ r.subject = s
                               /\ r.unresolvable = Zero
  BY ResolvesEffect
<1>2. /\ UNCHANGED <<records, db, checks>> /\ running' = running \ {x}
      /\ crossed \subseteq crossed'
  BY DEF Resolves
<1>3. ASSUME NEW e \in Dated' PROVE Truthful(e)'
  <2>0. e \in Events' /\ e.unresolvable # Zero
        /\ e.cmd \in {"check", "subj.update.status"}
    BY <1>3 DEF Dated
  <2>1. /\ e \in (running \ {x}) \cup results \cup Messages(checks) \cup Messages(db)
        /\ e \in Dated
    BY <1>1, <1>2, <2>0 DEF Dated, Events
  <2>2. CASE e.subject = s
    <3>1. Overtaken(x)
      BY <2>0, <2>1, <2>2 DEF Overtaken
    <3>2. s \in crossed'
      BY <3>1 DEF Resolves
    <3> QED BY <2>2, <3>2 DEF Truthful
  <2>3. CASE e.subject # s
    <3>1. down'[e.subject] = down[e.subject]
      BY <1>0, <2>1, <2>3, DatedTypes
    <3> QED BY <1>2, <2>1, <3>1 DEF DownSince, Truthful
  <2> QED BY <2>2, <2>3
<1>4. ASSUME NEW rec \in DatedRecords' PROVE (rec.subject \in Pending \/ Truthful(rec))'
  <2>1. rec \in DatedRecords
    BY <1>2, <1>4 DEF DatedRecords
  <2>2. Pending \subseteq Pending' /\ s \in Pending'
    BY <1>1, <1>2, CommandLemma DEF Pending, Recovering
  <2>3. CASE rec.subject # s
    <3>1. down'[rec.subject] = down[rec.subject]
      BY <1>0, <2>1, <2>3, DatedTypes
    <3> QED BY <1>2, <2>1, <2>2, <3>1 DEF DownSince, Truthful
  <2> QED BY <2>2, <2>3
<1> QED BY <1>3, <1>4 DEF DownSince

LEMMA DownSinceOther ==
    ASSUME Typed, DownSince, DbdNext \/ CheckerdNext \/ EnvironmentNext,
           ~ \E x \in running : Resolves(x)
    PROVE  DownSince'
<1> USE DEF environment, checker, history, bounds
<1>0. \A s \in Subjects : down[s] \in Int
  BY AgeLemma DEF Typed, TypeOK
<1>1. \A s \in Subjects : down'[s] \in Int /\ down'[s] >= down[s]
  <2>1. CASE \E x \in running : LookupFails(x)
    BY <2>1, LookupHistory, AgeLemma
  <2>2. CASE ~ \E x \in running : LookupFails(x)
    <3>1. UNCHANGED down
      BY <2>2 DEF DbdNext, CheckerdNext, EnvironmentNext, GetAllSubjects,
              StatusUpdate, StatusUpdateFails, DeleteSubject,
              PublishGetAllSubjects, ConsumeCheck, GiveUp, Unreachable,
              PublishStatus, CheckerdCrash, InsertSubject,
              UpdateSubjCert, DnsChanges, RenewalDeletes, Fetch
    <3> QED BY <1>0, <3>1
  <2> QED BY <2>1, <2>2
<1>2. crossed \subseteq crossed'
  BY CrossedGrows DEF Next
<1>3. ASSUME NEW x \in Dated \cup DatedRecords, NEW y, SameDate(y, x), Truthful(x)
      PROVE  Truthful(y)'
  <2>1. x.subject \in Subjects /\ x.unresolvable \in Int
    BY DatedTypes, AgeLemma
  <2>2. CASE x.subject \in crossed
    BY <1>2, <1>3, <2>2 DEF Truthful, SameDate
  <2>3. CASE down[x.subject] >= x.unresolvable
    <3>1. down'[x.subject] >= x.unresolvable
      BY <1>0, <1>1, <2>1, <2>3
    <3> QED BY <1>3, <3>1 DEF Truthful, SameDate
  <2> QED BY <1>3, <2>2, <2>3 DEF Truthful
<1>4. ASSUME NEW e \in Dated' PROVE Truthful(e)'
  <2>1. CASE e \in Dated
    BY <1>3, <2>1 DEF DownSince, SameDate
  <2>2. CASE GetAllSubjects /\ \E rec \in DatedRecords : SameDate(e, rec)
    <3>1. PICK rec \in DatedRecords : SameDate(e, rec)
      BY <2>2
    <3>2. CASE rec.subject \in Pending
      BY <2>2, <3>1, <3>2 DEF GetAllSubjects, Pending, Truthful, SameDate
    <3>3. CASE Truthful(rec)
      BY <1>3, <3>1, <3>3
    <3> QED BY <3>2, <3>3 DEF DownSince
  <2>3. ASSUME NEW x \in running, Unreachable(x), e.subject = x.subject,
               e.unresolvable = Since(x.unresolvable)
        PROVE  Truthful(e)'
    <3>1. CASE x.unresolvable = Zero
      BY <2>3, <3>1, LookupHistory DEF Since, Unreachable, Truthful
    <3>2. CASE x.unresolvable # Zero
      <4>1. x.cmd = "check"
        BY CommandLemma DEF Typed, TypeOK
      <4>2. x \in Dated /\ SameDate(e, x)
        BY <2>3, <3>2, <4>1 DEF Dated, Events, Since, SameDate
      <4> QED BY <1>3, <4>2 DEF DownSince
    <3> QED BY <3>1, <3>2
  <2>4. Inherited(e)
    BY <1>4, EventDates
  <2> QED BY <2>1, <2>2, <2>3, <2>4 DEF Inherited
<1>5. ASSUME NEW rec \in DatedRecords' PROVE (rec.subject \in Pending \/ Truthful(rec))'
  <2>1. CASE \E e \in Dated : SameDate(rec, e)
    BY <1>3, <2>1 DEF DownSince
  <2>2. ASSUME NEW old \in DatedRecords, SameDate(rec, old)
        PROVE  (rec.subject \in Pending \/ Truthful(rec))'
    <3>1. CASE Truthful(old)
      BY <1>3, <2>2, <3>1
    <3>2. CASE old.subject \in Pending
      <4>1. CASE rec.subject \in crossed'
        BY <4>1 DEF Truthful
      <4>2. CASE rec.subject \notin crossed'
        BY <1>5, <2>2, <3>2, <4>2, RecoveryArrives DEF SameDate
      <4> QED BY <4>1, <4>2
    <3> QED BY <3>1, <3>2 DEF DownSince
  <2> QED BY <1>5, <2>1, <2>2, RecordDates
<1> QED BY <1>4, <1>5 DEF DownSince

LEMMA DownSinceTick ==
    ASSUME Typed, DownSince, Tick
    PROVE  DownSince'
<1> USE DEF environment, checker, history, bounds
<1>1. ASSUME NEW x \in Dated \cup DatedRecords, NEW y, Truthful(x),
             y.subject = x.subject, y.unresolvable = Older(x.unresolvable)
      PROVE  Truthful(y)'
  <2>1. /\ x.subject \in Subjects /\ x.unresolvable \in Age
        /\ x.unresolvable # Zero /\ down[x.subject] \in Age
    BY DatedTypes DEF Dated, DatedRecords, Typed, TypeOK
  <2>2. CASE x.subject \in crossed
    BY <1>1, <2>2, TickDates DEF Truthful
  <2>3. CASE down[x.subject] >= x.unresolvable
    BY <1>1, <2>1, <2>3, TickDates, AgeLemma DEF Truthful
  <2> QED BY <1>1, <2>2, <2>3 DEF Truthful
<1>2. Pending \subseteq Pending'
  <2>1. /\ Messages(db) \subseteq DbEvent /\ results \subseteq DbEvent
        /\ results' = {OlderEvent(e) : e \in results}
        /\ Messages(db') = {OlderEvent(e) : e \in Messages(db)}
    BY QueueTypes, TickEffect DEF Tick, Typed, TypeOK, DbEvent
  <2>2. ASSUME NEW r \in results \cup Messages(db), r.cmd = "subj.update.status",
               r.unresolvable = Zero
        PROVE  /\ OlderEvent(r) \in results' \cup Messages(db')
               /\ OlderEvent(r).cmd = "subj.update.status"
               /\ OlderEvent(r).unresolvable = Zero
               /\ OlderEvent(r).subject = r.subject
    <3>1. r \in StatusEvent
      BY <2>1, <2>2, CommandLemma
    <3> QED BY <2>1, <2>2, <3>1, OlderEventLemma, AgeLemma DEF Older
  <2> QED BY <2>2 DEF Pending, Recovering
<1>3. ASSUME NEW y \in Dated' PROVE Truthful(y)'
  BY <1>1, <1>3, TickDates DEF DownSince
<1>4. ASSUME NEW y \in DatedRecords' PROVE (y.subject \in Pending \/ Truthful(y))'
  BY <1>1, <1>2, <1>4, TickDates DEF DownSince
<1> QED BY <1>3, <1>4 DEF DownSince

(* Nor is a subject given up that a check has seen resolve since, unless   *)
(* the result was lost, went to another record of that name, or a second   *)
(* check of the name had read the old date: there is no other way, with    *)
(* any number of scans, records and failures.                              *)
THEOREM GivenUpIsDownHolds == Spec => GivenUpIsDown
<1>1. Init => DownSince
  <2> SUFFICES ASSUME Init PROVE DownSince
    OBVIOUS
  <2>1. Dated = {} /\ DatedRecords = {}
    BY EmptyQueueLemma DEF Init, Dated, DatedRecords, Events
  <2> QED BY <2>1 DEF DownSince
<1>2. Typed /\ DownSince /\ [Next]_vars => DownSince'
  <2> SUFFICES ASSUME Typed, DownSince, [Next]_vars PROVE DownSince'
    OBVIOUS
  <2>1. CASE UNCHANGED vars
    BY <2>1 DEF vars, environment, checker, history, bounds, DownSince, Dated,
                DatedRecords, Events, Pending, Recovering, Truthful
  <2> QED BY <2>1, DownSinceTick, DownSinceResolves, DownSinceOther DEF Next
<1>3. Typed /\ DownSince /\ [Next]_vars =>
         \A e \in running : GivesUp(e) => \/ down[e.subject] > 2 * RevokeHours
                                          \/ e.subject \in crossed
  <2> SUFFICES ASSUME Typed, DownSince, [Next]_vars, NEW e \in running, GivesUp(e)
               PROVE  \/ down[e.subject] > 2 * RevokeHours
                      \/ e.subject \in crossed
    OBVIOUS
  <2>1. /\ e \in Dated /\ e.subject \in Subjects
        /\ e.unresolvable \in Int /\ e.unresolvable > 2 * RevokeHours
    BY GivesUpLemma, GivenUpDate
  <2>2. /\ down[e.subject] \in Int
        /\ e.subject \in crossed \/ down[e.subject] >= e.unresolvable
    BY <2>1, AgeLemma DEF DownSince, Truthful, Typed, TypeOK
  <2> QED BY <2>1, <2>2, HostCheckAssumption
<1> QED BY <1>1, <1>2, <1>3, AlwaysTyped, PTL DEF Spec, GivenUpIsDown
=============================================================================
