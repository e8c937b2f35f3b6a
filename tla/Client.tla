-------------------------------- MODULE Client -------------------------------
(***************************************************************************)
(* One host that fetches its certificates with londo-client: the token     *)
(* file it must renew before it expires, the pair of files it keeps for    *)
(* each subject, and the runs of londo-client that write them, one step    *)
(* after the other and side by side.  A token is good for one address and  *)
(* for Life ticks of the clock; the collection changes meanwhile.          *)
(*                                                                         *)
(* A certificate and a key are known by the id of the record they were     *)
(* stored in (module Lifecycle shows that these two belong together).      *)
(***************************************************************************)
EXTENDS SequencesExt, Integers

CONSTANTS
    Subjects,    \* host names
    Addrs,       \* addresses the host may have
    NoToken,     \* what an absent or empty token file holds
    GetJobs,     \* jobs of the host that run "get", ...
    UpdateJobs,  \* ... and "get -u"
    Life,        \* lifetime of a token, 48 hours, in ticks
    RunEvery,    \* the host starts each job once in so many ticks at least
    MaxRecords,  \* bound: records that come to name the host, one less if
                 \* the clock ticks
    MaxFaults    \* bound: failures in one behaviour

ASSUME ClientAssumption ==
    /\ NoToken \notin [sub : Addrs, age : Nat]
    /\ Life \in Nat
    /\ RunEvery \in Nat
    /\ MaxRecords \in Nat
    /\ MaxFaults \in Nat

Jobs == GetJobs \cup UpdateJobs

(* A token outlives the runs of its job, the failing ones too. *)
ASSUME RunsOftenEnough == Jobs # {} /\ (MaxFaults + 2) * RunEvery <= Life

VARIABLES
    addr,      \* the host's address
    token,     \* its token file
    crt, key,  \* its .crt and .key file of each subject, 0 if empty or none
    records,   \* the records that name this host
    job,       \* the runs of londo-client
    lost,      \* history: a failure took the token, or its address, away
    torn,      \* history: subjects whose pair was left half written
    timed,     \* bound: the clock ticks and the host moves, or neither does
    named, faults

files == <<crt, key>>
bounds == <<timed, named, faults>>
vars == <<addr, token, files, records, job, lost, torn, bounds>>
-----------------------------------------------------------------------------
(* Tokens: the address they were issued for and their age, which is not    *)
(* told apart once it is too old.                                          *)
TooOld == Life + 1
Token == [sub : Addrs, age : 0 .. TooOld] \cup {NoToken}

IssueJWT(sub) == [sub |-> sub, age |-> 0]

(* Mutant: refused in its last tick. *)
VerifyEarly(t) == t # NoToken /\ t.age < Life

(* The validator refuses a token after its date, not on it. *)
VerifyJWT(t) == t # NoToken /\ t.age <= Life

(* Every method asks this first, GetToken too.  Callers on ::1 need no     *)
(* token; a host that fetches over the network is not one of them.         *)
AuthIntercept(t) == VerifyJWT(t) /\ t.sub = addr

Older(t) ==
    IF t = NoToken \/ t.age = TooOld THEN t ELSE [t EXCEPT !.age = @ + 1]
-----------------------------------------------------------------------------
(* A record and the array that is this host's address: its targets, or the *)
(* outdated ones.                                                          *)
Listings == {"targets", "outdated"}
Record == [id : 1 .. MaxRecords, subject : Subjects, cert : 0 .. MaxRecords,
           listed : Listings]

(* The records of a call by target: its request says which array to ask.   *)
ForTarget(j) ==
    LET filter == IF j \in UpdateJobs THEN "outdated" ELSE "targets" IN
    {rec \in records : rec.listed = filter}

Run == [pc : {"idle", "update", "write", "fetch", "crt", "key"},
        token : Token, todo : Seq(Record), clock : 0 .. RunEvery]

Ended(j) ==
    job' = [job EXCEPT ![j].pc = "idle", ![j].token = NoToken,
                       ![j].todo = <<>>]

Init ==
    /\ addr \in Addrs
    /\ token = IssueJWT(addr)
    /\ crt = [s \in Subjects |-> 0]
    /\ key = [s \in Subjects |-> 0]
    /\ records = {}
    /\ job = [j \in Jobs |-> [pc |-> "idle", token |-> NoToken, todo |-> <<>>,
                              clock |-> 0]]
    /\ lost = FALSE
    /\ torn = {}
    /\ timed \in BOOLEAN
    /\ named = 0 /\ faults = 0

Fault ==
    /\ faults < MaxFaults
    /\ faults' = faults + 1
-----------------------------------------------------------------------------
(* londo-client.  A run reads the token file, whatever comes of it.  (The  *)
(* command "update" alone does not, hence is always refused.)              *)
Start(j) ==
    /\ job[j].pc = "idle"
    /\ job' = [job EXCEPT ![j].pc = "update", ![j].token = token,
                          ![j].clock = 0]
    /\ UNCHANGED <<addr, token, files, records, lost, torn, bounds>>

(* Mutant: the old token is handed back. *)
KeepToken(j) ==
    /\ job[j].pc = "update" /\ AuthIntercept(job[j].token)
    /\ token' = NoToken
    /\ job' = [job EXCEPT ![j].pc = "write"]
    /\ UNCHANGED <<addr, files, records, lost, torn, bounds>>

(* The answer of GetToken is here, and the old token file is removed. *)
GetToken(j) ==
    /\ job[j].pc = "update" /\ AuthIntercept(job[j].token)
    /\ token' = NoToken
    /\ job' = [job EXCEPT ![j].pc = "write", ![j].token = IssueJWT(addr)]
    /\ UNCHANGED <<addr, files, records, lost, torn, bounds>>

(* log.Fatal *)
Refused(j) ==
    /\ job[j].pc \in {"update", "fetch"} /\ ~AuthIntercept(job[j].token)
    /\ Ended(j)
    /\ UNCHANGED <<addr, token, files, records, lost, torn, bounds>>

SaveToken(j) ==
    /\ job[j].pc = "write"
    /\ token' = job[j].token
    /\ lost' = (job[j].token.sub # addr)
    /\ job' = [job EXCEPT ![j].pc = "fetch"]
    /\ UNCHANGED <<addr, files, records, torn, bounds>>

(* Another run has created the file since, for its owner to read only. *)
SaveTokenDenied(j) ==
    /\ job[j].pc = "write" /\ token # NoToken
    /\ Ended(j)
    /\ UNCHANGED <<addr, token, files, records, lost, torn, bounds>>

(* GetSubjectForTarget: one query, whose records arrive in no fixed order. *)
(* The run has no more use for its token.                                  *)
Fetch(j) ==
    /\ job[j].pc = "fetch" /\ AuthIntercept(job[j].token)
    /\ ForTarget(j) # {}
    /\ \E recs \in SetToSeqs(ForTarget(j)) :
          job' = [job EXCEPT ![j].pc = "crt", ![j].token = NoToken,
                             ![j].todo = recs]
    /\ UNCHANGED <<addr, token, files, records, lost, torn, bounds>>

(* Mutant: an empty answer is no error, and the client waits for records. *)
FetchNoneWaits(j) ==
    /\ job[j].pc = "fetch" /\ AuthIntercept(job[j].token)
    /\ ForTarget(j) = {}
    /\ job' = [job EXCEPT ![j].pc = "crt"]
    /\ UNCHANGED <<addr, token, files, records, lost, torn, bounds>>

FetchNone(j) ==
    /\ job[j].pc = "fetch" /\ AuthIntercept(job[j].token)
    /\ ForTarget(j) = {}
    /\ Ended(j)
    /\ UNCHANGED <<addr, token, files, records, lost, torn, bounds>>

Saving(j) == Head(job[j].todo)

(* The records other runs have saved the certificate of, but not the key. *)
HalfSaved(j, s) ==
    {Saving(i).id : i \in {i \in Jobs \ {j} :
                              job[i].pc = "key" /\ Saving(i).subject = s}}

SaveCrt(j) ==
    /\ job[j].pc = "crt"
    /\ job' = [job EXCEPT ![j].pc = "key"]
    /\ LET rec == Saving(j)  s == rec.subject IN
       /\ crt' = [crt EXCEPT ![s] = rec.cert]
       /\ torn' = IF HalfSaved(j, s) \subseteq {rec.id} THEN torn \ {s}
                  ELSE torn \cup {s}
    /\ UNCHANGED <<addr, token, key, records, lost, bounds>>

NextRecord(j) ==
    LET rest == Tail(job[j].todo) IN
    IF rest = <<>> THEN Ended(j)
    ELSE job' = [job EXCEPT ![j].pc = "crt", ![j].todo = rest]

(* Mutant: a key file that is there is left alone. *)
SaveKeyOnce(j) ==
    /\ job[j].pc = "key"
    /\ key' = [key EXCEPT ![Saving(j).subject] =
                  IF @ = 0 THEN Saving(j).id ELSE @]
    /\ NextRecord(j)
    /\ UNCHANGED <<addr, token, crt, records, lost, torn, bounds>>

SaveKey(j) ==
    /\ job[j].pc = "key"
    /\ key' = [key EXCEPT ![Saving(j).subject] = Saving(j).id]
    /\ NextRecord(j)
    /\ UNCHANGED <<addr, token, crt, records, lost, torn, bounds>>

(* The run ends before its time: it is killed, the server does not answer, *)
(* the disk is full.  A file it was writing may be left empty, and a token *)
(* file it had removed stays away.                                         *)
Stops(j) ==
    /\ job[j].pc # "idle"
    /\ Fault
    /\ Ended(j)
    /\ lost' = (lost \/ job[j].pc = "write")
    /\ \/ UNCHANGED crt
       \/ job[j].pc = "crt" /\ crt' = [crt EXCEPT ![Saving(j).subject] = 0]
    /\ IF job[j].pc = "key"
       THEN /\ torn' = torn \cup {Saving(j).subject}
            /\ \/ UNCHANGED key
               \/ key' = [key EXCEPT ![Saving(j).subject] = 0]
       ELSE UNCHANGED <<key, torn>>
    /\ UNCHANGED <<addr, token, records, timed, named>>

ClientStep(j) ==
    \/ GetToken(j) \/ Refused(j) \/ SaveToken(j) \/ SaveTokenDenied(j)
    \/ Fetch(j) \/ FetchNone(j) \/ SaveCrt(j) \/ SaveKey(j)
-----------------------------------------------------------------------------
(* londo-admin token: the operator finds the host refused and puts a token *)
(* into its file, while no run is about to, for the address they think it  *)
(* has.                                                                    *)
IssueToken ==
    /\ ~AuthIntercept(token)
    /\ \A j \in Jobs : job[j].pc = "idle"
    /\ \E sub \in Addrs :
          token' = IssueJWT(sub) /\ lost' = (sub # addr)
    /\ UNCHANGED <<addr, files, records, job, torn, bounds>>

(* What the daemons do to the records, for which see Lifecycle and         *)
(* HostCheck.  A record comes to name this host: it has been inserted, for *)
(* the targets of the one it renews, or a check has found the host.        *)
Named(s) ==
    /\ named < IF timed THEN MaxRecords - 1 ELSE MaxRecords
    /\ named' = named + 1
    /\ \E l \in Listings, c \in {0, named + 1} :
          records' = records \cup
              {[id |-> named + 1, subject |-> s, cert |-> c, listed |-> l]}
    /\ UNCHANGED <<addr, token, files, job, lost, torn, timed, faults>>

Replace(rec, new) ==
    /\ records' = (records \ {rec}) \cup new
    /\ UNCHANGED <<addr, token, files, job, lost, torn, bounds>>

UpdateSubjCert(rec) ==
    rec.cert = 0 /\ Replace(rec, {[rec EXCEPT !.cert = rec.id]})

(* A check has found another certificate, or this one, on the host. *)
UpdateUnreachable(rec) ==
    \E l \in Listings \ {rec.listed} : Replace(rec, {[rec EXCEPT !.listed = l]})

(* The record is deleted, or names other hosts too, or none. *)
Unnamed(rec) == Replace(rec, {})

(* The host gets another address, which other records name. *)
Moves ==
    /\ timed /\ Fault
    /\ addr' \in Addrs \ {addr}
    /\ records' = {}
    /\ lost' = TRUE
    /\ UNCHANGED <<token, files, job, torn, timed, named>>

(* Every job is started again at least every RunEvery ticks, and what was  *)
(* started before is over by then.                                         *)
Tick ==
    /\ timed
    /\ \A j \in Jobs : job[j].clock < RunEvery
    /\ job' = [j \in Jobs |-> [job[j] EXCEPT !.token = Older(@),
                                            !.clock = @ + 1]]
    /\ token' = Older(token)
    /\ UNCHANGED <<addr, files, records, lost, torn, bounds>>

EnvironmentNext ==
    \/ IssueToken \/ Moves \/ Tick
    \/ \E s \in Subjects : Named(s)
    \/ \E rec \in records :
          UpdateSubjCert(rec) \/ UpdateUnreachable(rec) \/ Unnamed(rec)

Next ==
    \/ \E j \in Jobs : Start(j) \/ ClientStep(j) \/ Stops(j)
    \/ EnvironmentNext

Spec == Init /\ [][Next]_vars

(* The host starts its jobs again and again, and what was started goes on. *)
Fairness ==
    \A j \in Jobs : WF_vars(Start(j)) /\ WF_vars(ClientStep(j))

FairSpec == Spec /\ Fairness
-----------------------------------------------------------------------------
TypeOK ==
    /\ addr \in Addrs
    /\ token \in Token
    /\ crt \in [Subjects -> 0 .. MaxRecords]
    /\ key \in [Subjects -> 0 .. MaxRecords]
    /\ records \subseteq Record
    /\ job \in [Jobs -> Run]
    /\ \A j \in Jobs : job[j].todo # <<>> <=> job[j].pc \in {"crt", "key"}
    /\ lost \in BOOLEAN
    /\ torn \subseteq Subjects
    /\ timed \in BOOLEAN
    /\ named \in 0 .. MaxRecords /\ faults \in 0 .. MaxFaults

(* A host that runs londo-client often enough is never locked out: its     *)
(* file holds a token it can renew, or a run is about to write one, unless *)
(* a run died between removing the file and writing it, or the host was    *)
(* given another address.  Runs that fail elsewhere do no harm.            *)
KeepsToken ==
    \/ lost
    \/ AuthIntercept(token)
    \/ \E j \in Jobs : job[j].pc = "write" /\ AuthIntercept(job[j].token)

(* The key next to a certificate is that certificate's key, unless a run   *)
(* has just written the one and is about to write the other, died or       *)
(* failed there, or another run wrote another record's certificate there:  *)
(* these are the only ways, and the next undisturbed run mends it.         *)
PairMatches ==
    \A s \in Subjects :
        \/ crt[s] \in {0, key[s]}
        \/ s \in torn
        \/ \E j \in Jobs : job[j].pc = "key" /\ Saving(j).subject = s

(* A subject whose one record names this host, and has its certificate,    *)
(* ends up on the host with its own key and stays there: whatever earlier  *)
(* runs wrote late, half, or before the certificate was collected, and     *)
(* however often the token has to be renewed until then.  Runs that meet   *)
(* again and again may keep each other from it: one finds the token file   *)
(* removed by the other, or written before it could.                       *)
Deployable(s) ==
    \E rec \in records :
        /\ {r \in records : r.subject = s} = {rec}
        /\ rec.cert # 0 /\ rec.listed = "targets"

Deployed(s) == \E rec \in records :
    rec.subject = s /\ crt[s] = rec.id /\ key[s] = rec.id

OneAtATime == \A i, j \in Jobs : i = j \/ "idle" \in {job[i].pc, job[j].pc}

FilesConverge ==
    \A s \in Subjects :
        <>[](Deployable(s) /\ ~lost /\ OneAtATime) => <>[]Deployed(s)
=============================================================================
