---------------------------- MODULE ClientProofs ----------------------------
(***************************************************************************)
(* Theorems about Client: type correctness, that a host keeps a token it   *)
(* can renew, and that a certificate lies next to its own key, for any     *)
(* number of jobs, subjects, records and failures.                         *)
(***************************************************************************)
EXTENDS Client, FiniteSetTheorems, SequenceTheorems, TLAPS

(* A record's certificate, if it has one, was issued for this record. *)
Good == {rec \in Record : rec.cert \in {0, rec.id}}

Typed ==
    /\ TypeOK
    /\ IsFiniteSet(records)
    /\ records \subseteq Good
    /\ \A j \in Jobs : job[j].todo \in Seq(Good)
-----------------------------------------------------------------------------
LEMMA InitTyped == Init => Typed
<1> SUFFICES ASSUME Init PROVE Typed
  OBVIOUS
<1>1. addr \in Addrs /\ token \in Token
  BY ClientAssumption DEF Init, Token, IssueJWT, TooOld
<1>2. job \in [Jobs -> Run] /\ \A j \in Jobs : job[j].todo = <<>>
  BY ClientAssumption DEF Init, Run, Token
<1>3. IsFiniteSet(records) /\ records \subseteq Good
  BY FS_EmptySet DEF Init
<1>4. \A j \in Jobs : job[j].pc = "idle"
  BY DEF Init
<1>5. <<>> \in Seq(Good)
  OBVIOUS
<1>6. crt \in [Subjects -> 0 .. MaxRecords] /\ key \in [Subjects -> 0 .. MaxRecords]
  BY ClientAssumption DEF Init
<1>7. named \in 0 .. MaxRecords /\ faults \in 0 .. MaxFaults
  BY ClientAssumption DEF Init
<1>8. records \subseteq Record /\ lost \in BOOLEAN /\ torn \subseteq Subjects
      /\ timed \in BOOLEAN
  BY DEF Init
<1> QED BY <1>1, <1>2, <1>3, <1>4, <1>5, <1>6, <1>7, <1>8 DEF Typed, TypeOK

(* Ageing keeps a token a token, and leaves its address alone. *)
LEMMA OlderLemma ==
    ASSUME NEW t \in Token
    PROVE  /\ Older(t) \in Token
           /\ Older(t) = NoToken <=> t = NoToken
           /\ t # NoToken => /\ Older(t).sub = t.sub
                            /\ Older(t).age \in {t.age, t.age + 1}
BY ClientAssumption DEF Older, Token, TooOld

LEMMA GoodLemma ==
    ASSUME NEW rec \in Good
    PROVE  /\ rec.subject \in Subjects
           /\ rec.id \in 0 .. MaxRecords
           /\ rec.cert \in 0 .. MaxRecords
           /\ rec.cert \in {0, rec.id}
BY DEF Good, Record

(* The first record of a run that is saving, and what is left after it. *)
LEMMA SavingLemma ==
    ASSUME Typed, NEW j \in Jobs, job[j].pc \in {"crt", "key"}
    PROVE  /\ Saving(j) \in Good
           /\ Tail(job[j].todo) \in Seq(Good)
<1>1. job[j].todo \in Seq(Good) /\ job[j].todo # <<>>
  BY DEF Typed, TypeOK
<1> QED BY <1>1, HeadTailProperties DEF Saving

(* What the answer to a call may list. *)
LEMMA FetchLemma ==
    ASSUME Typed, NEW j \in Jobs, ForTarget(j) # {},
           NEW recs \in SetToSeqs(ForTarget(j))
    PROVE  recs \in Seq(Good) /\ recs # <<>>
<1> DEFINE S == ForTarget(j)
<1>1. S \subseteq Good /\ IsFiniteSet(S)
  BY FS_Subset DEF Typed, ForTarget
<1>2. Cardinality(S) \in Nat /\ Cardinality(S) # 0
  BY <1>1, FS_CardinalityType, FS_EmptySet
<1>3. recs \in [1 .. Cardinality(S) -> S]
  BY DEF SetToSeqs
<1>4. recs \in Seq(Good)
  BY <1>1, <1>2, <1>3
<1>5. recs # <<>>
  BY <1>2, <1>3
<1> QED BY <1>4, <1>5

(* A run of londo-client that changes one job and nothing records hold. *)
LEMMA JobLemma ==
    ASSUME Typed, NEW j \in Jobs, NEW r \in Run, r.todo \in Seq(Good),
           r.todo # <<>> <=> r.pc \in {"crt", "key"},
           job' = [job EXCEPT ![j] = r]
    PROVE  /\ job' \in [Jobs -> Run]
           /\ \A i \in Jobs : job'[i].todo # <<>> <=> job'[i].pc \in {"crt", "key"}
           /\ \A i \in Jobs : job'[i].todo \in Seq(Good)
BY DEF Typed, TypeOK
-----------------------------------------------------------------------------
LEMMA TypedStep == Typed /\ [Next]_vars => Typed'
<1> SUFFICES ASSUME Typed, [Next]_vars PROVE Typed'
  OBVIOUS
<1> USE ClientAssumption
<1>0. /\ TypeOK /\ NoToken \in Token /\ token \in Token
      /\ <<>> \in Seq(Good) /\ <<>> \in Seq(Record) /\ 0 \in 0 .. RunEvery
      /\ \A i \in Jobs : job[i] \in Run
  BY DEF Typed, TypeOK, Token
<1>1. ASSUME NEW j \in Jobs, Start(j) PROVE Typed'
  <2>1. [job[j] EXCEPT !.pc = "update", !.token = token, !.clock = 0] \in Run
    BY <1>0 DEF Run
  <2>2. job[j].todo = <<>>
    BY <1>1 DEF Start, Typed, TypeOK
  <2> QED BY <1>1, <2>1, <2>2, JobLemma DEF Start, Typed, TypeOK, files, bounds, Run
<1>2. ASSUME NEW j \in Jobs, GetToken(j) PROVE Typed'
  <2>1. IssueJWT(addr) \in Token
    BY DEF IssueJWT, Token, TooOld, Typed, TypeOK
  <2>2. [job[j] EXCEPT !.pc = "write", !.token = IssueJWT(addr)] \in Run
    BY <1>0, <2>1 DEF Run
  <2>3. job[j].todo = <<>>
    BY <1>2 DEF GetToken, Typed, TypeOK
  <2> QED BY <1>0, <1>2, <2>2, <2>3, JobLemma
          DEF GetToken, Typed, TypeOK, files, bounds, Run
<1>3. ASSUME NEW j \in Jobs, Ended(j)
      PROVE  /\ job' \in [Jobs -> Run]
             /\ \A i \in Jobs : job'[i].todo # <<>> <=> job'[i].pc \in {"crt", "key"}
             /\ \A i \in Jobs : job'[i].todo \in Seq(Good)
  <2> DEFINE r == [job[j] EXCEPT !.pc = "idle", !.token = NoToken, !.todo = <<>>]
  <2>1. r \in Run /\ r.todo = <<>> /\ r.pc = "idle"
    BY <1>0 DEF Run
  <2>2. job' = [job EXCEPT ![j] = r]
    BY <1>3 DEF Ended
  <2>3. r.todo \in Seq(Good) /\ (r.todo # <<>> <=> r.pc \in {"crt", "key"})
    BY <1>0, <2>1
  <2> HIDE DEF r
  <2> QED BY <2>1, <2>2, <2>3, JobLemma
<1>4. ASSUME NEW j \in Jobs, Refused(j) \/ SaveTokenDenied(j) \/ FetchNone(j)
      PROVE Typed'
  <2>1. Ended(j) /\ UNCHANGED <<addr, token, files, records, lost, torn, bounds>>
    BY <1>4 DEF Refused, SaveTokenDenied, FetchNone
  <2> QED BY <1>3, <2>1 DEF Typed, TypeOK, files, bounds
<1>5. ASSUME NEW j \in Jobs, SaveToken(j) PROVE Typed'
  <2>1. [job[j] EXCEPT !.pc = "fetch"] \in Run /\ job[j].token \in Token
    BY <1>0 DEF Run
  <2>2. job[j].todo = <<>>
    BY <1>5 DEF SaveToken, Typed, TypeOK
  <2> QED BY <1>5, <2>1, <2>2, JobLemma
          DEF SaveToken, Typed, TypeOK, files, bounds, Run
<1>6. ASSUME NEW j \in Jobs, Fetch(j) PROVE Typed'
  <2>1. PICK recs \in SetToSeqs(ForTarget(j)) :
           job' = [job EXCEPT ![j] =
                      [@ EXCEPT !.pc = "crt", !.token = NoToken, !.todo = recs]]
    BY <1>6 DEF Fetch
  <2>2. recs \in Seq(Good) /\ recs # <<>>
    BY <1>6, FetchLemma DEF Fetch
  <2>3. recs \in Seq(Record)
    BY <2>2 DEF Good
  <2>4. [job[j] EXCEPT !.pc = "crt", !.token = NoToken, !.todo = recs] \in Run
    BY <1>0, <2>3 DEF Run
  <2> QED BY <1>0, <1>6, <2>1, <2>2, <2>4, JobLemma
          DEF Fetch, Typed, TypeOK, files, bounds, Run
<1>7. ASSUME NEW j \in Jobs, SaveCrt(j) PROVE Typed'
  <2>1. [job[j] EXCEPT !.pc = "key"] \in Run
    BY <1>0 DEF Run
  <2>2. job[j].todo # <<>> /\ job[j].todo \in Seq(Good)
    BY <1>7 DEF SaveCrt, Typed, TypeOK
  <2>3. Saving(j).subject \in Subjects /\ Saving(j).cert \in 0 .. MaxRecords
    BY <1>7, SavingLemma, GoodLemma DEF SaveCrt
  <2>4. crt' \in [Subjects -> 0 .. MaxRecords] /\ torn' \subseteq Subjects
    BY <1>0, <1>7, <2>3 DEF SaveCrt, TypeOK
  <2> QED BY <1>7, <2>1, <2>2, <2>4, JobLemma
          DEF SaveCrt, Typed, TypeOK, files, bounds, Run
<1>8. ASSUME NEW j \in Jobs, SaveKey(j) PROVE Typed'
  <2>1. Saving(j).subject \in Subjects /\ Saving(j).id \in 0 .. MaxRecords
    BY <1>8, SavingLemma, GoodLemma DEF SaveKey
  <2>2. key' \in [Subjects -> 0 .. MaxRecords]
    BY <1>0, <1>8, <2>1 DEF SaveKey, TypeOK
  <2>3. CASE Tail(job[j].todo) = <<>>
    BY <1>3, <1>8, <2>2, <2>3 DEF SaveKey, NextRecord, Typed, TypeOK, files, bounds
  <2>4. CASE Tail(job[j].todo) # <<>>
    <3> DEFINE rest == Tail(job[j].todo)
    <3>1. rest \in Seq(Good)
      BY <1>8, SavingLemma DEF SaveKey
    <3>2. rest \in Seq(Record)
      BY <3>1 DEF Good
    <3> DEFINE r == [job[j] EXCEPT !.pc = "crt", !.todo = rest]
    <3>3. r \in Run /\ r.pc = "crt" /\ r.todo = rest
      BY <1>0, <3>2 DEF Run
    <3>4. job' = [job EXCEPT ![j] = r]
      BY <1>8, <2>4 DEF SaveKey, NextRecord
    <3> HIDE DEF r
    <3>5. /\ job' \in [Jobs -> Run]
          /\ \A i \in Jobs : job'[i].todo # <<>> <=> job'[i].pc \in {"crt", "key"}
          /\ \A i \in Jobs : job'[i].todo \in Seq(Good)
      BY <2>4, <3>1, <3>3, <3>4, JobLemma
    <3> QED BY <1>8, <2>2, <3>5 DEF SaveKey, Typed, TypeOK, files, bounds
  <2> QED BY <2>3, <2>4
<1>9. ASSUME Fault PROVE faults' \in 0 .. MaxFaults
  BY <1>9 DEF Fault, Typed, TypeOK
<1>10. ASSUME NEW j \in Jobs, Stops(j) PROVE Typed'
  <2>1. \/ job[j].pc \notin {"crt", "key"} /\ UNCHANGED <<crt, key, torn>>
        \/ /\ job[j].pc \in {"crt", "key"}
           /\ Saving(j).subject \in Subjects
           /\ crt' \in {crt, [crt EXCEPT ![Saving(j).subject] = 0]}
           /\ key' \in {key, [key EXCEPT ![Saving(j).subject] = 0]}
           /\ torn' \in {torn, torn \cup {Saving(j).subject}}
    BY <1>10, SavingLemma, GoodLemma DEF Stops
  <2>2. /\ crt' \in [Subjects -> 0 .. MaxRecords]
        /\ key' \in [Subjects -> 0 .. MaxRecords]
        /\ torn' \subseteq Subjects
    <3>1. 0 \in 0 .. MaxRecords
      OBVIOUS
    <3> QED BY <1>0, <2>1, <3>1 DEF TypeOK
  <2>3. lost' \in BOOLEAN
    BY <1>10 DEF Stops
  <2> QED BY <1>3, <1>9, <1>10, <2>2, <2>3 DEF Stops, Typed, TypeOK, bounds
<1>11. CASE IssueToken
  <2>1. token' \in Token /\ lost' \in BOOLEAN
    BY <1>11 DEF IssueToken, IssueJWT, Token, TooOld
  <2> QED BY <1>11, <2>1 DEF IssueToken, Typed, TypeOK, files, bounds
<1>12. ASSUME NEW s \in Subjects, Named(s) PROVE Typed'
  <2>1. named + 1 \in 1 .. MaxRecords
    BY <1>12 DEF Named, Typed, TypeOK
  <2>2. PICK l \in Listings, c \in {0, named + 1} :
           records' = records \cup
              {[id |-> named + 1, subject |-> s, cert |-> c, listed |-> l]}
    BY <1>12 DEF Named
  <2>3. [id |-> named + 1, subject |-> s, cert |-> c, listed |-> l] \in Good
    BY <2>1, <2>2 DEF Good, Record
  <2>4. IsFiniteSet(records') /\ records' \subseteq Good
    BY <2>2, <2>3, FS_AddElement DEF Typed
  <2> QED BY <1>12, <2>1, <2>4 DEF Named, Typed, TypeOK, files, Good
<1>13. ASSUME NEW rec, NEW new, Replace(rec, new), new \subseteq Good,
              IsFiniteSet(new)
       PROVE Typed'
  <2>1. IsFiniteSet(records') /\ records' \subseteq Good
    BY <1>13, FS_Difference, FS_Union DEF Typed, Replace
  <2> QED BY <1>13, <2>1 DEF Replace, Typed, TypeOK, files, bounds, Good
<1>14. ASSUME NEW rec \in records,
              UpdateSubjCert(rec) \/ UpdateUnreachable(rec) \/ Unnamed(rec)
       PROVE Typed'
  <2>1. rec \in Good /\ IsFiniteSet({})
    BY FS_EmptySet DEF Typed
  <2>2. ASSUME NEW new \in Good PROVE {new} \subseteq Good /\ IsFiniteSet({new})
    BY FS_Singleton
  <2>3. CASE UpdateSubjCert(rec)
    <3>1. [rec EXCEPT !.cert = rec.id] \in Good
      BY <2>1 DEF Good, Record
    <3> QED BY <1>13, <2>2, <2>3, <3>1 DEF UpdateSubjCert
  <2>4. CASE UpdateUnreachable(rec)
    <3>1. PICK l \in Listings : Replace(rec, {[rec EXCEPT !.listed = l]})
      BY <2>4 DEF UpdateUnreachable
    <3>2. [rec EXCEPT !.listed = l] \in Good
      BY <2>1 DEF Good, Record
    <3> QED BY <1>13, <2>2, <3>1, <3>2
  <2>5. CASE Unnamed(rec)
    BY <1>13, <2>1, <2>5 DEF Unnamed
  <2> QED BY <1>14, <2>3, <2>4, <2>5
<1>15. CASE Moves
  <2>1. IsFiniteSet(records') /\ records' = {}
    BY <1>15, FS_EmptySet DEF Moves
  <2> QED BY <1>9, <1>15, <2>1 DEF Moves, Typed, TypeOK, files
<1>16. CASE Tick
  <2>1. ASSUME NEW i \in Jobs
        PROVE  /\ job'[i] \in Run
               /\ job'[i].todo = job[i].todo
               /\ job'[i].pc = job[i].pc
    <3>1. job[i].token \in Token /\ job[i].clock \in 0 .. RunEvery
      BY <1>0 DEF Run
    <3>2. Older(job[i].token) \in Token
      BY <3>1, OlderLemma
    <3>3. job[i].clock < RunEvery
      BY <1>16, Zenon DEF Tick
    <3>4. job[i].clock + 1 \in 0 .. RunEvery
      BY <3>1, <3>3
    <3> QED BY <1>0, <1>16, <3>2, <3>4 DEF Tick, Run
  <2>2. job' \in [Jobs -> Run] /\ token' \in Token
    BY <1>0, <1>16, <2>1, OlderLemma DEF Tick, TypeOK
  <2> QED BY <1>16, <2>1, <2>2 DEF Tick, Typed, TypeOK, files, bounds
<1>17. CASE UNCHANGED vars
  BY <1>17 DEF vars, Typed, TypeOK, files, bounds, Good, Record, Run
<1> QED BY <1>1, <1>2, <1>4, <1>5, <1>6, <1>7, <1>8, <1>10, <1>11, <1>12,
           <1>14, <1>15, <1>16, <1>17
        DEF Next, ClientStep, EnvironmentNext

(* Type correctness, and that a record, wherever a run has got it to, has  *)
(* its own certificate or none.                                            *)
THEOREM AlwaysTyped == Spec => []Typed
BY InitTyped, TypedStep, PTL DEF Spec

(* Type correctness of Client.                                             *)
THEOREM ClientTypeCorrect == Spec => []TypeOK
BY AlwaysTyped, PTL DEF Typed
-----------------------------------------------------------------------------
(* Pairs of files.  Between a pair's two writes the certificate is already *)
(* that of every record whose key is still to be written.                  *)
Writers(s) == {j \in Jobs : job[j].pc = "key" /\ Saving(j).subject = s}

PairOf(s) ==
    /\ \A j \in Writers(s) : crt[s] \in {0, Saving(j).id}
    /\ Writers(s) = {} => crt[s] \in {0, key[s]}

PairInv == \A s \in Subjects : s \in torn \/ PairOf(s)

(* Steps that write no file and start or end no writing of a key. *)
LEMMA PairQuiet ==
    ASSUME PairInv, UNCHANGED <<crt, key, torn>>,
           \A i \in Jobs : \/ /\ job[i].pc = "key" /\ job'[i].pc = "key"
                              /\ job'[i].todo = job[i].todo
                           \/ job[i].pc # "key" /\ job'[i].pc # "key"
    PROVE  PairInv'
<1>1. ASSUME NEW s PROVE Writers(s)' = Writers(s)
  BY DEF Writers, Saving
<1>2. \A s : \A j \in Writers(s) : Saving(j)' = Saving(j)
  BY DEF Writers, Saving
<1> QED BY <1>1, <1>2 DEF PairInv, PairOf

LEMMA PairSaveCrt ==
    ASSUME Typed, PairInv, NEW j \in Jobs, SaveCrt(j)
    PROVE  PairInv'
<1> DEFINE rec == Saving(j)
<1>1. rec.subject \in Subjects /\ rec.cert \in {0, rec.id}
  BY SavingLemma, GoodLemma DEF SaveCrt
<1>2. /\ crt \in [Subjects -> 0 .. MaxRecords] /\ job \in [Jobs -> Run]
      /\ crt' = [crt EXCEPT ![rec.subject] = rec.cert]
      /\ torn' = IF HalfSaved(j, rec.subject) \subseteq {rec.id}
                 THEN torn \ {rec.subject} ELSE torn \cup {rec.subject}
      /\ key' = key
  BY DEF SaveCrt, Typed, TypeOK
<1>3. /\ job'[j].pc = "key" /\ job'[j].todo = job[j].todo
      /\ \A i \in Jobs \ {j} : job'[i] = job[i]
  BY <1>2 DEF SaveCrt, Run
<1>4. \A i \in Jobs : Saving(i)' = Saving(i)
  BY <1>3 DEF Saving
<1>5. ASSUME NEW s \in Subjects, s # rec.subject PROVE (s \in torn \/ PairOf(s))'
  <2>1. Writers(s)' = Writers(s)
    BY <1>3, <1>4, <1>5 DEF Writers, SaveCrt
  <2>2. crt'[s] = crt[s] /\ (s \in torn' <=> s \in torn)
    BY <1>2, <1>5
  <2>3. \A i \in Writers(s) : Saving(i)' = Saving(i)
    BY <1>4 DEF Writers
  <2> QED BY <1>2, <2>1, <2>2, <2>3 DEF PairInv, PairOf
<1>6. (rec.subject \in torn \/ PairOf(rec.subject))'
  <2> DEFINE s == rec.subject
  <2>1. CASE HalfSaved(j, s) \subseteq {rec.id}
    <3>1. \A i \in Jobs : i \in Writers(s)' => Saving(i)'.id = rec.id
      BY <1>3, <1>4, <2>1 DEF Writers, HalfSaved
    <3>2. j \in Writers(s)'
      BY <1>3, <1>4 DEF Writers
    <3>3. crt'[s] \in {0, rec.id}
      BY <1>1, <1>2
    <3>4. Writers(s)' \subseteq Jobs
      BY DEF Writers
    <3>5. rec' = rec
      BY <1>4
    <3> QED BY <3>1, <3>2, <3>3, <3>4, <3>5 DEF PairOf
  <2>2. CASE ~(HalfSaved(j, s) \subseteq {rec.id})
    BY <1>2, <1>4, <2>2
  <2> QED BY <2>1, <2>2
<1>7. rec' = rec
  BY <1>4
<1> HIDE DEF rec
<1> QED BY <1>5, <1>6, <1>7 DEF PairInv

LEMMA PairSaveKey ==
    ASSUME Typed, PairInv, NEW j \in Jobs, SaveKey(j)
    PROVE  PairInv'
<1>1. /\ Saving(j).subject \in Subjects /\ key \in [Subjects -> 0 .. MaxRecords]
      /\ job \in [Jobs -> Run] /\ job[j].pc = "key"
      /\ key' = [key EXCEPT ![Saving(j).subject] = Saving(j).id]
      /\ crt' = crt /\ torn' = torn
  BY SavingLemma, GoodLemma DEF SaveKey, Typed, TypeOK
<1>2. job'[j].pc # "key" /\ \A i \in Jobs \ {j} : job'[i] = job[i]
  BY <1>1 DEF SaveKey, NextRecord, Ended, Run
<1>3. ASSUME NEW s PROVE Writers(s)' = Writers(s) \ {j}
  BY <1>2 DEF Writers, Saving
<1>4. \A i \in Jobs \ {j} : Saving(i)' = Saving(i)
  BY <1>2 DEF Saving
<1>5. ASSUME NEW s \in Subjects, s \notin torn PROVE PairOf(s)'
  <2>1. PairOf(s)
    BY <1>5 DEF PairInv
  <2>2. CASE s = Saving(j).subject
    <3>1. crt[s] \in {0, Saving(j).id} /\ key'[s] = Saving(j).id
      BY <1>1, <2>1, <2>2 DEF PairOf, Writers
    <3> QED BY <1>1, <1>3, <1>4, <2>1, <3>1 DEF PairOf, Writers
  <2>3. CASE s # Saving(j).subject
    <3>1. j \notin Writers(s) /\ key'[s] = key[s]
      BY <1>1, <2>3 DEF Writers
    <3> QED BY <1>1, <1>3, <1>4, <2>1, <3>1 DEF PairOf, Writers
  <2> QED BY <2>2, <2>3
<1> QED BY <1>1, <1>5 DEF PairInv

LEMMA PairStops ==
    ASSUME Typed, PairInv, NEW j \in Jobs, Stops(j)
    PROVE  PairInv'
<1>1. /\ crt \in [Subjects -> 0 .. MaxRecords] /\ job \in [Jobs -> Run]
      /\ key \in [Subjects -> 0 .. MaxRecords]
  BY DEF Typed, TypeOK
<1>2. job'[j].pc = "idle" /\ \A i \in Jobs \ {j} : job'[i] = job[i]
  BY <1>1 DEF Stops, Ended, Run
<1>3. \A i \in Jobs \ {j} : Saving(i)' = Saving(i)
  BY <1>2 DEF Saving
<1>4. CASE job[j].pc = "key"
  <2>1. /\ Saving(j).subject \in Subjects
        /\ torn' = torn \cup {Saving(j).subject} /\ crt' = crt
        /\ key' \in {key, [key EXCEPT ![Saving(j).subject] = 0]}
    BY <1>4, SavingLemma, GoodLemma DEF Stops
  <2>2. ASSUME NEW s \in Subjects, s \notin torn' PROVE PairOf(s)'
    <3>1. s # Saving(j).subject /\ PairOf(s) /\ key'[s] = key[s]
      BY <1>1, <2>1, <2>2 DEF PairInv
    <3>2. Writers(s)' = Writers(s) /\ j \notin Writers(s)
      BY <1>2, <1>3, <3>1 DEF Writers
    <3> QED BY <1>3, <2>1, <3>1, <3>2 DEF PairOf, Writers
  <2> QED BY <2>2 DEF PairInv
<1>5. CASE job[j].pc # "key"
  <2>1. key' = key /\ torn' = torn
    BY <1>5 DEF Stops
  <2>2. \/ crt' = crt
        \/ Saving(j).subject \in Subjects /\ crt' = [crt EXCEPT ![Saving(j).subject] = 0]
    BY SavingLemma, GoodLemma DEF Stops
  <2>3. ASSUME NEW s \in Subjects, s \notin torn PROVE PairOf(s)'
    <3>1. PairOf(s) /\ crt'[s] \in {0, crt[s]}
      BY <1>1, <2>2, <2>3 DEF PairInv
    <3>2. Writers(s)' = Writers(s) /\ j \notin Writers(s)
      BY <1>2, <1>3, <1>5 DEF Writers
    <3> QED BY <1>3, <2>1, <3>1, <3>2 DEF PairOf, Writers
  <2> QED BY <2>1, <2>3 DEF PairInv
<1> QED BY <1>4, <1>5

LEMMA PairStep == Typed /\ PairInv /\ [Next]_vars => PairInv'
<1> SUFFICES ASSUME Typed, PairInv, [Next]_vars PROVE PairInv'
  OBVIOUS
<1>1. job \in [Jobs -> Run]
  BY DEF Typed, TypeOK
<1>2. ASSUME NEW j \in Jobs,
             \/ Start(j) \/ GetToken(j) \/ Refused(j) \/ SaveToken(j)
             \/ SaveTokenDenied(j) \/ Fetch(j) \/ FetchNone(j)
      PROVE PairInv'
  <2>1. /\ job[j].pc # "key" /\ job'[j].pc # "key"
        /\ \A i \in Jobs \ {j} : job'[i] = job[i]
    BY <1>1, <1>2 DEF Start, GetToken, Refused, SaveToken, SaveTokenDenied,
                      Fetch, FetchNone, Ended, Run
  <2>2. UNCHANGED <<crt, key, torn>>
    BY <1>2 DEF Start, GetToken, Refused, SaveToken, SaveTokenDenied,
                Fetch, FetchNone, files
  <2>3. \A i \in Jobs : \/ /\ job[i].pc = "key" /\ job'[i].pc = "key"
                           /\ job'[i].todo = job[i].todo
                        \/ job[i].pc # "key" /\ job'[i].pc # "key"
    BY <2>1
  <2> QED BY <2>2, <2>3, PairQuiet
<1>3. CASE Tick
  <2>1. \A i \in Jobs : job'[i].pc = job[i].pc /\ job'[i].todo = job[i].todo
    BY <1>1, <1>3 DEF Tick, Run
  <2>2. UNCHANGED <<crt, key, torn>>
    BY <1>3 DEF Tick, files
  <2> QED BY <2>1, <2>2, PairQuiet
<1>4. CASE EnvironmentNext /\ ~Tick
  <2>1. UNCHANGED <<crt, key, torn, job>>
    BY <1>4 DEF EnvironmentNext, IssueToken, Moves, Named, UpdateSubjCert,
                UpdateUnreachable, Unnamed, Replace, files
  <2> QED BY <2>1, PairQuiet
<1>5. CASE UNCHANGED vars
  <2>1. UNCHANGED <<crt, key, torn, job>>
    BY <1>5 DEF vars, files
  <2> QED BY <2>1, PairQuiet
<1> QED BY <1>2, <1>3, <1>4, <1>5, PairSaveCrt, PairSaveKey, PairStops
        DEF Next, ClientStep

(* A certificate lies next to its own key, unless a run stands between its *)
(* two writes, ended there, or met a run that saved another record.        *)
THEOREM PairMatchesHolds == Spec => []PairMatches
<1>1. Init => PairInv
  BY DEF Init, PairInv, PairOf, Writers
<1>2. PairInv => PairMatches
  BY DEF PairInv, PairOf, PairMatches, Writers
<1> QED BY <1>1, <1>2, PairStep, AlwaysTyped, PTL DEF Spec
-----------------------------------------------------------------------------
(* Tokens.  A token in the file is no older than the run of the job that   *)
(* will renew it allows: a fault may cost that job a run, and while it has *)
(* read the token and not used it, one run more has begun.                 *)
Allowed(f) == f * RunEvery

Owner(j) ==
    \/ token.age <= Allowed(faults) + job[j].clock
    \/ /\ job[j].pc = "update"
       /\ job[j].token # NoToken /\ job[j].token.sub = addr
       /\ job[j].token.age <= Allowed(faults + 1) + job[j].clock
       /\ token.age <= Allowed(faults + 1) + job[j].clock

WritesFresh ==
    \A j \in Jobs :
        job[j].pc = "write" =>
            job[j].token # NoToken /\ job[j].token.age <= job[j].clock

WriteUnderWay == \E j \in Jobs : job[j].pc = "write" /\ job[j].token.sub = addr

Owned ==
    \/ token = NoToken /\ WriteUnderWay
    \/ token # NoToken /\ token.sub = addr /\ \E j \in Jobs : Owner(j)

TokenInv == WritesFresh /\ (lost \/ Owned)

(* The lifetime of a token leaves room for every fault and two runs. *)
LEMMA AllowedLemma ==
    ASSUME NEW f \in 0 .. MaxFaults
    PROVE  /\ Allowed(f) \in Nat
           /\ Allowed(f + 1) = Allowed(f) + RunEvery
           /\ Allowed(f) + RunEvery + RunEvery <= Life
<1> DEFINE d == MaxFaults - f
<1>1. f \in Nat /\ d \in Nat /\ RunEvery \in Nat /\ MaxFaults = f + d
  BY ClientAssumption
<1>2. f * RunEvery \in Nat /\ d * RunEvery \in Nat
  BY <1>1
<1>3. (MaxFaults + 2) * RunEvery = f * RunEvery + d * RunEvery + RunEvery + RunEvery
  BY <1>1
<1>4. (f + 1) * RunEvery = f * RunEvery + RunEvery
  BY <1>1
<1> QED BY <1>1, <1>2, <1>3, <1>4, ClientAssumption, RunsOftenEnough DEF Allowed

(* A token is a token: its age is a number. *)
LEMMA AgeLemma ==
    ASSUME Typed
    PROVE  /\ token # NoToken => token.age \in Nat
           /\ \A j \in Jobs : /\ job[j] \in Run
                              /\ job[j].clock \in 0 .. RunEvery
                              /\ job[j].token # NoToken => job[j].token.age \in Nat
           /\ faults \in 0 .. MaxFaults
<1>1. \A t \in Token : t # NoToken => t.age \in Nat
  BY ClientAssumption DEF Token, TooOld
<1> QED BY <1>1 DEF Typed, TypeOK, Run

LEMMA TokenGood ==
    ASSUME Typed, TokenInv
    PROVE  KeepsToken
<1>1. CASE lost
  BY <1>1 DEF KeepsToken
<1>2. CASE token = NoToken /\ WriteUnderWay
  <2>1. PICK j \in Jobs : job[j].pc = "write" /\ job[j].token.sub = addr
    BY <1>2 DEF WriteUnderWay
  <2>2. /\ job[j].token # NoToken /\ job[j].token.age <= job[j].clock
        /\ job[j].token.age \in Nat /\ job[j].clock \in 0 .. RunEvery
    BY <2>1, AgeLemma DEF TokenInv, WritesFresh
  <2>3. job[j].token.age <= Life
    BY <2>2, AgeLemma, AllowedLemma, ClientAssumption
  <2> QED BY <2>1, <2>2, <2>3 DEF KeepsToken, AuthIntercept, VerifyJWT
<1>3. CASE token # NoToken /\ token.sub = addr /\ \E j \in Jobs : Owner(j)
  <2>1. PICK j \in Jobs : Owner(j)
    BY <1>3
  <2>2. job[j].clock \in 0 .. RunEvery /\ token.age \in Nat /\ RunEvery \in Nat
    BY <1>3, AgeLemma, ClientAssumption
  <2>3. token.age <= Life
    BY <2>1, <2>2, AgeLemma, AllowedLemma, ClientAssumption DEF Owner
  <2> QED BY <1>3, <2>3 DEF KeepsToken, AuthIntercept, VerifyJWT
<1> QED BY <1>1, <1>2, <1>3 DEF TokenInv, Owned

(* Steps that leave the token file, every job's clock, and the jobs that   *)
(* use a token, alone.                                                     *)
LEMMA TokenQuiet ==
    ASSUME Typed, TokenInv, UNCHANGED <<addr, token, lost>>,
           faults' = faults \/ (faults' = faults + 1 /\ faults' \in 0 .. MaxFaults),
           \A i \in Jobs :
              /\ job'[i].clock = job[i].clock
              /\ \/ job'[i].pc = job[i].pc /\ job'[i].token = job[i].token
                 \/ {job[i].pc, job'[i].pc} \cap {"update", "write"} = {}
    PROVE  TokenInv'
<1>1. WritesFresh'
  BY DEF TokenInv, WritesFresh
<1>2. WriteUnderWay => WriteUnderWay'
  BY DEF WriteUnderWay
<1>3. ASSUME NEW j \in Jobs, token # NoToken, Owner(j) PROVE Owner(j)'
  <2>1. /\ token.age \in Nat /\ job[j].clock \in Nat /\ RunEvery \in Nat
        /\ Allowed(faults) \in Nat
        /\ Allowed(faults + 1) = Allowed(faults) + RunEvery
        /\ job[j].token # NoToken => job[j].token.age \in Nat
    BY <1>3, AgeLemma, AllowedLemma, ClientAssumption
  <2>2. CASE faults' = faults
    BY <1>3, <2>2 DEF Owner
  <2>3. CASE faults' = faults + 1 /\ faults' \in 0 .. MaxFaults
    <3>1. Allowed(faults') = Allowed(faults) + RunEvery
      BY <2>1, <2>3
    <3>2. token.age <= Allowed(faults') + job[j].clock
      BY <1>3, <2>1, <3>1 DEF Owner
    <3> QED BY <3>2 DEF Owner
  <2> QED BY <2>2, <2>3
<1> QED BY <1>1, <1>2, <1>3 DEF TokenInv, Owned

LEMMA TokenStart ==
    ASSUME Typed, TokenInv, NEW j \in Jobs, Start(j)
    PROVE  TokenInv'
<1>1. /\ job[j].pc = "idle" /\ job'[j].pc = "update" /\ job'[j].token = token
      /\ job'[j].clock = 0 /\ \A i \in Jobs \ {j} : job'[i] = job[i]
      /\ UNCHANGED <<addr, token, lost, faults>>
  BY AgeLemma DEF Start, Typed, TypeOK, Run, bounds
<1>2. WritesFresh' /\ (WriteUnderWay => WriteUnderWay')
  BY <1>1 DEF TokenInv, WritesFresh, WriteUnderWay
<1>3. ASSUME token # NoToken, token.sub = addr, NEW i \in Jobs, Owner(i)
      PROVE  Owner(i)'
  <2>1. CASE i = j
    <3>1. token.age <= Allowed(faults) + job[j].clock
      BY <1>1, <1>3, <2>1 DEF Owner
    <3>2. token.age <= Allowed(faults + 1) + 0
      BY <1>3, <3>1, AgeLemma, AllowedLemma, ClientAssumption
    <3> QED BY <1>1, <1>3, <2>1, <3>2 DEF Owner
  <2>2. CASE i # j
    BY <1>1, <1>3, <2>2 DEF Owner
  <2> QED BY <2>1, <2>2
<1> QED BY <1>1, <1>2, <1>3 DEF TokenInv, Owned

LEMMA TokenGet ==
    ASSUME Typed, TokenInv, NEW j \in Jobs, GetToken(j)
    PROVE  TokenInv'
<1>1. /\ job'[j].pc = "write" /\ job'[j].token = [sub |-> addr, age |-> 0]
      /\ job'[j].clock = job[j].clock
      /\ \A i \in Jobs \ {j} : job'[i] = job[i]
      /\ token' = NoToken /\ addr' = addr
  BY AgeLemma DEF GetToken, IssueJWT, Typed, TypeOK, Run
<1>2. [sub |-> addr, age |-> 0] # NoToken
  BY ClientAssumption DEF Typed, TypeOK
<1>3. 0 <= job[j].clock
  BY AgeLemma, ClientAssumption
<1>4. WritesFresh'
  BY <1>1, <1>2, <1>3 DEF TokenInv, WritesFresh
<1>5. WriteUnderWay'
  BY <1>1 DEF WriteUnderWay
<1> QED BY <1>1, <1>4, <1>5 DEF TokenInv, Owned

LEMMA TokenSave ==
    ASSUME Typed, TokenInv, NEW j \in Jobs, SaveToken(j)
    PROVE  TokenInv'
<1>1. /\ job[j].pc = "write" /\ job'[j].pc = "fetch" /\ job'[j].clock = job[j].clock
      /\ \A i \in Jobs \ {j} : job'[i] = job[i]
      /\ token' = job[j].token /\ addr' = addr /\ faults' = faults
      /\ lost' = (job[j].token.sub # addr)
  BY AgeLemma DEF SaveToken, Typed, TypeOK, Run, bounds
<1>2. WritesFresh'
  BY <1>1 DEF TokenInv, WritesFresh
<1>3. token' # NoToken /\ token'.age <= job[j].clock
  BY <1>1 DEF TokenInv, WritesFresh
<1>4. token'.age <= Allowed(faults) + job[j].clock
  BY <1>1, <1>3, AgeLemma, AllowedLemma, ClientAssumption
<1>5. Owner(j)'
  BY <1>1, <1>4 DEF Owner
<1> QED BY <1>1, <1>2, <1>3, <1>5 DEF TokenInv, Owned

(* A run that ends without a failure: it is not the one that owns a token  *)
(* it has read, for that token would not have been refused.                *)
LEMMA TokenEnded ==
    ASSUME Typed, TokenInv, NEW j \in Jobs, Ended(j),
           UNCHANGED <<addr, token, lost, faults>>,
           job[j].pc = "write" => token # NoToken,
           job[j].pc = "update" => ~AuthIntercept(job[j].token)
    PROVE  TokenInv'
<1>1. /\ job'[j].pc = "idle" /\ job'[j].clock = job[j].clock
      /\ \A i \in Jobs \ {j} : job'[i] = job[i]
  BY AgeLemma DEF Ended, Typed, TypeOK, Run
<1>2. WritesFresh'
  BY <1>1 DEF TokenInv, WritesFresh
<1>3. ASSUME token = NoToken, WriteUnderWay PROVE WriteUnderWay'
  BY <1>1, <1>3 DEF WriteUnderWay
<1>4. ASSUME token # NoToken, NEW i \in Jobs, Owner(i) PROVE Owner(i)'
  <2>1. CASE i = j /\ job[j].pc = "update"
    <3>1. \/ token.age <= Allowed(faults) + job[j].clock
          \/ /\ job[j].token # NoToken /\ job[j].token.sub = addr
             /\ job[j].token.age <= Allowed(faults + 1) + job[j].clock
      BY <1>4, <2>1 DEF Owner
    <3>2. job[j].token # NoToken /\ job[j].token.sub = addr => ~(job[j].token.age <= Life)
      BY <2>1 DEF AuthIntercept, VerifyJWT
    <3>3. token.age <= Allowed(faults) + job[j].clock
      BY <3>1, <3>2, AgeLemma, AllowedLemma, ClientAssumption
    <3> QED BY <1>1, <2>1, <3>3 DEF Owner
  <2>2. CASE ~(i = j /\ job[j].pc = "update")
    BY <1>1, <1>4, <2>2 DEF Owner
  <2> QED BY <2>1, <2>2
<1> QED BY <1>2, <1>3, <1>4 DEF TokenInv, Owned

LEMMA TokenStops ==
    ASSUME Typed, TokenInv, NEW j \in Jobs, Stops(j)
    PROVE  TokenInv'
<1>1. /\ job'[j].pc = "idle" /\ job'[j].clock = job[j].clock
      /\ \A i \in Jobs \ {j} : job'[i] = job[i]
      /\ UNCHANGED <<addr, token>>
      /\ lost' = (lost \/ job[j].pc = "write")
  BY AgeLemma DEF Stops, Ended, Typed, TypeOK, Run
<1>2. faults' = faults + 1 /\ faults' \in 0 .. MaxFaults
  BY AgeLemma, ClientAssumption DEF Stops, Fault
<1>3. WritesFresh'
  BY <1>1 DEF TokenInv, WritesFresh
<1>4. CASE lost \/ job[j].pc = "write"
  BY <1>1, <1>3, <1>4 DEF TokenInv
<1>5. CASE ~lost /\ job[j].pc # "write"
  <2>1. WriteUnderWay => WriteUnderWay'
    BY <1>1, <1>5 DEF WriteUnderWay
  <2>2. ASSUME token # NoToken, NEW i \in Jobs, Owner(i) PROVE Owner(i)'
    <3>1. /\ token.age \in Nat /\ job[i].clock \in Nat /\ RunEvery \in Nat
          /\ Allowed(faults) \in Nat
          /\ Allowed(faults + 1) = Allowed(faults) + RunEvery
          /\ job'[i].clock = job[i].clock
      BY <1>1, <2>2, AgeLemma, AllowedLemma, ClientAssumption
    <3>2. token.age <= Allowed(faults + 1) + job[i].clock
      BY <2>2, <3>1 DEF Owner
    <3> QED BY <1>1, <1>2, <3>1, <3>2 DEF Owner
  <2> QED BY <1>1, <1>3, <1>5, <2>1, <2>2 DEF TokenInv, Owned
<1> QED BY <1>4, <1>5

LEMMA TokenIssued ==
    ASSUME Typed, TokenInv, IssueToken
    PROVE  TokenInv'
<1>1. PICK sub \in Addrs : token' = IssueJWT(sub) /\ lost' = (sub # addr)
  BY DEF IssueToken
<1>2. UNCHANGED <<addr, job, faults>>
  BY DEF IssueToken, bounds
<1>3. WritesFresh'
  BY <1>2 DEF TokenInv, WritesFresh
<1>4. PICK j : j \in Jobs
  BY RunsOftenEnough
<1>5. token' # NoToken /\ token'.sub = sub /\ token'.age = 0
  BY <1>1, ClientAssumption DEF IssueJWT
<1>6. 0 <= Allowed(faults) + job[j].clock
  BY <1>4, AgeLemma, AllowedLemma, ClientAssumption
<1>7. Owner(j)'
  BY <1>2, <1>5, <1>6 DEF Owner
<1> QED BY <1>1, <1>2, <1>3, <1>4, <1>5, <1>7 DEF TokenInv, Owned

LEMMA TokenTick ==
    ASSUME Typed, TokenInv, Tick
    PROVE  TokenInv'
<1>1. /\ token' = Older(token) /\ UNCHANGED <<addr, lost, faults>>
  BY DEF Tick, bounds
<1>2. ASSUME NEW i \in Jobs
      PROVE  /\ job'[i].pc = job[i].pc /\ job'[i].clock = job[i].clock + 1
             /\ job'[i].token = Older(job[i].token)
  BY AgeLemma DEF Tick, Typed, TypeOK, Run
<1>3. token \in Token /\ \A i \in Jobs : job[i].token \in Token
  BY AgeLemma DEF Typed, TypeOK, Run
<1>4. WritesFresh'
  <2> SUFFICES ASSUME NEW i \in Jobs, job'[i].pc = "write"
               PROVE  job'[i].token # NoToken /\ job'[i].token.age <= job'[i].clock
    BY DEF WritesFresh
  <2>1. job[i].token # NoToken /\ job[i].token.age <= job[i].clock
    BY <1>2 DEF TokenInv, WritesFresh
  <2> QED BY <1>2, <1>3, <2>1, OlderLemma, AgeLemma
<1>5. WriteUnderWay => WriteUnderWay'
  <2> SUFFICES ASSUME NEW i \in Jobs, job[i].pc = "write", job[i].token.sub = addr
               PROVE  job'[i].pc = "write" /\ job'[i].token.sub = addr'
    BY DEF WriteUnderWay
  <2>1. job[i].token # NoToken
    BY DEF TokenInv, WritesFresh
  <2> QED BY <1>1, <1>2, <1>3, <2>1, OlderLemma
<1>6. ASSUME token # NoToken, NEW i \in Jobs, Owner(i) PROVE Owner(i)'
  <2>1. /\ token.age \in Nat /\ job[i].clock \in Nat
        /\ Allowed(faults) \in Nat /\ Allowed(faults + 1) \in Nat
        /\ job[i].token # NoToken => job[i].token.age \in Nat
    BY <1>6, AgeLemma, AllowedLemma, ClientAssumption
  <2>2. token'.age \in {token.age, token.age + 1}
    BY <1>1, <1>3, <1>6, OlderLemma
  <2>3. CASE token.age <= Allowed(faults) + job[i].clock
    <3>1. token'.age <= Allowed(faults) + job'[i].clock
      BY <1>2, <2>1, <2>2, <2>3
    <3> QED BY <1>1, <3>1 DEF Owner
  <2>4. CASE ~(token.age <= Allowed(faults) + job[i].clock)
    <3>1. /\ job[i].pc = "update"
          /\ job[i].token # NoToken /\ job[i].token.sub = addr
          /\ job[i].token.age <= Allowed(faults + 1) + job[i].clock
          /\ token.age <= Allowed(faults + 1) + job[i].clock
      BY <1>6, <2>4 DEF Owner
    <3>2. /\ job'[i].token # NoToken /\ job'[i].token.sub = addr
          /\ job'[i].token.age \in {job[i].token.age, job[i].token.age + 1}
      BY <1>2, <1>3, <3>1, OlderLemma
    <3>3. /\ job'[i].token.age <= Allowed(faults + 1) + job'[i].clock
          /\ token'.age <= Allowed(faults + 1) + job'[i].clock
      BY <1>2, <2>1, <2>2, <3>1, <3>2
    <3> QED BY <1>1, <1>2, <3>1, <3>2, <3>3 DEF Owner
  <2> QED BY <2>3, <2>4
<1>7. /\ token = NoToken <=> token' = NoToken
      /\ token # NoToken => token'.sub = token.sub
  BY <1>1, <1>3, OlderLemma
<1> QED BY <1>1, <1>4, <1>5, <1>6, <1>7 DEF TokenInv, Owned

LEMMA TokenStep == Typed /\ TokenInv /\ [Next]_vars => TokenInv'
<1> SUFFICES ASSUME Typed, TokenInv, [Next]_vars PROVE TokenInv'
  OBVIOUS
<1>1. job \in [Jobs -> Run]
  BY DEF Typed, TypeOK
<1>2. ASSUME NEW j \in Jobs, Fetch(j) \/ SaveCrt(j) \/ SaveKey(j) \/ FetchNone(j)
      PROVE  TokenInv'
  <2>1. /\ {job[j].pc, job'[j].pc} \cap {"update", "write"} = {}
        /\ job'[j].clock = job[j].clock
        /\ \A i \in Jobs \ {j} : job'[i] = job[i]
    BY <1>1, <1>2 DEF Fetch, SaveCrt, SaveKey, FetchNone, NextRecord, Ended, Run
  <2>2. UNCHANGED <<addr, token, lost, faults>>
    BY <1>2 DEF Fetch, SaveCrt, SaveKey, FetchNone, bounds
  <2> QED BY <2>1, <2>2, TokenQuiet
<1>3. ASSUME NEW j \in Jobs, Refused(j) \/ SaveTokenDenied(j) PROVE TokenInv'
  BY <1>3, TokenEnded DEF Refused, SaveTokenDenied, bounds
<1>4. CASE Moves
  <2>1. lost' /\ UNCHANGED job
    BY <1>4 DEF Moves
  <2> QED BY <2>1 DEF TokenInv, WritesFresh
<1>5. CASE EnvironmentNext /\ ~Tick /\ ~IssueToken /\ ~Moves
  <2>1. UNCHANGED <<addr, token, lost, faults, job>>
    BY <1>5 DEF EnvironmentNext, Named, UpdateSubjCert, UpdateUnreachable, Unnamed,
                Replace, bounds
  <2> QED BY <2>1, TokenQuiet
<1>6. CASE UNCHANGED vars
  <2>1. UNCHANGED <<addr, token, lost, faults, job>>
    BY <1>6 DEF vars, bounds
  <2> QED BY <2>1, TokenQuiet
<1> QED BY <1>2, <1>3, <1>4, <1>5, <1>6, TokenStart, TokenGet, TokenSave,
           TokenStops, TokenIssued, TokenTick
        DEF Next, ClientStep, EnvironmentNext

(* A host whose jobs run often enough always has a token it can renew, or  *)
(* a run about to write one, however its jobs meet and whichever of their  *)
(* runs fail, unless one fails between removing the file and writing it.   *)
THEOREM KeepsTokenHolds == Spec => []KeepsToken
<1>1. Init => TokenInv
  <2> SUFFICES ASSUME Init PROVE TokenInv
    OBVIOUS
  <2>1. token # NoToken /\ token.sub = addr /\ token.age = 0
    BY ClientAssumption DEF Init, IssueJWT
  <2>2. PICK j : j \in Jobs
    BY RunsOftenEnough
  <2>3. Typed
    BY InitTyped
  <2>4. 0 <= Allowed(faults) + job[j].clock
    BY <2>2, <2>3, AgeLemma, AllowedLemma, ClientAssumption
  <2>5. WritesFresh
    BY DEF Init, WritesFresh
  <2> QED BY <2>1, <2>2, <2>4, <2>5 DEF TokenInv, Owned, Owner
<1> QED BY <1>1, TokenStep, TokenGood, AlwaysTyped, PTL DEF Spec
=============================================================================
