--------------------------- MODULE RevocationProofs -------------------------
(***************************************************************************)
(* A renewal that was answered has its old order revoked, or its event is  *)
(* still with the broker: RevocationsKept is inductive relative to IInv.   *)
(* londo-revoked is the only one to take messages from its queue, and it   *)
(* acknowledges only what the authority revoked.                           *)
(***************************************************************************)
EXTENDS LifecycleProofs

(* An order once revoked stays revoked. *)
LEMMA OrderRevokedStable ==
    ASSUME IInv, Next, NEW c, OrderRevoked(c)
    PROVE  OrderRevoked(c)'
BY StepFacts DEF OrderRevoked, OrdersKept

(* A message for londo-revoked leaves the broker only when its order has   *)
(* been revoked, or when the broker restarts.                              *)
LEMMA RevokeMessageKept ==
    ASSUME IInv, Next, RevocationsKept, ~BrokerRestart,
           NEW e \in Messages(revoke)
    PROVE  e \in Messages(revoke') \/ OrderRevoked(e.certId)
<1> DEFINE Good == e \in Messages(revoke') \/ OrderRevoked(e.certId)
<1>1. /\ revoke \in QueueOf(RevokeEvent)
      /\ revoke.current = <<>> <=> revoked = "idle"
      /\ Messages(revoke) = Waiting(revoke) \cup Range(revoke.current)
  BY IInvParts DEF Typed, TypeOK, LondoTypeOK, OneInHand, Messages
<1>2. CASE UNCHANGED revoke
  BY <1>2
<1>3. ASSUME NEW m, revoke' = Put(revoke, m) PROVE Good
  BY <1>1, <1>3, PutMessages
<1>4. CASE RevokedStep
  <2>1. CASE RevokeAnswered
    BY <1>1, <2>1, TakeLemma DEF RevokeAnswered, Revoking
  <2>2. CASE RevokeRefused \/ RevokeAnswerLost
    BY <1>1, <2>2, TakeReturnLemma DEF RevokeRefused, RevokeAnswerLost, Revoking
  <2>3. CASE RevokeAck
    <3>1. revoked = "ack" /\ Messages(revoke') = Waiting(revoke)
      BY <1>1, <2>3, SettleLemma DEF RevokeAck
    <3> QED BY <1>1, <3>1 DEF RevocationsKept
  <2>4. CASE RevokedCrash
    BY <1>1, <2>4, ReturnLemma DEF RevokedCrash
  <2>5. CASE DeclareRevoke
    BY <1>2, <2>5 DEF DeclareRevoke
  <2> QED BY <1>4, <2>1, <2>2, <2>3, <2>4, <2>5 DEF RevokedStep, RevokedNext
<1>5. CASE GrpcdStep
  BY <1>2, <1>3, <1>5
     DEF GrpcdStep, GrpcdNext, Lookup, AddExists, AddEnroll, RenewMissing,
         RenewRevoke, RenewEnroll, RenewDelete, DeleteCall, CallAborts
<1>6. CASE CheckerdStep
  BY <1>2, <1>3, <1>6
     DEF CheckerdStep, CheckRead, CheckDelete, CheckRevoke, CheckAborts
<1> QED BY <1>2, <1>4, <1>5, <1>6, EnrolldFrame, CollectdFrame, DbdFrame
        DEF Next

(* Nothing but a restart of the broker changes which revocations it lost,  *)
(* other than by adding to them.                                           *)
LEMMA UnroutedGrows ==
    ASSUME Next
    PROVE  unrouted \subseteq unrouted'
<1>1. CASE GrpcdStep
  BY <1>1 DEF GrpcdStep, GrpcdNext, Lookup, AddExists, AddEnroll, RenewMissing,
              RenewRevoke, RenewEnroll, RenewDelete, DeleteCall, CallAborts
<1>2. CASE BrokerRestart
  BY <1>2 DEF BrokerRestart
<1> QED BY <1>1, <1>2, EnrolldFrame, CollectdFrame, RevokedFrame, DbdFrame,
           CheckerdFrame DEF Next

(* What a call has done for the revocation of its old order is not undone. *)
LEMMA RevocationStays ==
    ASSUME IInv, Next, RevocationsKept, NEW r \in Requests, RevocationKept(r),
           req'[r].snap = req[r].snap
    PROVE  RevocationKept(r)'
<1>1. PICK c : c = req[r].snap.certId
  OBVIOUS
<1>2. req'[r].snap.certId = c
  BY <1>1
<1>3. CASE r \in unrouted
  BY <1>3, UnroutedGrows DEF RevocationKept
<1>4. CASE OrderRevoked(c)
  <2>1. OrderRevoked(c)'
    BY <1>4, OrderRevokedStable
  <2> QED BY <1>2, <2>1 DEF RevocationKept
<1>5. ASSUME NEW e \in Messages(revoke), e.certId = c
      PROVE  RevocationKept(r)'
  <2>1. CASE BrokerRestart
    <3>1. r \in unrouted'
      BY <1>1, <1>5, <2>1 DEF BrokerRestart
    <3> QED BY <3>1 DEF RevocationKept
  <2>2. CASE e \in Messages(revoke')
    BY <1>2, <1>5, <2>2 DEF RevocationKept
  <2>3. CASE OrderRevoked(e.certId)
    <3>1. OrderRevoked(c)'
      BY <1>5, <2>3, OrderRevokedStable
    <3> QED BY <1>2, <3>1 DEF RevocationKept
  <2> QED BY <2>1, <2>2, <2>3, RevokeMessageKept
<1> QED BY <1>1, <1>3, <1>4, <1>5 DEF RevocationKept

(* A renewal reaches the steps after its revoke event only by publishing   *)
(* it; from then on it keeps what it read.                                 *)
Past == {"enroll", "delete", "done"}

LEMMA RenewalMoves ==
    ASSUME Typed, Next, NEW r \in Requests,
           req'[r].op = "renew", req'[r].pc \in Past
    PROVE  \/ /\ req[r].op = "renew" /\ req[r].pc \in Past
              /\ req'[r].snap = req[r].snap
           \/ RenewRevoke(r) /\ req'[r].snap = Answer1(r)
<1> DEFINE Good == \/ /\ req[r].op = "renew" /\ req[r].pc \in Past
                      /\ req'[r].snap = req[r].snap
                   \/ RenewRevoke(r) /\ req'[r].snap = Answer1(r)
<1>1. req \in [Requests -> Call]
  BY DEF Typed, TypeOK
<1>2. CASE req'[r] = req[r]
  BY <1>2 DEF Past
<1>3. CASE GrpcdStep
  <2>1. PICK q \in Requests :
           \/ Lookup(q) \/ AddExists(q) \/ AddEnroll(q) \/ RenewMissing(q)
           \/ RenewRevoke(q) \/ RenewEnroll(q) \/ RenewDelete(q)
           \/ DeleteCall(q) \/ CallAborts(q)
    BY <1>3 DEF GrpcdStep, GrpcdNext
  <2>2. ASSUME NEW pc, GoTo(q, pc)
        PROVE  /\ r # q => req'[r] = req[r]
               /\ req'[q].op = req[q].op
               /\ req'[q].snap = req[q].snap
               /\ req'[q].pc = pc
    BY <1>1, <2>2 DEF GoTo, Call
  <2>3. CASE Lookup(q) \/ AddExists(q) \/ RenewMissing(q) \/ CallAborts(q)
    <3>1. GoTo(q, "lookup") \/ GoTo(q, "failed")
      BY <2>3 DEF Lookup, AddExists, RenewMissing, CallAborts
    <3> QED BY <1>2, <2>2, <3>1 DEF Past
  <2>4. CASE AddEnroll(q) \/ DeleteCall(q)
    <3>1. GoTo(q, "done") /\ req[q].op # "renew"
      BY <2>4 DEF AddEnroll, DeleteCall, At
    <3> QED BY <1>2, <2>2, <3>1
  <2>5. CASE RenewEnroll(q) \/ RenewDelete(q)
    <3>1. /\ GoTo(q, "delete") \/ GoTo(q, "done")
          /\ req[q].op = "renew" /\ req[q].pc \in Past
      BY <2>5 DEF RenewEnroll, RenewDelete, At, Past
    <3> QED BY <1>2, <2>2, <3>1
  <2>6. CASE RenewRevoke(q)
    <3>1. req' = [req EXCEPT ![q].pc = "enroll", ![q].snap = Answer1(q)]
      BY <2>6 DEF RenewRevoke
    <3>2. /\ r # q => req'[r] = req[r]
          /\ req'[q].snap = Answer1(q)
      BY <1>1, <3>1 DEF Call
    <3> QED BY <1>2, <2>6, <3>2
  <2> QED BY <2>1, <2>3, <2>4, <2>5, <2>6
<1>4. CASE BrokerRestart
  <2>1. CASE req[r].pc \in {"lookup", "enroll", "delete"}
    <3>1. req'[r] = [req[r] EXCEPT !.pc = "failed"]
      BY <1>4, <2>1 DEF BrokerRestart
    <3>2. req'[r].pc = "failed"
      BY <1>1, <3>1 DEF Call
    <3> QED BY <3>2 DEF Past
  <2>2. CASE req[r].pc \notin {"lookup", "enroll", "delete"}
    BY <1>2, <1>4, <2>2 DEF BrokerRestart
  <2> QED BY <2>1, <2>2
<1> QED BY <1>2, <1>3, <1>4, EnrolldFrame, CollectdFrame, RevokedFrame,
           DbdFrame, CheckerdFrame DEF Next

(* What londo-revoked holds after the authority's answer is revoked. *)
LEMMA AckRevoked ==
    ASSUME IInv, Next, RevocationsKept, revoked' = "ack",
           NEW e \in Range(revoke'.current)
    PROVE  OrderRevoked(e.certId)'
<1>1. /\ TypeOK /\ RevokesKnown
      /\ revoke \in QueueOf(RevokeEvent)
      /\ revoke.current = <<>> <=> revoked = "idle"
  BY IInvParts DEF Typed, TypeOK, LondoTypeOK, OneInHand
<1>2. CASE revoked = "ack" /\ revoke'.current = revoke.current
  <2>1. OrderRevoked(e.certId)
    BY <1>2 DEF RevocationsKept
  <2> QED BY <2>1, OrderRevokedStable
<1>3. CASE RevokedStep
  <2>1. CASE RevokeAnswered
    <3>1. PICK h \in Messages(revoke) : h = Head(revoke.ready)
      BY <1>1, <2>1, TakeLemma, MessagesType DEF RevokeAnswered, Revoking
    <3>2. /\ h.certId \in DOMAIN orders /\ RevokeOrder(h.certId)
          /\ revoke'.current = <<h>>
      BY <1>1, <2>1, <3>1, TakeLemma
         DEF RevokeAnswered, Revoking, RevokesKnown
    <3>3. e = h
      BY <3>2 DEF Range
    <3>4. h.certId \in DOMAIN orders' /\ orders'[h.certId].revoked
      BY <1>1, <3>2, RevokeOrderLemma
    <3> QED BY <3>3, <3>4 DEF OrderRevoked
  <2>2. CASE RevokeRefused \/ RevokeAnswerLost \/ RevokeAck \/ RevokedCrash
    BY <2>2 DEF RevokeRefused, RevokeAnswerLost, RevokeAck, RevokedCrash,
                Revoking
  <2>3. CASE DeclareRevoke
    BY <1>2, <2>3 DEF DeclareRevoke
  <2> QED BY <1>3, <2>1, <2>2, <2>3 DEF RevokedStep, RevokedNext
<1>4. CASE GrpcdStep
  <2>1. ASSUME NEW m, revoke' = Put(revoke, m)
        PROVE  revoke'.current = revoke.current
    BY <1>1, <2>1, PutMessages
  <2> QED BY <1>2, <1>4, <2>1
             DEF GrpcdStep, GrpcdNext, Lookup, AddExists, AddEnroll,
                 RenewMissing, RenewRevoke, RenewEnroll, RenewDelete,
                 DeleteCall, CallAborts
<1>5. CASE CheckerdStep
  <2>1. ASSUME NEW m, revoke' = Put(revoke, m)
        PROVE  revoke'.current = revoke.current
    BY <1>1, <2>1, PutMessages
  <2> QED BY <1>2, <1>5, <2>1
             DEF CheckerdStep, CheckRead, CheckDelete, CheckRevoke, CheckAborts
<1>6. CASE BrokerRestart
  BY <1>6 DEF BrokerRestart
<1> QED BY <1>2, <1>3, <1>4, <1>5, <1>6, EnrolldFrame, CollectdFrame, DbdFrame
        DEF Next

(* Every step preserves RevocationsKept. *)
LEMMA RevocationsStep ==
    ASSUME IInv, Next, RevocationsKept
    PROVE  RevocationsKept'
<1>1. ASSUME NEW r \in Requests, req'[r].op = "renew", req'[r].pc \in Past
      PROVE  RevocationKept(r)'
  <2>1. CASE /\ req[r].op = "renew" /\ req[r].pc \in Past
             /\ req'[r].snap = req[r].snap
    <3>1. RevocationKept(r)
      BY <2>1 DEF RevocationsKept, Past
    <3> QED BY <2>1, <3>1, RevocationStays
  <2>2. CASE RenewRevoke(r) /\ req'[r].snap = Answer1(r)
    <3>1. CASE revokeDeclared
      <4>1. revoke' = Put(revoke, Answer1(r))
        BY <2>2, <3>1 DEF RenewRevoke
      <4>2. Answer1(r) \in Messages(revoke')
        BY <4>1, IInvParts, PutMessages DEF Typed, TypeOK, LondoTypeOK
      <4> QED BY <2>2, <4>2 DEF RevocationKept
    <3>2. CASE ~revokeDeclared
      BY <2>2, <3>2 DEF RenewRevoke, RevocationKept
    <3> QED BY <3>1, <3>2
  <2> QED BY <1>1, <2>1, <2>2, RenewalMoves, IInvParts
<1>2. revoked' = "ack" =>
          \A e \in Range(revoke'.current) : OrderRevoked(e.certId)'
  BY AckRevoked
<1> QED BY <1>1, <1>2 DEF RevocationsKept, Past

(* The revocation a renewal has asked for stays with the broker until the  *)
(* authority has revoked, from the publish on and whatever becomes of the  *)
(* call.                                                                   *)
THEOREM RevocationsKeptHolds == Spec => []RevocationsKept
<1>1. Init => RevocationsKept
  BY DEF Init, GrpcdInit, RevokedInit, RevocationsKept
<1>2. ASSUME IInv, [Next]_vars, RevocationsKept PROVE RevocationsKept'
  <2>1. CASE UNCHANGED vars
    BY <1>2, <2>1 DEF vars, queueVars, grpcdVars, RevocationsKept,
                      RevocationKept, OrderRevoked
  <2> QED BY <1>2, <2>1, RevocationsStep
<1> QED BY <1>1, <1>2, Invariance, PTL DEF Spec

(* A renewal that was answered "renewed" revokes the order it replaced,    *)
(* through refusals, lost answers and restarts of londo-revoked, unless    *)
(* its event had no queue to go to or went down with the broker.           *)
THEOREM ReplacedIsRevokedHolds == Spec => []ReplacedIsRevoked
<1>1. RevocationsKept => ReplacedIsRevoked
  BY DEF RevocationsKept, ReplacedIsRevoked, At
<1> QED BY <1>1, RevocationsKeptHolds, PTL
=============================================================================
