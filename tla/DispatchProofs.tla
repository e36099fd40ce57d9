---------------------------- MODULE DispatchProofs ----------------------------
(***************************************************************************)
(* Theorems about DispatchSystem, for every set of requests, slots,        *)
(* callers and passes.                                                     *)
(***************************************************************************)
EXTENDS DispatchInvariant, TLAPS

-----------------------------------------------------------------------------
(* Type correctness *)

LEMMA TypeInit == Init => TypeOK
BY DEF Init, StoreInit, GatewayInit, TypeOK, StoreTypeOK, GatewayTypeOK,
       IntentState, LeaseState, Reason, Step, Phase, Actors, Unsettled, Settled, Review, Rpc

LEMMA TypeCaller ==
  ASSUME TypeOK, UNCHANGED passVars,
         NEW c \in Callers, NEW d \in Requests, CallerStep(c, d)
  PROVE  TypeOK'
<1> USE DEF TypeOK, StoreTypeOK, GatewayTypeOK, IntentState, LeaseState, Reason,
            Step, Rpc, Actors, Unsettled, Settled, Review, passVars
<1>1. CASE Begin(c, d)
  BY <1>1 DEF Begin, InsertPendingDispatch, gwVars
<1>2. CASE Replay(c, d)
  BY <1>2 DEF Replay, storeVars, gwVars
<1>3. CASE AcquireCall(c, d)
  BY <1>3 DEF AcquireCall, Send, Goto, storeVars
<1>4. CASE AcquirePersist(c, d)
  BY <1>4 DEF AcquirePersist, PersistAcquiredLease, Goto, gwVars
<1>5. CASE AcquireUncertain(c, d)
  BY <1>5 DEF AcquireUncertain, MarkAcquireUnknown, MarkSpawnReview, Finish, Leave, gwVars
<1>6. CASE AcquireRefused(c, d)
  BY <1>6 DEF AcquireRefused, MarkAcquireReview, MarkSpawnReview, Finish, Leave, gwVars
<1>7. CASE LeaseStillValid(c, d)
  BY <1>7 DEF LeaseStillValid, Goto, storeVars, gwVars
<1>8. CASE LeaseExpiredLocally(c, d)
  BY <1>8 DEF LeaseExpiredLocally, ExpireLeaseBeforeSpawn, MarkSpawnReview, Finish,
              Leave, gwVars
<1>9. CASE SpawnCall(c, d)
  BY <1>9 DEF SpawnCall, Send, Goto, storeVars
<1>10. CASE SpawnPersist(c, d)
  BY <1>10 DEF SpawnPersist, PersistSpawnAcceptance, Leave, gwVars
<1>11. CASE SpawnUncertain(c, d)
  BY <1>11 DEF SpawnUncertain, MarkSpawnReview, Finish, Leave, gwVars
<1>12. CASE SpawnRefused(c, d)
  BY <1>12 DEF SpawnRefused, MarkSpawnReview, Goto, gwVars
<1>13. QED
  BY <1>1, <1>2, <1>3, <1>4, <1>5, <1>6, <1>7, <1>8, <1>9, <1>10, <1>11, <1>12
  DEF CallerStep

LEMMA TypeRelease ==
  ASSUME TypeOK, UNCHANGED passVars,
         NEW a \in Actors, NEW d \in Requests, ReleaseStep(a, d)
  PROVE  TypeOK'
<1> USE DEF TypeOK, StoreTypeOK, GatewayTypeOK, IntentState, LeaseState, Reason,
            Step, Rpc, Actors, Unsettled, Settled, Review, passVars
<1>1. CASE PrepareRelease(a, d)
  BY <1>1 DEF PrepareRelease, PrepareOwnedLeaseRelease, Goto, gwVars
<1>2. CASE ReleaseCall(a, d)
  BY <1>2 DEF ReleaseCall, Send, Goto, storeVars
<1>3. CASE ReleasePersist(a, d)
  BY <1>3 DEF ReleasePersist, PersistReleasedLease, Finish, Leave, gwVars
<1>4. CASE ReleaseFails(a, d)
  BY <1>4 DEF ReleaseFails, MarkReleaseReview, Finish, Leave, gwVars
<1>5. CASE ReleaseUncertain(a, d)
  BY <1>5 DEF ReleaseUncertain, MarkReleaseUnknown, Finish, Leave, gwVars
<1>6. QED
  BY <1>1, <1>2, <1>3, <1>4, <1>5 DEF ReleaseStep

LEMMA TypePass ==
  ASSUME TypeOK, NEW r \in Reconcilers,
         StartPass(r) \/ ListLeases(r) \/ Advance(r) \/ EndPass(r) \/ PassStops(r)
  PROVE  TypeOK'
<1> USE DEF TypeOK, StoreTypeOK, GatewayTypeOK, Phase, Actors, callVars, storeVars, gwVars
<1>1. CASE StartPass(r)
  <2>1. {i \in Rpc \X overdue : Intent(i[1], i[2]) = "pending"} \subseteq Rpc \X Requests
    OBVIOUS
  <2>2. QED
    BY <1>1, <2>1 DEF StartPass
<1>2. CASE ListLeases(r)
  BY <1>2 DEF ListLeases
<1>3. CASE Advance(r)
  <2>1. NextPhase(phase[r]) \in Phase \ {"idle", "listed_sessions", "listed"}
    BY <1>3 DEF Advance, NextPhase
  <2>2. Candidates(r, NextPhase(phase[r])) \in SUBSET Requests
    BY <2>1 DEF Candidates, ReleasePendingRequests, UnknownLeaseRequests,
       SpawnRequestsWithoutAcquiredLeaseProof, UnknownSpawnRequests,
       AcquireOnlyCleanupRequests
  <2>3. QED
    BY <1>3, <2>1, <2>2 DEF Advance
<1>4. CASE EndPass(r)
  BY <1>4 DEF EndPass, ForgetPass
<1>5. CASE PassStops(r)
  BY <1>5 DEF PassStops, ForgetPass, Leave, Step
<1>6. QED
  BY <1>1, <1>2, <1>3, <1>4, <1>5

LEMMA TypeItem ==
  ASSUME TypeOK, NEW r \in Reconcilers, NEW d \in Requests, ItemStep(r, d)
  PROVE  TypeOK'
<1> USE DEF TypeOK, StoreTypeOK, GatewayTypeOK, IntentState, LeaseState, Reason,
            Step, Phase, Rpc, Actors, Unsettled, Settled, Review,
            callVars, passVars, storeVars, gwVars, Done
<1>1. CASE ReviewPendingRelease(r, d)
  BY <1>1 DEF ReviewPendingRelease, MarkReleaseReview
<1>2. CASE AcquireUnmatched(r, d)
  BY <1>2 DEF AcquireUnmatched, MarkAcquireReview
<1>3. CASE AcquireMatched(r, d)
  BY <1>3 DEF AcquireMatched, PersistAcquiredLease
<1>4. CASE AcquireMatchedTooLate(r, d)
  BY <1>4 DEF AcquireMatchedTooLate, ForgetPass
<1>5. CASE SpawnUnproven(r, d)
  BY <1>5 DEF SpawnUnproven, MarkSpawnReview
<1>6. CASE SpawnUnmatched(r, d)
  BY <1>6 DEF SpawnUnmatched, MarkSpawnReview
<1>7. CASE SpawnMatched(r, d)
  BY <1>7 DEF SpawnMatched, PersistSpawnAcceptance
<1>8. CASE CleanupUnmatched(r, d)
  BY <1>8 DEF CleanupUnmatched, MarkReleaseReview
<1>9. CASE CleanupAdopt(r, d)
  BY <1>9 DEF CleanupAdopt
<1>10. QED
  BY <1>1, <1>2, <1>3, <1>4, <1>5, <1>6, <1>7, <1>8, <1>9 DEF ItemStep

LEMMA TypeStep == TypeOK /\ [Next]_vars => TypeOK'
<1> SUFFICES ASSUME TypeOK, [Next]_vars PROVE TypeOK'
  OBVIOUS
<1>1. CASE Dispatching
  <2>1. ASSUME NEW c \in Callers, CallerStops(c), UNCHANGED passVars
        PROVE  TypeOK'
    BY <2>1 DEF CallerStops, Leave, TypeOK, StoreTypeOK, GatewayTypeOK, Step, Actors,
                passVars, storeVars, gwVars
  <2>2. QED
    BY <1>1, <2>1, TypeCaller, TypeRelease DEF Dispatching
<1>2. CASE Reconciling
  BY <1>2, TypePass, TypeItem DEF Reconciling
<1>3. CASE Outside
  <2> USE DEF TypeOK, StoreTypeOK, GatewayTypeOK
  <2>1. ASSUME NEW d \in Requests, GraceElapses(d),
               UNCHANGED <<gwVars, callVars, todo, passVars>>
        PROVE  TypeOK'
    BY <2>1 DEF GraceElapses, gwVars, callVars, passVars
  <2>2. ASSUME NEW d \in Requests, GatewayStep(d),
               UNCHANGED <<storeVars, callVars, todo, passVars>>
        PROVE  TypeOK'
    BY <2>2 DEF GatewayStep, ApplyAcquire, ApplySpawn, ApplyRelease, GatewayExpires,
                storeVars, callVars, passVars
  <2>3. QED
    BY <1>3, <2>1, <2>2 DEF Outside
<1>4. CASE UNCHANGED vars
  BY <1>4 DEF vars, TypeOK, StoreTypeOK, GatewayTypeOK, storeVars, gwVars, callVars, passVars
<1>5. QED
  BY <1>1, <1>2, <1>3, <1>4 DEF Next

\* Every reachable state is well typed: whatever interleaving of callers,
\* passes, crashes and Gateway steps, each row, each program counter and each
\* snapshot holds one of the values the code writes there.
THEOREM TypeCorrect == Spec => []TypeOK
<1>1. QED
  BY TypeInit, TypeStep, PTL DEF Spec

-----------------------------------------------------------------------------
(* One spawn call per slot *)

\* A step that opens nothing: rows stay, no spawn call leaves, no dispatch
\* gets the reason that frees its slot, and callers only move on or leave.
Calm ==
  /\ \A d \in Requests : spawn[d] # "none" => spawn'[d] # "none"
  /\ \A d \in Requests : Issued(d)' => Issued(d)
  /\ \A d \in Requests : reason'[d] = "blocked" => reason[d] = "blocked"
  /\ \A d \in Requests : reason'[d] # "none" => spawn'[d] = Review
  /\ \A c \in Callers :
       job'[c] # NoRequest =>
         /\ job'[c] = job[c]
         /\ step'[c] \in BeforeCall => step[c] \in BeforeCall

LEMMA CalmKeepsInv ==
  ASSUME DispatchInv, TypeOK', Calm
  PROVE  DispatchInv'
<1> USE DEF DispatchInv
<1>1. \A d \in Requests : MayCall(d)' => MayCall(d)
  BY ActorAssumption DEF Calm, MayCall, WorksOn
<1>2. WorkHasRow'
  BY ActorAssumption DEF Calm, WorkHasRow
<1>3. OneCallerPerRequest'
  BY DEF Calm, OneCallerPerRequest
<1>4. NotYetCalled'
  BY ActorAssumption DEF Calm, NotYetCalled, WorksOn
<1>5. MayCallIsLive'
  BY <1>1 DEF Calm, MayCallIsLive
<1>6. OneMayCallPerSlot'
  BY <1>1 DEF OneMayCallPerSlot
<1>7. ReasonOnlyInReview'
  BY DEF Calm, ReasonOnlyInReview
<1>8. QED
  BY <1>2, <1>3, <1>4, <1>5, <1>6, <1>7

LEMMA DispatchInvInit == Init => DispatchInv
<1> SUFFICES ASSUME Init PROVE DispatchInv
  OBVIOUS
<1>1. \A d \in Requests : ~MayCall(d)
  BY DEF Init, StoreInit, GatewayInit, MayCall, Issued, WorksOn, BeforeCall, Actors
<1>2. \A c \in Callers : job[c] = NoRequest
  BY DEF Init, Actors
<1>3. QED
  BY TypeInit, ActorAssumption, <1>1, <1>2
  DEF Init, StoreInit, DispatchInv, ReasonOnlyInReview, WorkHasRow, OneCallerPerRequest,
      NotYetCalled, MayCall, MayCallIsLive, OneMayCallPerSlot

LEMMA InvBegin ==
  ASSUME DispatchInv, TypeOK', NEW c \in Callers, NEW d \in Requests, Begin(c, d)
  PROVE  DispatchInv'
<1> USE ActorAssumption DEF DispatchInv, TypeOK, StoreTypeOK, Actors
<1>1. /\ spawn[d] = "none" /\ spawn'[d] = "pending"
      /\ \A e \in Requests \ {d} : spawn'[e] = spawn[e]
      /\ reason' = reason
      /\ step'[c] = "acquire" /\ job'[c] = d
      /\ \A b \in Callers \ {c} : step'[b] = step[b] /\ job'[b] = job[b]
      /\ \A e \in Requests : Issued(e)' = Issued(e)
  BY DEF Begin, InsertPendingDispatch, gwVars, Issued
<1>2. /\ ~MayCall(d) /\ \A b \in Callers : job[b] # d
  BY <1>1 DEF MayCallIsLive, WorkHasRow
<1>3. \A e \in Requests : MayCall(e)' => e = d \/ MayCall(e)
  BY <1>1 DEF MayCall, WorksOn
<1>4. \A e \in Rivals(d) : ~MayCall(e)
  <2>1. \A e \in Rivals(d) : ~PotentiallyLive(e)
    BY DEF Begin, InsertPendingDispatch, NoPotentiallyLiveRival
  <2>2. ASSUME NEW e \in Rivals(d), MayCall(e)
        PROVE  FALSE
    <3>1. e \in Requests /\ ~PotentiallyLive(e)
      BY <2>1 DEF Rivals
    <3>2. spawn[e] # "none" /\ reason[e] # "blocked"
      BY <2>2, <3>1 DEF MayCallIsLive
    <3>3. spawn[e] \in IntentState
      BY <3>1
    <3>4. QED
      BY <3>1, <3>2, <3>3 DEF PotentiallyLive, TerminalPreSpawn, IntentState, Unsettled,
                             Settled, Review
  <2>3. QED
    BY <2>2
<1>5. reason[d] = "none"
  BY <1>1 DEF ReasonOnlyInReview, Review
<1>6. WorkHasRow'
  <2>1. \A e \in Requests : spawn[e] # "none" => spawn'[e] # "none"
    BY <1>1
  <2>2. ASSUME NEW b \in Callers, NEW e \in Requests, job'[b] = e
        PROVE  spawn'[e] # "none"
    <3>1. CASE b = c
      BY <1>1, <2>2, <3>1
    <3>2. CASE b # c
      BY <1>1, <2>1, <2>2, <3>2 DEF WorkHasRow
    <3>3. QED
      BY <3>1, <3>2
  <2>3. QED
    BY <2>2 DEF WorkHasRow
<1>7. ReasonOnlyInReview'
  BY <1>1, <1>5 DEF ReasonOnlyInReview
<1>8. OneCallerPerRequest'
  <2>1. ASSUME NEW a \in Callers, NEW b \in Callers, a # b, job'[a] = job'[b]
        PROVE  job'[a] = NoRequest
    <3>1. CASE a = c \/ b = c
      BY <1>1, <1>2, <2>1, <3>1
    <3>2. CASE a # c /\ b # c
      BY <1>1, <2>1, <3>2 DEF OneCallerPerRequest
    <3>3. QED
      BY <3>1, <3>2
  <2>2. QED
    BY <2>1 DEF OneCallerPerRequest
<1>9. NotYetCalled'
  <2>1. \A e \in Requests : Issued(e)' = Issued(e)
    BY <1>1
  <2>2. ~Issued(d)
    BY <1>2 DEF MayCall
  <2>3. ASSUME NEW b \in Callers, NEW e \in Requests, job'[b] = e, step'[b] \in BeforeCall
        PROVE  ~Issued(e)
    <3>1. CASE b = c
      BY <1>1, <2>2, <2>3, <3>1
    <3>2. CASE b # c
      <4>1. job[b] = e /\ step[b] \in BeforeCall
        BY <1>1, <2>3, <3>2
      <4>2. QED
        BY <4>1 DEF NotYetCalled, WorksOn
    <3>3. QED
      BY <3>1, <3>2
  <2>4. QED
    BY <2>1, <2>3 DEF NotYetCalled, WorksOn
<1>10. MayCallIsLive'
  <2>1. ASSUME NEW e \in Requests, MayCall(e)'
        PROVE  spawn'[e] # "none" /\ reason'[e] # "blocked"
    <3>1. CASE e = d
      BY <1>1, <1>5, <3>1
    <3>2. CASE e # d
      <4>1. MayCall(e)
        BY ONLY <1>3, <2>1, <3>2
      <4>2. QED
        BY <1>1, <3>2, <4>1 DEF MayCallIsLive
    <3>3. QED
      BY <3>1, <3>2
  <2>2. QED
    BY <2>1 DEF MayCallIsLive
<1>11. OneMayCallPerSlot'
  BY <1>3, <1>4 DEF OneMayCallPerSlot, Rivals
<1>12. QED
  BY <1>6, <1>7, <1>8, <1>9, <1>10, <1>11

\* The acquire call failed: the row gets the reason that frees the slot, and
\* no caller is left to call for it.
LEMMA InvAcquireFails ==
  ASSUME DispatchInv, TypeOK', NEW c \in Callers, NEW d \in Requests,
         AcquireUncertain(c, d) \/ AcquireRefused(c, d)
  PROVE  DispatchInv'
<1> USE ActorAssumption DEF DispatchInv, TypeOK, StoreTypeOK, Actors
<1>1. /\ job[c] = d /\ step[c] \in BeforeCall
      /\ job'[c] = NoRequest /\ step'[c] = "idle"
      /\ \A b \in Callers \ {c} : step'[b] = step[b] /\ job'[b] = job[b]
      /\ \A e \in Requests : Issued(e)' = Issued(e)
      /\ \A e \in Requests \ {d} : spawn'[e] = spawn[e] /\ reason'[e] = reason[e]
      /\ MarkSpawnReview(d, "blocked")
  <2>1. /\ At(c, "acquire", d) \/ At(c, "acquiring", d)
        /\ Leave(c)
        /\ UNCHANGED gwVars
        /\ MarkSpawnReview(d, "blocked")
    BY DEF AcquireUncertain, AcquireRefused, Finish
  <2>2. job[c] = d /\ step[c] \in BeforeCall
    BY <2>1 DEF At, BeforeCall
  <2>3. /\ job'[c] = NoRequest /\ step'[c] = "idle"
        /\ \A b \in Callers \ {c} : step'[b] = step[b] /\ job'[b] = job[b]
    BY <2>1 DEF Leave
  <2>4. \A e \in Requests : Issued(e)' = Issued(e)
    BY <2>1 DEF gwVars, Issued
  <2>5. \A e \in Requests \ {d} : spawn'[e] = spawn[e] /\ reason'[e] = reason[e]
    BY <2>1 DEF MarkSpawnReview
  <2>6. QED
    BY <2>1, <2>2, <2>3, <2>4, <2>5
<1>2. \A e \in Requests : MayCall(e)' => MayCall(e) /\ e # d
  <2>1. ~Issued(d)
    BY <1>1 DEF NotYetCalled, WorksOn
  <2>2. ASSUME NEW b \in Callers
        PROVE  job'[b] # d
    <3>1. d # NoRequest
      BY ActorAssumption
    <3>2. CASE b = c
      BY <1>1, <3>1, <3>2
    <3>3. CASE b # c
      BY <1>1, <3>1, <3>3 DEF OneCallerPerRequest
    <3>4. QED
      BY <3>2, <3>3
  <2>3. ASSUME NEW e \in Requests, MayCall(e)'
        PROVE  MayCall(e) /\ e # d
    <3>1. CASE Issued(e)'
      BY <1>1, <2>1, <3>1 DEF MayCall
    <3>2. CASE \E b \in Callers : WorksOn(b, e, BeforeCall)'
      <4>1. PICK b \in Callers : job'[b] = e /\ step'[b] \in BeforeCall
        BY <3>2 DEF WorksOn
      <4>2. b # c
        BY <1>1, <4>1 DEF BeforeCall
      <4>3. WorksOn(b, e, BeforeCall)
        BY <1>1, <4>1, <4>2 DEF WorksOn
      <4>4. QED
        BY <2>2, <4>1, <4>3 DEF MayCall
    <3>3. QED
      BY <2>3, <3>1, <3>2 DEF MayCall
  <2>4. QED
    BY <2>3
<1>3. WorkHasRow'
  <2>1. \A e \in Requests : spawn[e] # "none" => spawn'[e] # "none"
    BY <1>1 DEF MarkSpawnReview, Review
  <2>2. \A b \in Callers, e \in Requests : job'[b] = e => job[b] = e
    BY <1>1
  <2>3. QED
    BY <2>1, <2>2 DEF WorkHasRow
<1>4. ReasonOnlyInReview'
  <2>1. spawn'[d] = Review \/ (spawn'[d] = spawn[d] /\ reason'[d] = reason[d])
    BY <1>1 DEF MarkSpawnReview
  <2>2. ASSUME NEW e \in Requests, reason'[e] # "none"
        PROVE  spawn'[e] = Review
    <3>1. CASE e = d
      BY <2>1, <2>2, <3>1 DEF ReasonOnlyInReview
    <3>2. CASE e # d
      BY <1>1, <2>2, <3>2 DEF ReasonOnlyInReview
    <3>3. QED
      BY <3>1, <3>2
  <2>3. QED
    BY <2>2 DEF ReasonOnlyInReview
<1>5. OneCallerPerRequest'
  <2>1. \A b \in Callers : job'[b] \in {job[b], NoRequest}
    BY <1>1
  <2>2. QED
    BY <2>1 DEF OneCallerPerRequest
<1>6. NotYetCalled'
  <2>1. ASSUME NEW b \in Callers, NEW e \in Requests, WorksOn(b, e, BeforeCall)'
        PROVE  WorksOn(b, e, BeforeCall) /\ Issued(e)' = Issued(e)
    <3>1. b # c
      BY <1>1, <2>1 DEF WorksOn
    <3>2. QED
      BY <1>1, <2>1, <3>1 DEF WorksOn
  <2>2. QED
    BY <2>1 DEF NotYetCalled
<1>7. MayCallIsLive'
  BY <1>1, <1>2 DEF MayCallIsLive
<1>8. OneMayCallPerSlot'
  BY <1>2 DEF OneMayCallPerSlot
<1>9. QED
  BY <1>3, <1>4, <1>5, <1>6, <1>7, <1>8

LEMMA InvSpawnCall ==
  ASSUME DispatchInv, TypeOK', NEW c \in Callers, NEW d \in Requests, SpawnCall(c, d)
  PROVE  DispatchInv'
<1> USE ActorAssumption DEF DispatchInv, TypeOK, StoreTypeOK, Actors
<1>1. /\ job[c] = d /\ step[c] = "spawn" /\ step'[c] = "spawning"
      /\ job' = job /\ spawn' = spawn /\ reason' = reason
      /\ \A b \in Callers \ {c} : step'[b] = step[b]
      /\ \A e \in Requests \ {d} : Issued(e)' = Issued(e)
  BY DEF SpawnCall, At, Send, Goto, storeVars, Issued
<1>2. MayCall(d)
  BY <1>1 DEF MayCall, WorksOn, BeforeCall
<1>3. \A e \in Requests : MayCall(e)' => MayCall(e)
  BY <1>1, <1>2 DEF MayCall, WorksOn, BeforeCall
<1>4. NotYetCalled'
  <2>1. ASSUME NEW b \in Callers, NEW e \in Requests, WorksOn(b, e, BeforeCall)'
        PROVE  b # c /\ e # d /\ WorksOn(b, e, BeforeCall)
    <3>1. b # c /\ job[b] = e /\ step[b] \in BeforeCall
      BY <1>1, <2>1 DEF WorksOn, BeforeCall
    <3>2. e # d
      BY <1>1, <3>1 DEF OneCallerPerRequest
    <3>3. QED
      BY <3>1, <3>2 DEF WorksOn
  <2>2. QED
    BY <1>1, <2>1 DEF NotYetCalled
<1>5. MayCallIsLive'
  BY <1>1, <1>3 DEF MayCallIsLive
<1>6. OneMayCallPerSlot'
  BY <1>3 DEF OneMayCallPerSlot
<1>7. WorkHasRow' /\ ReasonOnlyInReview' /\ OneCallerPerRequest'
  BY <1>1 DEF WorkHasRow, ReasonOnlyInReview, OneCallerPerRequest
<1>8. QED
  BY <1>4, <1>5, <1>6, <1>7

LEMMA CallerInv ==
  ASSUME DispatchInv, TypeOK', NEW c \in Callers, NEW d \in Requests, CallerStep(c, d)
  PROVE  DispatchInv'
<1> USE ActorAssumption DEF DispatchInv, TypeOK, StoreTypeOK, Actors, Calm, Issued,
                            ReasonOnlyInReview, BeforeCall
<1>1. CASE Replay(c, d)
  <2>1. Calm
    BY <1>1 DEF Replay, storeVars, gwVars
  <2>2. QED
    BY <2>1, CalmKeepsInv
<1>2. CASE AcquireCall(c, d)
  <2>1. Calm
    BY <1>2 DEF AcquireCall, At, Send, Goto, storeVars
  <2>2. QED
    BY <2>1, CalmKeepsInv
<1>3. CASE AcquirePersist(c, d)
  <2>1. Calm
    BY <1>3 DEF AcquirePersist, At, Goto, gwVars
  <2>2. QED
    BY <2>1, CalmKeepsInv
<1>4. CASE LeaseStillValid(c, d)
  <2>1. Calm
    BY <1>4 DEF LeaseStillValid, At, Goto, storeVars, gwVars
  <2>2. QED
    BY <2>1, CalmKeepsInv
<1>5. CASE LeaseExpiredLocally(c, d)
  <2>1. Calm
    BY <1>5 DEF LeaseExpiredLocally, ExpireLeaseBeforeSpawn, MarkSpawnReview, Review,
                Unsettled, Finish, Leave, gwVars
  <2>2. QED
    BY <2>1, CalmKeepsInv
<1>6. CASE SpawnPersist(c, d)
  <2>1. Calm
    BY <1>6 DEF SpawnPersist, PersistSpawnAcceptance, CanPersistSpawn, Review,
                Unsettled, Leave, gwVars
  <2>2. QED
    BY <2>1, CalmKeepsInv
<1>7. CASE SpawnUncertain(c, d)
  <2>1. Calm
    BY <1>7 DEF SpawnUncertain, MarkSpawnReview, Review, Unsettled, Finish, Leave, gwVars
  <2>2. QED
    BY <2>1, CalmKeepsInv
<1>8. CASE SpawnRefused(c, d)
  <2>1. Calm
    BY <1>8 DEF SpawnRefused, At, MarkSpawnReview, Review, Unsettled, Goto, gwVars
  <2>2. QED
    BY <2>1, CalmKeepsInv
<1>9. QED
  BY <1>1, <1>2, <1>3, <1>4, <1>5, <1>6, <1>7, <1>8,
     InvBegin, InvAcquireFails, InvSpawnCall DEF CallerStep

LEMMA ReleaseIsCalm ==
  ASSUME DispatchInv, NEW a \in Actors, NEW d \in Requests, ReleaseStep(a, d)
  PROVE  Calm
<1> USE ActorAssumption DEF DispatchInv, TypeOK, StoreTypeOK, Actors, Calm, Issued,
                            ReasonOnlyInReview, BeforeCall
<1>1. CASE PrepareRelease(a, d)
  BY <1>1 DEF PrepareRelease, Goto, gwVars
<1>2. CASE ReleaseCall(a, d)
  BY <1>2 DEF ReleaseCall, Send, Goto, storeVars
<1>3. CASE ReleasePersist(a, d)
  BY <1>3 DEF ReleasePersist, Finish, Leave, gwVars
<1>4. CASE ReleaseFails(a, d)
  BY <1>4 DEF ReleaseFails, Finish, Leave, gwVars
<1>5. CASE ReleaseUncertain(a, d)
  BY <1>5 DEF ReleaseUncertain, Finish, Leave, gwVars
<1>6. QED
  BY <1>1, <1>2, <1>3, <1>4, <1>5 DEF ReleaseStep

LEMMA PassIsCalm ==
  ASSUME DispatchInv, NEW r \in Reconcilers,
         StartPass(r) \/ ListLeases(r) \/ Advance(r) \/ EndPass(r) \/ PassStops(r)
  PROVE  Calm
BY ActorAssumption
DEF DispatchInv, TypeOK, Actors, Calm, Issued, ReasonOnlyInReview,
    StartPass, ListLeases, Advance, EndPass, PassStops, Leave, callVars, storeVars, gwVars

LEMMA ItemIsCalm ==
  ASSUME DispatchInv, NEW r \in Reconcilers, NEW d \in Requests, ItemStep(r, d)
  PROVE  Calm
<1> USE ActorAssumption DEF DispatchInv, TypeOK, StoreTypeOK, Actors, Calm, Issued,
        ReasonOnlyInReview, Unsettled, Review, Done, callVars, storeVars, gwVars
<1>1. CASE ReviewPendingRelease(r, d) \/ CleanupUnmatched(r, d) \/ CleanupAdopt(r, d)
  BY <1>1 DEF ReviewPendingRelease, CleanupUnmatched, CleanupAdopt
<1>2. CASE AcquireUnmatched(r, d) \/ AcquireMatched(r, d) \/ AcquireMatchedTooLate(r, d)
  BY <1>2 DEF AcquireUnmatched, AcquireMatched, AcquireMatchedTooLate
<1>3. CASE SpawnUnproven(r, d) \/ SpawnUnmatched(r, d)
  BY <1>3 DEF SpawnUnproven, SpawnUnmatched, MarkSpawnReview
<1>4. CASE SpawnMatched(r, d)
  BY <1>4 DEF SpawnMatched, PersistSpawnAcceptance, CanPersistSpawn
<1>5. QED
  BY <1>1, <1>2, <1>3, <1>4 DEF ItemStep

LEMMA OutsideIsCalm ==
  ASSUME DispatchInv, Outside
  PROVE  Calm
<1> USE ActorAssumption DEF DispatchInv, TypeOK, Actors, Calm, Issued, ReasonOnlyInReview
<1>1. ASSUME NEW d \in Requests, GraceElapses(d),
             UNCHANGED <<gwVars, callVars, todo, passVars>>
      PROVE  Calm
  BY <1>1 DEF GraceElapses, gwVars, callVars
<1>2. ASSUME NEW d \in Requests, GatewayStep(d),
             UNCHANGED <<storeVars, callVars, todo, passVars>>
      PROVE  Calm
  BY <1>2 DEF GatewayStep, ApplyAcquire, ApplySpawn, ApplyRelease, GatewayExpires,
              storeVars, callVars
<1>3. QED
  BY <1>1, <1>2 DEF Outside

LEMMA DispatchInvStep == DispatchInv /\ [Next]_vars => DispatchInv'
<1> SUFFICES ASSUME DispatchInv, [Next]_vars PROVE DispatchInv'
  OBVIOUS
<1>1. TypeOK'
  BY TypeStep DEF DispatchInv
<1>2. CASE Dispatching
  <2>1. ASSUME NEW c \in Callers, CallerStops(c) PROVE Calm
    BY <2>1, ActorAssumption DEF CallerStops, Leave, DispatchInv, TypeOK, Actors, Calm,
       Issued, ReasonOnlyInReview, storeVars, gwVars
  <2>2. QED
    BY <1>1, <1>2, <2>1, CallerInv, ReleaseIsCalm, CalmKeepsInv DEF Dispatching
<1>3. CASE Reconciling
  BY <1>1, <1>3, PassIsCalm, ItemIsCalm, CalmKeepsInv DEF Reconciling
<1>4. CASE Outside
  BY <1>1, <1>4, OutsideIsCalm, CalmKeepsInv
<1>5. CASE UNCHANGED vars
  <2>1. Calm
    BY <1>5, ActorAssumption DEF vars, storeVars, gwVars, callVars, DispatchInv, TypeOK,
       Actors, Calm, Issued, ReasonOnlyInReview
  <2>2. QED
    BY <1>1, <2>1, CalmKeepsInv
<1>6. QED
  BY <1>2, <1>3, <1>4, <1>5 DEF Next

\* Every reachable state satisfies the inductive invariant of the slot.
THEOREM SlotInvariant == Spec => []DispatchInv
<1>1. QED
  BY DispatchInvInit, DispatchInvStep, PTL DEF Spec

\* Whatever crashes, timeouts, late answers, retries and reconciliation
\* passes come between, at most one dispatch of a (run, phase, agent) slot
\* ever lets a sessions_spawn call leave.
THEOREM SpawnIsUniquePerSlot == Spec => []OneSpawnPerSlot
<1>1. DispatchInv => OneSpawnPerSlot
  BY DEF DispatchInv, OneMayCallPerSlot, MayCall, OneSpawnPerSlot
<1>2. QED
  BY <1>1, DispatchInvInit, DispatchInvStep, PTL DEF Spec

-----------------------------------------------------------------------------
(* Verdicts *)

\* What VerdictIsFinal says of one step.
VerdictsStay ==
  \A d \in Requests :
    /\ spawn[d] \in Settled \cup {Review} => spawn'[d] = spawn[d]
    /\ lease[d] \in {"released", "expired", Review} => lease'[d] = lease[d]
    /\ release[d] \in Settled => release'[d] = release[d]

LEMMA CallerKeepsVerdicts ==
  ASSUME TypeOK, RowsInsertedTogether,
         NEW c \in Callers, NEW d \in Requests, CallerStep(c, d)
  PROVE  VerdictsStay /\ RowsInsertedTogether'
<1> USE DEF TypeOK, StoreTypeOK, RowsInsertedTogether, VerdictsStay, Unsettled, Settled,
            Review
<1>1. CASE Begin(c, d)
  BY <1>1 DEF Begin, InsertPendingDispatch
<1>2. CASE \/ Replay(c, d) \/ AcquireCall(c, d) \/ LeaseStillValid(c, d)
           \/ SpawnCall(c, d)
  BY <1>2 DEF Replay, AcquireCall, LeaseStillValid, SpawnCall, storeVars
<1>3. CASE AcquirePersist(c, d)
  BY <1>3 DEF AcquirePersist, PersistAcquiredLease, CanPersistAcquired
<1>4. CASE AcquireUncertain(c, d)
  BY <1>4 DEF AcquireUncertain, MarkAcquireUnknown, MarkSpawnReview
<1>5. CASE AcquireRefused(c, d)
  BY <1>5 DEF AcquireRefused, MarkAcquireReview, MarkSpawnReview
<1>6. CASE LeaseExpiredLocally(c, d)
  BY <1>6 DEF LeaseExpiredLocally, ExpireLeaseBeforeSpawn, MarkSpawnReview
<1>7. CASE SpawnPersist(c, d)
  BY <1>7 DEF SpawnPersist, PersistSpawnAcceptance, CanPersistSpawn
<1>8. CASE SpawnUncertain(c, d) \/ SpawnRefused(c, d)
  BY <1>8 DEF SpawnUncertain, SpawnRefused, MarkSpawnReview
<1>9. QED
  BY <1>1, <1>2, <1>3, <1>4, <1>5, <1>6, <1>7, <1>8 DEF CallerStep

LEMMA ReleaseKeepsVerdicts ==
  ASSUME TypeOK, RowsInsertedTogether,
         NEW a \in Actors, NEW d \in Requests, ReleaseStep(a, d)
  PROVE  VerdictsStay /\ RowsInsertedTogether'
<1> USE DEF TypeOK, StoreTypeOK, RowsInsertedTogether, VerdictsStay, Unsettled, Settled,
            Review
<1>1. CASE PrepareRelease(a, d)
  BY <1>1 DEF PrepareRelease, PrepareOwnedLeaseRelease
<1>2. CASE ReleaseCall(a, d)
  BY <1>2 DEF ReleaseCall, storeVars
<1>3. CASE ReleasePersist(a, d)
  BY <1>3 DEF ReleasePersist, PersistReleasedLease
<1>4. CASE ReleaseFails(a, d)
  BY <1>4 DEF ReleaseFails, MarkReleaseReview
<1>5. CASE ReleaseUncertain(a, d)
  BY <1>5 DEF ReleaseUncertain, MarkReleaseUnknown
<1>6. QED
  BY <1>1, <1>2, <1>3, <1>4, <1>5 DEF ReleaseStep

LEMMA ItemKeepsVerdicts ==
  ASSUME TypeOK, RowsInsertedTogether,
         NEW r \in Reconcilers, NEW d \in Requests, ItemStep(r, d)
  PROVE  VerdictsStay /\ RowsInsertedTogether'
<1> USE DEF TypeOK, StoreTypeOK, RowsInsertedTogether, VerdictsStay, Unsettled, Settled,
            Review
<1>1. CASE ReviewPendingRelease(r, d) \/ CleanupUnmatched(r, d)
  BY <1>1 DEF ReviewPendingRelease, CleanupUnmatched, MarkReleaseReview
<1>2. CASE AcquireUnmatched(r, d)
  BY <1>2 DEF AcquireUnmatched, MarkAcquireReview
<1>3. CASE AcquireMatched(r, d)
  BY <1>3 DEF AcquireMatched, PersistAcquiredLease, CanPersistAcquired
<1>4. CASE AcquireMatchedTooLate(r, d) \/ CleanupAdopt(r, d)
  BY <1>4 DEF AcquireMatchedTooLate, CleanupAdopt, storeVars
<1>5. CASE SpawnUnproven(r, d) \/ SpawnUnmatched(r, d)
  BY <1>5 DEF SpawnUnproven, SpawnUnmatched, MarkSpawnReview
<1>6. CASE SpawnMatched(r, d)
  BY <1>6 DEF SpawnMatched, PersistSpawnAcceptance, CanPersistSpawn
<1>7. QED
  BY <1>1, <1>2, <1>3, <1>4, <1>5, <1>6 DEF ItemStep

LEMMA RowsStay ==
  ASSUME RowsInsertedTogether, UNCHANGED <<acquire, spawn, release, lease>>
  PROVE  VerdictsStay /\ RowsInsertedTogether'
BY DEF RowsInsertedTogether, VerdictsStay

LEMMA VerdictStep ==
  TypeOK /\ RowsInsertedTogether /\ [Next]_vars => VerdictsStay /\ RowsInsertedTogether'
<1> SUFFICES ASSUME TypeOK, RowsInsertedTogether, [Next]_vars
             PROVE  VerdictsStay /\ RowsInsertedTogether'
  OBVIOUS
<1>1. CASE Dispatching
  <2>1. \A c \in Callers : CallerStops(c) => UNCHANGED <<acquire, spawn, release, lease>>
    BY DEF CallerStops, storeVars
  <2>2. QED
    BY <1>1, <2>1, RowsStay, CallerKeepsVerdicts, ReleaseKeepsVerdicts DEF Dispatching
<1>2. CASE Reconciling
  <2>1. \A r \in Reconcilers :
          StartPass(r) \/ ListLeases(r) \/ Advance(r) \/ EndPass(r) \/ PassStops(r) =>
            UNCHANGED <<acquire, spawn, release, lease>>
    BY DEF StartPass, ListLeases, Advance, EndPass, PassStops, storeVars
  <2>2. QED
    BY <1>2, <2>1, RowsStay, ItemKeepsVerdicts DEF Reconciling
<1>3. CASE Outside
  <2>1. UNCHANGED <<acquire, spawn, release, lease>>
    BY <1>3 DEF Outside, GraceElapses, storeVars
  <2>2. QED
    BY <2>1, RowsStay
<1>4. CASE UNCHANGED vars
  BY <1>4, RowsStay DEF vars, storeVars
<1>5. QED
  BY <1>1, <1>2, <1>3, <1>4 DEF Next

LEMMA RowsInit == Init => RowsInsertedTogether
BY DEF Init, StoreInit, RowsInsertedTogether

\* A late answer, a late reconciliation or a late error never changes a
\* verdict: accepted, reconciled and human review of a spawn are final, and
\* so are a released, an expired and a reviewed lease and a settled release.
THEOREM VerdictsAreFinal == Spec => VerdictIsFinal
<1>1. TypeOK /\ RowsInsertedTogether /\ [Next]_vars => (TypeOK /\ RowsInsertedTogether)'
  BY TypeStep, VerdictStep
<1>2. TypeOK /\ RowsInsertedTogether /\ [Next]_vars => VerdictsStay
  BY VerdictStep
<1>3. QED
  BY <1>1, <1>2, TypeInit, RowsInit, PTL DEF Spec, VerdictIsFinal, VerdictsStay

-----------------------------------------------------------------------------
(* Answers *)

\* A step after which no request is newly accepted and nothing newly answered.
NoNewAnswer ==
  /\ gwSessions \subseteq gwSessions'
  /\ \A r \in Reconcilers : seenSessions'[r] \subseteq seenSessions[r] \cup gwSessions
  /\ \A d \in Requests : spawn'[d] \in Settled => spawn[d] \in Settled
  /\ \A d \in Requests : spawn[d] \in Settled => spawn'[d] \in Settled
  /\ answered' = answered

LEMMA NoNewAnswerKeepsInv ==
  ASSUME AnswerInv, TypeOK', NoNewAnswer
  PROVE  AnswerInv'
BY DEF AnswerInv, TypeOK, SeenSessionsExist, AcceptedHasSession, AnswerHasSession,
       NoNewAnswer, GatewayTypeOK

LEMMA CallerKeepsAnswers ==
  ASSUME AnswerInv, TypeOK', UNCHANGED passVars,
         NEW c \in Callers, NEW d \in Requests, CallerStep(c, d)
  PROVE  AnswerInv'
<1>1. CASE Replay(c, d)
  BY <1>1 DEF Replay, AnswerInv, TypeOK, SeenSessionsExist, AcceptedHasSession,
     AnswerHasSession, storeVars, gwVars, passVars
<1>2. CASE SpawnPersist(c, d)
  <2>1. /\ d \in gwSessions
        /\ spawn' = [spawn EXCEPT ![d] = "accepted"]
        /\ answered' = answered \cup {d}
        /\ UNCHANGED <<gwSessions, seenSessions>>
    BY <1>2 DEF SpawnPersist, PersistSpawnAcceptance, gwVars, passVars
  <2>2. QED
    BY <2>1 DEF AnswerInv, TypeOK, StoreTypeOK, SeenSessionsExist, AcceptedHasSession,
       AnswerHasSession, Settled
<1>3. CASE ~Replay(c, d) /\ ~SpawnPersist(c, d)
  <2>1. NoNewAnswer
    <3> USE DEF AnswerInv, TypeOK, StoreTypeOK, NoNewAnswer, Unsettled, Settled, Review,
                passVars
    <3>1. CASE Begin(c, d)
      BY <3>1 DEF Begin, InsertPendingDispatch, gwVars
    <3>2. CASE AcquireCall(c, d) \/ LeaseStillValid(c, d) \/ SpawnCall(c, d)
      BY <3>2 DEF AcquireCall, LeaseStillValid, SpawnCall, Send, Goto, storeVars, gwVars
    <3>3. CASE AcquirePersist(c, d)
      BY <3>3 DEF AcquirePersist, Goto, gwVars
    <3>4. CASE AcquireUncertain(c, d) \/ AcquireRefused(c, d) \/ SpawnUncertain(c, d)
      BY <3>4 DEF AcquireUncertain, AcquireRefused, SpawnUncertain, MarkSpawnReview,
         Finish, gwVars
    <3>5. CASE LeaseExpiredLocally(c, d)
      BY <3>5 DEF LeaseExpiredLocally, ExpireLeaseBeforeSpawn, MarkSpawnReview, Finish, gwVars
    <3>6. CASE SpawnRefused(c, d)
      BY <3>6 DEF SpawnRefused, MarkSpawnReview, Goto, gwVars
    <3>7. QED
      BY <1>3, <3>1, <3>2, <3>3, <3>4, <3>5, <3>6 DEF CallerStep
  <2>2. QED
    BY <2>1, NoNewAnswerKeepsInv
<1>4. QED
  BY <1>1, <1>2, <1>3

LEMMA ItemKeepsAnswers ==
  ASSUME AnswerInv, TypeOK', NEW r \in Reconcilers, NEW d \in Requests, ItemStep(r, d)
  PROVE  AnswerInv'
<1>1. CASE SpawnMatched(r, d)
  <2>1. /\ d \in seenSessions[r]
        /\ spawn' = [spawn EXCEPT ![d] = "reconciled"]
        /\ UNCHANGED <<answered, gwSessions, seenSessions>>
    BY <1>1 DEF SpawnMatched, PersistSpawnAcceptance, Done, callVars, passVars, gwVars
  <2>2. d \in gwSessions
    BY <2>1 DEF AnswerInv, SeenSessionsExist
  <2>3. QED
    BY <2>1, <2>2 DEF AnswerInv, TypeOK, StoreTypeOK, SeenSessionsExist,
       AcceptedHasSession, AnswerHasSession, Settled
<1>2. CASE ~SpawnMatched(r, d)
  <2>1. NoNewAnswer
    <3> USE DEF AnswerInv, TypeOK, StoreTypeOK, NoNewAnswer, Unsettled, Settled, Review,
                Done, callVars, passVars, storeVars, gwVars
    <3>1. CASE ReviewPendingRelease(r, d) \/ CleanupUnmatched(r, d) \/ CleanupAdopt(r, d)
      BY <3>1 DEF ReviewPendingRelease, CleanupUnmatched, CleanupAdopt
    <3>2. CASE AcquireUnmatched(r, d) \/ AcquireMatched(r, d)
      BY <3>2 DEF AcquireUnmatched, AcquireMatched
    <3>3. CASE AcquireMatchedTooLate(r, d)
      BY <3>3 DEF AcquireMatchedTooLate, ForgetPass
    <3>4. CASE SpawnUnproven(r, d) \/ SpawnUnmatched(r, d)
      BY <3>4 DEF SpawnUnproven, SpawnUnmatched, MarkSpawnReview
    <3>5. QED
      BY <1>2, <3>1, <3>2, <3>3, <3>4 DEF ItemStep
  <2>2. QED
    BY <2>1, NoNewAnswerKeepsInv
<1>3. QED
  BY <1>1, <1>2

LEMMA AnswerInvInit == Init => AnswerInv
BY TypeInit DEF Init, StoreInit, GatewayInit, AnswerInv, SeenSessionsExist,
   AcceptedHasSession, AnswerHasSession, Settled

LEMMA AnswerInvStep == AnswerInv /\ [Next]_vars => AnswerInv'
<1> SUFFICES ASSUME AnswerInv, [Next]_vars PROVE AnswerInv'
  OBVIOUS
<1>1. TypeOK'
  BY TypeStep DEF AnswerInv
<1> USE DEF AnswerInv, TypeOK, NoNewAnswer
<1>2. CASE Dispatching
  <2>1. ASSUME NEW c \in Callers, CallerStops(c), UNCHANGED passVars PROVE NoNewAnswer
    BY <2>1 DEF CallerStops, Leave, storeVars, gwVars, passVars
  <2>2. ASSUME NEW a \in Actors, NEW d \in Requests, ReleaseStep(a, d), UNCHANGED passVars
        PROVE  NoNewAnswer
    BY <2>2 DEF ReleaseStep, PrepareRelease, ReleaseCall, ReleasePersist, ReleaseFails,
       ReleaseUncertain, Finish, Goto, Send, storeVars, gwVars, passVars
  <2>3. QED
    BY <1>1, <1>2, <2>1, <2>2, NoNewAnswerKeepsInv, CallerKeepsAnswers DEF Dispatching
<1>3. CASE Reconciling
  <2>1. ASSUME NEW r \in Reconcilers,
               StartPass(r) \/ ListLeases(r) \/ Advance(r) \/ EndPass(r) \/ PassStops(r)
        PROVE  NoNewAnswer
    BY <2>1 DEF StartPass, ListLeases, Advance, EndPass, PassStops, ForgetPass,
       callVars, storeVars, gwVars
  <2>2. QED
    BY <1>1, <1>3, <2>1, NoNewAnswerKeepsInv, ItemKeepsAnswers DEF Reconciling
<1>4. CASE Outside
  <2>1. ASSUME NEW d \in Requests, GatewayStep(d),
               UNCHANGED <<storeVars, callVars, todo, passVars>>
        PROVE  NoNewAnswer
    BY <2>1 DEF GatewayStep, ApplyAcquire, ApplySpawn, ApplyRelease, GatewayExpires,
       storeVars, callVars, passVars
  <2>2. ASSUME NEW d \in Requests, GraceElapses(d),
               UNCHANGED <<gwVars, callVars, todo, passVars>>
        PROVE  NoNewAnswer
    BY <2>2 DEF GraceElapses, gwVars, callVars, passVars
  <2>3. QED
    BY <1>1, <1>4, <2>1, <2>2, NoNewAnswerKeepsInv DEF Outside
<1>5. CASE UNCHANGED vars
  <2>1. NoNewAnswer
    BY <1>5 DEF vars, storeVars, gwVars, callVars, passVars
  <2>2. QED
    BY <1>1, <2>1, NoNewAnswerKeepsInv
<1>6. QED
  BY <1>2, <1>3, <1>4, <1>5 DEF Next

\* A caller that was handed a result, by its own dispatch or by a replay, can
\* rely on it whatever the transport answers: the session exists, and the
\* row is accepted or reconciled.
THEOREM AnswersAreGrounded == Spec => []AnswerHasSession
<1>1. AnswerInv => AnswerHasSession
  BY DEF AnswerInv
<1>2. QED
  BY <1>1, AnswerInvInit, AnswerInvStep, PTL DEF Spec
=============================================================================
