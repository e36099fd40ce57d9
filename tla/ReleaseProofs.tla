---------------------------- MODULE ReleaseProofs ----------------------------
(***************************************************************************)
(* Which leases dispatching may release, and when a slot passes from one   *)
(* dispatch to the next, for every set of requests, slots, callers and     *)
(* passes.  The results about releases need a transport that answers with  *)
(* objects only: released_spawned.cfg shows what happens without.  Those   *)
(* about the slots hold whatever the transport answers: the lease rows     *)
(* follow the Gateway's lease, and the dispatcher implements SpawnArbiter. *)
(***************************************************************************)
EXTENDS DispatchProofs

-----------------------------------------------------------------------------
(* Releases *)

LEMMA ReleaseInvInit == Init => ReleaseInv
BY DEF Init, StoreInit, GatewayInit, Actors, ReleaseInv, CleanupItemsBlocked,
       PassReleasesItem, CallerReleasesUncalled, ReleaseHasNoCall, LeaseHeldForCall,
       SpawningIsIssued, SeenSessionsExist, SpawnItemsHaveProof, AcceptedSpawnHasProof,
       WorksOn, Releasing, Settled

\* Who releases the lease of d can rely on d never being called.
LEMMA ReleaserIsUncalled ==
  ASSUME DispatchInv, ReleaseInv, NEW a \in Actors, NEW d \in Requests,
         WorksOn(a, d, Releasing)
  PROVE  /\ spawn[d] \notin Unsettled \cup Settled
         /\ ~MayCall(d)
         /\ \A c \in Callers : ~WorksOn(c, d, {"leased", "spawn", "spawning"})
<1> USE DEF DispatchInv, ReleaseInv
<1>1. spawn[d] \notin Unsettled \cup Settled /\ ~MayCall(d)
  <2>1. CASE a \in Reconcilers
    <3>1. reason[d] = "blocked"
      BY <2>1 DEF PassReleasesItem, CleanupItemsBlocked, WorksOn, Releasing
    <3>2. QED
      BY <3>1 DEF ReasonOnlyInReview, MayCallIsLive, Unsettled, Settled, Review
  <2>2. CASE a \in Callers
    <3>1. ~Issued(d) /\ spawn[d] \notin Unsettled
      BY <2>2 DEF CallerReleasesUncalled
    <3>2. spawn[d] \notin Settled
      BY <3>1 DEF AcceptedSpawnHasProof, Issued
    <3>3. \A c \in Callers : ~WorksOn(c, d, BeforeCall)
      BY <2>2, ActorAssumption DEF OneCallerPerRequest, WorksOn, BeforeCall, Releasing
    <3>4. QED
      BY <3>1, <3>2, <3>3 DEF MayCall
  <2>3. QED
    BY <2>1, <2>2 DEF Actors
<1>2. \A c \in Callers : ~WorksOn(c, d, {"leased", "spawn", "spawning"})
  BY <1>1 DEF MayCall, WorksOn, BeforeCall, SpawningIsIssued
<1>3. QED
  BY <1>1, <1>2

LEMMA CallerKeepsReleaseInv ==
  ASSUME ObjectResponses, DispatchInv, ReleaseInv, TypeOK', UNCHANGED passVars,
         NEW c \in Callers, NEW d \in Requests, CallerStep(c, d)
  PROVE  ReleaseInv'
<1> USE ActorAssumption
    DEF DispatchInv, ReleaseInv, TypeOK, StoreTypeOK, Actors, Unsettled, Settled, Review,
        WorkHasRow, ReasonOnlyInReview, OneCallerPerRequest, NotYetCalled, MayCall,
        WorksOn, BeforeCall, Releasing, Issued, AcquiredLeaseProof, passVars,
        CleanupItemsBlocked, PassReleasesItem, CallerReleasesUncalled, ReleaseHasNoCall,
        LeaseHeldForCall, SpawningIsIssued, SeenSessionsExist, SpawnItemsHaveProof,
        AcceptedSpawnHasProof, At
<1>1. CASE Begin(c, d)
  <2> USE <1>1 DEF Begin, InsertPendingDispatch, gwVars
  <2>1. CleanupItemsBlocked' /\ PassReleasesItem'
    OBVIOUS
  <2>2. CallerReleasesUncalled' /\ SpawningIsIssued'
    OBVIOUS
  <2>3. ReleaseHasNoCall'
    OBVIOUS
  <2>4. LeaseHeldForCall'
    OBVIOUS
  <2>5. SeenSessionsExist' /\ SpawnItemsHaveProof'
    OBVIOUS
  <2>6. AcceptedSpawnHasProof'
    OBVIOUS
  <2>7. QED
    BY ONLY <2>1, <2>2, <2>3, <2>4, <2>5, <2>6 DEF ReleaseInv
<1>2. CASE Replay(c, d)
  BY <1>2 DEF Replay, storeVars, gwVars
<1>3. CASE AcquireCall(c, d)
  BY <1>3 DEF AcquireCall, Send, Goto, storeVars
<1>4. CASE AcquirePersist(c, d)
  <2> USE <1>4 DEF AcquirePersist, PersistAcquiredLease, CanPersistAcquired, Goto, gwVars
  <2>1. CleanupItemsBlocked' /\ PassReleasesItem'
    OBVIOUS
  <2>2. CallerReleasesUncalled' /\ SpawningIsIssued'
    OBVIOUS
  <2>3. ReleaseHasNoCall'
    OBVIOUS
  <2>4. LeaseHeldForCall'
    OBVIOUS
  <2>5. SeenSessionsExist' /\ SpawnItemsHaveProof'
    OBVIOUS
  <2>6. AcceptedSpawnHasProof'
    OBVIOUS
  <2>7. QED
    BY ONLY <2>1, <2>2, <2>3, <2>4, <2>5, <2>6 DEF ReleaseInv
<1>5. CASE AcquireUncertain(c, d)
  <2> USE <1>5 DEF AcquireUncertain, MarkAcquireUnknown, MarkSpawnReview, Finish, Leave, gwVars
  <2>1. CleanupItemsBlocked' /\ PassReleasesItem'
    OBVIOUS
  <2>2. CallerReleasesUncalled' /\ SpawningIsIssued'
    OBVIOUS
  <2>3. ReleaseHasNoCall'
    OBVIOUS
  <2>4. LeaseHeldForCall'
    OBVIOUS
  <2>5. SeenSessionsExist' /\ SpawnItemsHaveProof'
    OBVIOUS
  <2>6. AcceptedSpawnHasProof'
    OBVIOUS
  <2>7. QED
    BY ONLY <2>1, <2>2, <2>3, <2>4, <2>5, <2>6 DEF ReleaseInv
<1>6. CASE AcquireRefused(c, d)
  <2> USE <1>6 DEF AcquireRefused, MarkAcquireReview, MarkSpawnReview, Finish, Leave, gwVars
  <2>1. CleanupItemsBlocked' /\ PassReleasesItem'
    OBVIOUS
  <2>2. CallerReleasesUncalled' /\ SpawningIsIssued'
    OBVIOUS
  <2>3. ReleaseHasNoCall'
    OBVIOUS
  <2>4. LeaseHeldForCall'
    OBVIOUS
  <2>5. SeenSessionsExist' /\ SpawnItemsHaveProof'
    OBVIOUS
  <2>6. AcceptedSpawnHasProof'
    OBVIOUS
  <2>7. QED
    BY ONLY <2>1, <2>2, <2>3, <2>4, <2>5, <2>6 DEF ReleaseInv
<1>7. CASE LeaseStillValid(c, d)
  BY <1>7 DEF LeaseStillValid, Goto, storeVars, gwVars
<1>8. CASE LeaseExpiredLocally(c, d)
  <2> USE <1>8 DEF LeaseExpiredLocally, ExpireLeaseBeforeSpawn, MarkSpawnReview,
              Finish, Leave, gwVars
  <2>1. CleanupItemsBlocked' /\ PassReleasesItem'
    OBVIOUS
  <2>2. CallerReleasesUncalled' /\ SpawningIsIssued'
    OBVIOUS
  <2>3. ReleaseHasNoCall'
    OBVIOUS
  <2>4. LeaseHeldForCall'
    OBVIOUS
  <2>5. SeenSessionsExist' /\ SpawnItemsHaveProof'
    OBVIOUS
  <2>6. AcceptedSpawnHasProof'
    <3>1. spawn[d] \notin {"accepted", "reconciled"}
      OBVIOUS
    <3>2. spawn'[d] \notin {"accepted", "reconciled"}
      BY <3>1
    <3>3. ASSUME NEW e \in Requests, e # d
          PROVE  /\ spawn'[e] = spawn[e] /\ lease'[e] = lease[e]
                 /\ acquire' = acquire /\ gwSessions' = gwSessions
      BY <3>3
    <3>4. QED
      BY ONLY <3>2, <3>3, AcceptedSpawnHasProof
      DEF AcceptedSpawnHasProof, AcquiredLeaseProof, Settled
  <2>7. QED
    BY ONLY <2>1, <2>2, <2>3, <2>4, <2>5, <2>6 DEF ReleaseInv
<1>9. CASE SpawnCall(c, d)
  BY <1>9 DEF SpawnCall, Send, Goto, storeVars
<1>10. CASE SpawnPersist(c, d)
  <2> USE <1>10 DEF SpawnPersist, PersistSpawnAcceptance, CanPersistSpawn, Leave, gwVars
  <2>1. CleanupItemsBlocked' /\ PassReleasesItem'
    OBVIOUS
  <2>2. CallerReleasesUncalled' /\ SpawningIsIssued'
    OBVIOUS
  <2>3. ReleaseHasNoCall'
    OBVIOUS
  <2>4. LeaseHeldForCall'
    OBVIOUS
  <2>5. SeenSessionsExist' /\ SpawnItemsHaveProof'
    OBVIOUS
  <2>6. AcceptedSpawnHasProof'
    OBVIOUS
  <2>7. QED
    BY ONLY <2>1, <2>2, <2>3, <2>4, <2>5, <2>6 DEF ReleaseInv
<1>11. CASE SpawnUncertain(c, d)
  <2> USE <1>11 DEF SpawnUncertain, MarkSpawnReview, Finish, Leave, gwVars
  <2>1. CleanupItemsBlocked' /\ PassReleasesItem'
    OBVIOUS
  <2>2. CallerReleasesUncalled' /\ SpawningIsIssued'
    OBVIOUS
  <2>3. ReleaseHasNoCall'
    OBVIOUS
  <2>4. LeaseHeldForCall'
    OBVIOUS
  <2>5. SeenSessionsExist' /\ SpawnItemsHaveProof'
    OBVIOUS
  <2>6. AcceptedSpawnHasProof'
    OBVIOUS
  <2>7. QED
    BY ONLY <2>1, <2>2, <2>3, <2>4, <2>5, <2>6 DEF ReleaseInv
<1>12. CASE SpawnRefused(c, d)
  <2> USE <1>12 DEF SpawnRefused, MarkSpawnReview, Goto, gwVars
  <2>1. CleanupItemsBlocked' /\ PassReleasesItem'
    OBVIOUS
  <2>2. CallerReleasesUncalled' /\ SpawningIsIssued'
    OBVIOUS
  <2>3. ReleaseHasNoCall'
    OBVIOUS
  <2>4. LeaseHeldForCall'
    OBVIOUS
  <2>5. SeenSessionsExist' /\ SpawnItemsHaveProof'
    OBVIOUS
  <2>6. AcceptedSpawnHasProof'
    OBVIOUS
  <2>7. QED
    BY ONLY <2>1, <2>2, <2>3, <2>4, <2>5, <2>6 DEF ReleaseInv
<1>13. QED
  BY <1>1, <1>2, <1>3, <1>4, <1>5, <1>6, <1>7, <1>8, <1>9, <1>10, <1>11, <1>12
  DEF CallerStep

\* What a release step leaves alone: everything but the release of d, its
\* lease, and the process.
ReleaseFrame(a, d) ==
  /\ UNCHANGED <<acquire, spawn, reason, gwSessions>>
  /\ \A e \in Requests : Issued(e)' = Issued(e)
  /\ \A e \in Requests \ {d} : lease'[e] = lease[e] /\ release'[e] = release[e]
  /\ \A b \in Actors \ {a} : step'[b] = step[b] /\ job'[b] = job[b]
  /\ \A r \in Reconcilers : todo'[r] \subseteq todo[r]
  /\ \A r \in Reconcilers \ {a} : todo'[r] = todo[r]
  /\ \/ step'[a] = "idle"
     \/ step'[a] \in Releasing /\ job'[a] = d /\ todo' = todo

LEMMA ReleaseStepFrame ==
  ASSUME DispatchInv, NEW a \in Actors, NEW d \in Requests, ReleaseStep(a, d)
  PROVE  ReleaseFrame(a, d) /\ WorksOn(a, d, Releasing)
<1> USE ActorAssumption
    DEF DispatchInv, TypeOK, StoreTypeOK, Actors, ReleaseFrame, WorksOn, Releasing, At
<1>1. CASE PrepareRelease(a, d)
  BY <1>1 DEF PrepareRelease, PrepareOwnedLeaseRelease, Goto, gwVars, Issued
<1>2. CASE ReleaseCall(a, d)
  <2>1. \A e \in Requests : Issued(e)' = Issued(e)
    BY <1>2 DEF ReleaseCall, Send, Issued
  <2>2. QED
    BY <1>2, <2>1 DEF ReleaseCall, Send, Goto, storeVars
<1>3. CASE ReleasePersist(a, d)
  BY <1>3 DEF ReleasePersist, PersistReleasedLease, Finish, Leave, gwVars, Issued
<1>4. CASE ReleaseFails(a, d)
  BY <1>4 DEF ReleaseFails, MarkReleaseReview, Finish, Leave, gwVars, Issued
<1>5. CASE ReleaseUncertain(a, d)
  BY <1>5 DEF ReleaseUncertain, MarkReleaseUnknown, Finish, Leave, gwVars, Issued
<1>6. QED
  BY <1>1, <1>2, <1>3, <1>4, <1>5 DEF ReleaseStep

LEMMA ReleaseKeepsReleaseInv ==
  ASSUME DispatchInv, ReleaseInv, TypeOK', UNCHANGED passVars,
         NEW a \in Actors, NEW d \in Requests, ReleaseStep(a, d)
  PROVE  ReleaseInv'
<1>1. ReleaseFrame(a, d) /\ WorksOn(a, d, Releasing)
  BY ReleaseStepFrame
<1>2. /\ spawn[d] \notin Unsettled \cup Settled
      /\ ~MayCall(d)
      /\ \A c \in Callers : ~WorksOn(c, d, {"leased", "spawn", "spawning"})
  BY <1>1, ReleaserIsUncalled
<1>3. spawn[d] # "none"
  <2>1. CASE a \in Callers
    BY <1>1, <2>1 DEF DispatchInv, WorkHasRow, WorksOn
  <2>2. CASE a \in Reconcilers
    <3>1. reason[d] = "blocked"
      BY <1>1, <2>2 DEF ReleaseInv, PassReleasesItem, CleanupItemsBlocked, WorksOn, Releasing
    <3>2. QED
      BY <3>1 DEF DispatchInv, ReasonOnlyInReview, Review
  <2>3. QED
    BY <2>1, <2>2 DEF Actors
<1>4. ASSUME NEW c \in Callers, NEW e \in Requests, NEW S, "idle" \notin S,
             WorksOn(c, e, S)', ~(c = a /\ e = d)
      PROVE  WorksOn(c, e, S)
  BY <1>1, <1>4 DEF ReleaseFrame, WorksOn, Actors
<1>5. ASSUME NEW c \in Callers, NEW S, S \cap Releasing = {}, "idle" \notin S
      PROVE  ~WorksOn(c, d, S)' \/ c # a
  BY <1>1, <1>5 DEF ReleaseFrame, WorksOn
<1>6. \A e \in Requests : MayCall(e)' => MayCall(e)
  <2>1. \A c \in Callers, e \in Requests :
          WorksOn(c, e, BeforeCall)' => WorksOn(c, e, BeforeCall)
    BY <1>4, <1>5 DEF BeforeCall, Releasing
  <2>2. QED
    BY <1>1, <2>1 DEF ReleaseFrame, MayCall
<1>7. \A e \in Requests \ {d} : AcquiredLeaseProof(e)' = AcquiredLeaseProof(e)
  BY <1>1 DEF ReleaseFrame, AcquiredLeaseProof
<1>8. CleanupItemsBlocked' /\ SeenSessionsExist'
  BY <1>1 DEF ReleaseInv, ReleaseFrame, CleanupItemsBlocked, SeenSessionsExist, passVars
<1>9. PassReleasesItem'
  <2>1. ASSUME NEW r \in Reconcilers, step'[r] # "idle"
        PROVE  phase[r] = "cleanup" /\ job'[r] \in todo'[r]
    <3>1. CASE r = a
      BY <1>1, <2>1, <3>1 DEF ReleaseInv, PassReleasesItem, ReleaseFrame, WorksOn, Releasing
    <3>2. CASE r # a
      BY <1>1, <2>1, <3>2 DEF ReleaseInv, PassReleasesItem, ReleaseFrame, Actors
    <3>3. QED
      BY <3>1, <3>2
  <2>2. QED
    BY <2>1 DEF PassReleasesItem, passVars
<1>10. CallerReleasesUncalled'
  <2>1. ASSUME NEW c \in Callers, NEW e \in Requests, WorksOn(c, e, Releasing)'
        PROVE  ~Issued(e) /\ spawn[e] \notin Unsettled
    <3>1. CASE c = a /\ e = d
      BY <1>2, <3>1 DEF MayCall
    <3>2. CASE ~(c = a /\ e = d)
      <4>1. WorksOn(c, e, Releasing)
        BY <1>4, <2>1, <3>2 DEF Releasing
      <4>2. QED
        BY <4>1 DEF ReleaseInv, CallerReleasesUncalled
    <3>3. QED
      BY <3>1, <3>2
  <2>2. QED
    BY <1>1, <2>1 DEF ReleaseFrame, CallerReleasesUncalled
<1>11. ReleaseHasNoCall'
  <2>1. ASSUME NEW e \in Requests, release'[e] # "none"
        PROVE  spawn[e] # "none" /\ ~MayCall(e)
    <3>1. CASE e = d
      BY <1>2, <1>3, <3>1
    <3>2. CASE e # d
      BY <1>1, <2>1, <3>2 DEF ReleaseFrame, ReleaseInv, ReleaseHasNoCall
    <3>3. QED
      BY <3>1, <3>2
  <2>2. QED
    BY <1>1, <1>6, <2>1 DEF ReleaseFrame, ReleaseHasNoCall
<1>12. LeaseHeldForCall'
  <2>1. ASSUME NEW c \in Callers, NEW e \in Requests,
               WorksOn(c, e, {"leased", "spawn", "spawning"})'
        PROVE  AcquiredLeaseProof(e)'
    <3>1. ~(c = a /\ e = d)
      BY <1>5, <2>1 DEF Releasing
    <3>2. WorksOn(c, e, {"leased", "spawn", "spawning"})
      BY <1>4, <2>1, <3>1
    <3>3. e # d
      BY <1>2, <3>2
    <3>4. QED
      BY <1>7, <3>2, <3>3 DEF ReleaseInv, LeaseHeldForCall
  <2>2. QED
    BY <2>1 DEF LeaseHeldForCall
<1>13. SpawningIsIssued'
  <2>1. ASSUME NEW c \in Callers, NEW e \in Requests, WorksOn(c, e, {"spawning"})'
        PROVE  Issued(e)
    <3>1. ~(c = a /\ e = d)
      BY <1>5, <2>1 DEF Releasing
    <3>2. QED
      BY <1>4, <2>1, <3>1 DEF ReleaseInv, SpawningIsIssued
  <2>2. QED
    BY <1>1, <2>1 DEF ReleaseFrame, SpawningIsIssued
<1>14. SpawnItemsHaveProof'
  <2>1. ASSUME NEW r \in Reconcilers, phase[r] = "spawn", NEW e \in todo'[r]
        PROVE  /\ spawn[e] # "none"
               /\ spawn[e] \in Unsettled => AcquiredLeaseProof(e)'
    <3>1. /\ e \in Requests /\ spawn[e] # "none"
          /\ spawn[e] \in Unsettled => AcquiredLeaseProof(e)
      BY <1>1, <2>1 DEF ReleaseFrame, ReleaseInv, SpawnItemsHaveProof, DispatchInv, TypeOK
    <3>2. QED
      BY <1>2, <1>7, <3>1
  <2>2. QED
    BY <1>1, <2>1 DEF ReleaseFrame, SpawnItemsHaveProof, passVars
<1>15. AcceptedSpawnHasProof'
  BY <1>1, <1>2, <1>7 DEF ReleaseFrame, ReleaseInv, AcceptedSpawnHasProof
<1>16. QED
  BY <1>8, <1>9, <1>10, <1>11, <1>12, <1>13, <1>14, <1>15 DEF ReleaseInv

LEMMA PassKeepsReleaseInv ==
  ASSUME DispatchInv, ReleaseInv, NEW r \in Reconcilers,
         StartPass(r) \/ ListLeases(r) \/ Advance(r) \/ EndPass(r) \/ PassStops(r)
  PROVE  ReleaseInv'
<1> USE ActorAssumption
    DEF DispatchInv, ReleaseInv, TypeOK, StoreTypeOK, Actors, MayCall, WorksOn,
        Issued, AcquiredLeaseProof, CleanupItemsBlocked, PassReleasesItem,
        CallerReleasesUncalled, ReleaseHasNoCall, LeaseHeldForCall, SpawningIsIssued,
        SeenSessionsExist, SpawnItemsHaveProof, AcceptedSpawnHasProof,
        callVars, storeVars, gwVars
<1>1. CASE StartPass(r)
  BY <1>1 DEF StartPass
<1>2. CASE ListLeases(r)
  BY <1>2 DEF ListLeases
<1>3. CASE Advance(r)
  <2>1. PICK p : /\ p = NextPhase(phase[r]) /\ step[r] = "idle"
                 /\ phase' = [phase EXCEPT ![r] = p]
                 /\ todo'  = [todo  EXCEPT ![r] = Candidates(r, p)]
    BY <1>3 DEF Advance
  <2>2. p = "spawn" => \A d \in todo'[r] : spawn[d] # "none" /\ AcquiredLeaseProof(d)
    BY <2>1 DEF Candidates, UnknownSpawnRequests, PendingOrUnknown, Intent
  <2>3. p = "cleanup" => \A d \in todo'[r] : reason[d] = "blocked"
    BY <2>1 DEF Candidates, AcquireOnlyCleanupRequests
  <2>4. QED
    BY <1>3, <2>1, <2>2, <2>3 DEF Advance
<1>4. CASE EndPass(r)
  BY <1>4 DEF EndPass, ForgetPass
<1>5. CASE PassStops(r)
  BY <1>5 DEF PassStops, ForgetPass, Leave
<1>6. QED
  BY <1>1, <1>2, <1>3, <1>4, <1>5

LEMMA ItemKeepsReleaseInv ==
  ASSUME DispatchInv, ReleaseInv, TypeOK',
         NEW r \in Reconcilers, NEW d \in Requests, ItemStep(r, d)
  PROVE  ReleaseInv'
<1> USE ActorAssumption
    DEF DispatchInv, ReleaseInv, TypeOK, StoreTypeOK, Actors, Unsettled, Settled, Review,
        ReasonOnlyInReview, MayCall, WorksOn, BeforeCall, Releasing, Issued,
        AcquiredLeaseProof, passVars, CleanupItemsBlocked, PassReleasesItem,
        CallerReleasesUncalled, ReleaseHasNoCall, LeaseHeldForCall, SpawningIsIssued,
        SeenSessionsExist, SpawnItemsHaveProof, AcceptedSpawnHasProof,
        Item, Done, callVars, storeVars, gwVars
<1>1. CASE ReviewPendingRelease(r, d)
  BY <1>1 DEF ReviewPendingRelease, MarkReleaseReview
<1>2. CASE AcquireUnmatched(r, d)
  BY <1>2 DEF AcquireUnmatched, MarkAcquireReview
<1>3. CASE AcquireMatched(r, d)
  BY <1>3 DEF AcquireMatched, PersistAcquiredLease, CanPersistAcquired
<1>4. CASE AcquireMatchedTooLate(r, d)
  BY <1>4 DEF AcquireMatchedTooLate, ForgetPass
<1>5. CASE SpawnUnproven(r, d)
  BY <1>5 DEF SpawnUnproven, MarkSpawnReview
<1>6. CASE SpawnUnmatched(r, d)
  BY <1>6 DEF SpawnUnmatched, MarkSpawnReview
<1>7. CASE SpawnMatched(r, d)
  BY <1>7 DEF SpawnMatched, PersistSpawnAcceptance, CanPersistSpawn
<1>8. CASE CleanupUnmatched(r, d)
  BY <1>8 DEF CleanupUnmatched, MarkReleaseReview
<1>9. CASE CleanupAdopt(r, d)
  BY <1>9 DEF CleanupAdopt
<1>10. QED
  BY <1>1, <1>2, <1>3, <1>4, <1>5, <1>6, <1>7, <1>8, <1>9 DEF ItemStep

LEMMA OutsideKeepsReleaseInv ==
  ASSUME DispatchInv, ReleaseInv, Outside
  PROVE  ReleaseInv'
<1> USE DEF DispatchInv, ReleaseInv, TypeOK, GatewayTypeOK, MayCall, WorksOn, Issued,
        AcquiredLeaseProof, CleanupItemsBlocked, PassReleasesItem,
        CallerReleasesUncalled, ReleaseHasNoCall, LeaseHeldForCall, SpawningIsIssued,
        SeenSessionsExist, SpawnItemsHaveProof, AcceptedSpawnHasProof,
        callVars, passVars
<1>1. ASSUME NEW d \in Requests, GraceElapses(d),
             UNCHANGED <<gwVars, callVars, todo, passVars>>
      PROVE  ReleaseInv'
  BY <1>1 DEF GraceElapses, gwVars
<1>2. ASSUME NEW d \in Requests, GatewayStep(d),
             UNCHANGED <<storeVars, callVars, todo, passVars>>
      PROVE  ReleaseInv'
  BY <1>2 DEF GatewayStep, ApplyAcquire, ApplySpawn, ApplyRelease, GatewayExpires, storeVars
<1>3. QED
  BY <1>1, <1>2 DEF Outside

LEMMA ReleaseInvStep ==
  ASSUME ObjectResponses
  PROVE  DispatchInv /\ ReleaseInv /\ [Next]_vars => ReleaseInv'
<1> SUFFICES ASSUME DispatchInv, ReleaseInv, [Next]_vars PROVE ReleaseInv'
  OBVIOUS
<1>1. TypeOK'
  BY TypeStep DEF DispatchInv
<1>2. CASE Dispatching
  <2>1. ASSUME NEW c \in Callers, CallerStops(c), UNCHANGED passVars PROVE ReleaseInv'
    BY <2>1, ActorAssumption
    DEF CallerStops, Leave, DispatchInv, ReleaseInv, TypeOK, Actors, MayCall, WorksOn,
        BeforeCall, Releasing, Issued, AcquiredLeaseProof, CleanupItemsBlocked,
        PassReleasesItem, CallerReleasesUncalled, ReleaseHasNoCall, LeaseHeldForCall,
        SpawningIsIssued, SeenSessionsExist, SpawnItemsHaveProof, AcceptedSpawnHasProof,
        passVars, storeVars, gwVars
  <2>2. QED
    BY <1>1, <1>2, <2>1, CallerKeepsReleaseInv, ReleaseKeepsReleaseInv DEF Dispatching
<1>3. CASE Reconciling
  BY <1>1, <1>3, PassKeepsReleaseInv, ItemKeepsReleaseInv DEF Reconciling
<1>4. CASE Outside
  BY <1>4, OutsideKeepsReleaseInv
<1>5. CASE UNCHANGED vars
  BY <1>5 DEF vars, storeVars, gwVars, callVars, passVars, ReleaseInv, MayCall, WorksOn,
     Issued, AcquiredLeaseProof, CleanupItemsBlocked, PassReleasesItem,
     CallerReleasesUncalled, ReleaseHasNoCall, LeaseHeldForCall, SpawningIsIssued,
     SeenSessionsExist, SpawnItemsHaveProof, AcceptedSpawnHasProof
<1>6. QED
  BY <1>2, <1>3, <1>4, <1>5 DEF Next

\* Every reachable state satisfies the inductive invariant of the leases.
THEOREM LeaseInvariant ==
  ASSUME ObjectResponses
  PROVE  Spec => []ReleaseInv
<1>1. Init => DispatchInv /\ ReleaseInv
  BY DispatchInvInit, ReleaseInvInit
<1>2. DispatchInv /\ ReleaseInv /\ [Next]_vars => (DispatchInv /\ ReleaseInv)'
  BY DispatchInvStep, ReleaseInvStep
<1>3. QED
  BY <1>1, <1>2, PTL DEF Spec

\* With a transport that answers with objects only, no lease is put up for
\* release once a sessions_spawn call for it has left or can still leave.
THEOREM ReleaseIsSafe ==
  ASSUME ObjectResponses
  PROVE  Spec => []ReleaseOnlyUnspawned
<1>1. ReleaseInv => ReleaseOnlyUnspawned
  BY DEF ReleaseInv, ReleaseHasNoCall, ReleaseOnlyUnspawned, MayCall, WorksOn,
         BeforeCall, SpawningIsIssued
<1>2. QED
  BY <1>1, LeaseInvariant, PTL

\* With the same transport, an accepted or reconciled spawn always rests on a
\* session that exists, an accepted acquire intent and a lease still held.
THEOREM AcceptanceIsProven ==
  ASSUME ObjectResponses
  PROVE  Spec => []AcceptedSpawnHasProof
<1>1. ReleaseInv => AcceptedSpawnHasProof
  BY DEF ReleaseInv
<1>2. QED
  BY <1>1, LeaseInvariant, PTL

-----------------------------------------------------------------------------
(* Slots *)

LEMMA HandoverInvInit == Init => HandoverInv
BY DEF Init, StoreInit, GatewayInit, Actors, HandoverInv, RowsInsertedTogether,
       CleanupItemsBlocked, PassReleasesItem, AcquireLeavesOnce, AcquiringHasLeft,
       AcquireLeft, KnownLeaseExists, HasGatewayId, ReleaseCallIsPrepared,
       EndedLeaseIsOver, WorksOn

\* Nobody acquires a lease that is being put up for release.
LEMMA ReleaserHasNoAcquirer ==
  ASSUME DispatchInv, HandoverInv, NEW a \in Actors, NEW d \in Requests,
         WorksOn(a, d, Releasing)
  PROVE  \A c \in Callers : ~WorksOn(c, d, {"acquire", "acquiring"})
<1> USE DEF DispatchInv, HandoverInv
<1>1. CASE a \in Callers
  BY <1>1, ActorAssumption DEF OneCallerPerRequest, WorksOn, Releasing
<1>2. CASE a \in Reconcilers
  <2>1. reason[d] = "blocked"
    BY <1>2 DEF PassReleasesItem, CleanupItemsBlocked, WorksOn, Releasing
  <2>2. QED
    BY <2>1 DEF MayCallIsLive, MayCall, WorksOn, BeforeCall
<1>3. QED
  BY <1>1, <1>2 DEF Actors

LEMMA CallerKeepsHandover ==
  ASSUME DispatchInv, HandoverInv, TypeOK', UNCHANGED passVars,
         NEW c \in Callers, NEW d \in Requests, CallerStep(c, d)
  PROVE  HandoverInv'
<1> USE ActorAssumption
    DEF DispatchInv, HandoverInv, TypeOK, StoreTypeOK, GatewayTypeOK, Actors, Unsettled,
        Settled, Review, WorkHasRow, ReasonOnlyInReview, OneCallerPerRequest,
        WorksOn, BeforeCall, passVars, RowsInsertedTogether, CleanupItemsBlocked,
        PassReleasesItem, AcquireLeavesOnce, AcquiringHasLeft, AcquireLeft,
        KnownLeaseExists, HasGatewayId, ReleaseCallIsPrepared, EndedLeaseIsOver, At
<1>1. CASE Begin(c, d)
  <2> USE <1>1 DEF Begin, InsertPendingDispatch, gwVars
  <2>1. RowsInsertedTogether'
    OBVIOUS
  <2>2. CleanupItemsBlocked' /\ PassReleasesItem'
    OBVIOUS
  <2>3. AcquireLeavesOnce' /\ AcquiringHasLeft'
    OBVIOUS
  <2>4. KnownLeaseExists' /\ ReleaseCallIsPrepared'
    OBVIOUS
  <2>5. EndedLeaseIsOver'
    OBVIOUS
  <2>6. QED
    BY ONLY <2>1, <2>2, <2>3, <2>4, <2>5 DEF HandoverInv
<1>2. CASE Replay(c, d)
  BY <1>2 DEF Replay, storeVars, gwVars
<1>3. CASE AcquireCall(c, d)
  BY <1>3 DEF AcquireCall, Send, Goto, storeVars
<1>4. CASE AcquirePersist(c, d)
  BY <1>4 DEF AcquirePersist, PersistAcquiredLease, CanPersistAcquired, Goto, Delivered,
     gwVars
<1>5. CASE AcquireUncertain(c, d)
  <2> USE <1>5 DEF AcquireUncertain, MarkAcquireUnknown, MarkSpawnReview, Finish, Leave, gwVars
  <2>1. RowsInsertedTogether'
    OBVIOUS
  <2>2. CleanupItemsBlocked' /\ PassReleasesItem'
    OBVIOUS
  <2>3. AcquireLeavesOnce' /\ AcquiringHasLeft'
    OBVIOUS
  <2>4. KnownLeaseExists' /\ ReleaseCallIsPrepared'
    OBVIOUS
  <2>5. EndedLeaseIsOver'
    OBVIOUS
  <2>6. QED
    BY ONLY <2>1, <2>2, <2>3, <2>4, <2>5 DEF HandoverInv
<1>6. CASE AcquireRefused(c, d)
  <2> USE <1>6 DEF AcquireRefused, MarkAcquireReview, MarkSpawnReview, Finish, Leave, gwVars
  <2>1. RowsInsertedTogether'
    OBVIOUS
  <2>2. CleanupItemsBlocked' /\ PassReleasesItem'
    OBVIOUS
  <2>3. AcquireLeavesOnce' /\ AcquiringHasLeft'
    OBVIOUS
  <2>4. KnownLeaseExists' /\ ReleaseCallIsPrepared'
    OBVIOUS
  <2>5. EndedLeaseIsOver'
    OBVIOUS
  <2>6. QED
    BY ONLY <2>1, <2>2, <2>3, <2>4, <2>5 DEF HandoverInv
<1>7. CASE LeaseStillValid(c, d)
  BY <1>7 DEF LeaseStillValid, Goto, storeVars, gwVars
<1>8. CASE LeaseExpiredLocally(c, d)
  <2> USE <1>8 DEF LeaseExpiredLocally, ExpireLeaseBeforeSpawn, MarkSpawnReview, MayCallIsLive,
              MayCall, Finish, Leave, gwVars
  <2>1. RowsInsertedTogether'
    OBVIOUS
  <2>2. CleanupItemsBlocked' /\ PassReleasesItem'
    OBVIOUS
  <2>3. AcquireLeavesOnce' /\ AcquiringHasLeft'
    OBVIOUS
  <2>4. KnownLeaseExists' /\ ReleaseCallIsPrepared'
    OBVIOUS
  <2>5. EndedLeaseIsOver'
    OBVIOUS
  <2>6. QED
    BY ONLY <2>1, <2>2, <2>3, <2>4, <2>5 DEF HandoverInv
<1>9. CASE SpawnCall(c, d)
  BY <1>9 DEF SpawnCall, Send, Goto, storeVars
<1>10. CASE SpawnPersist(c, d)
  BY <1>10 DEF SpawnPersist, PersistSpawnAcceptance, CanPersistSpawn, Leave, gwVars
<1>11. CASE SpawnUncertain(c, d)
  <2> USE <1>11 DEF SpawnUncertain, MarkSpawnReview, Finish, Leave, gwVars
  <2>1. RowsInsertedTogether'
    OBVIOUS
  <2>2. CleanupItemsBlocked' /\ PassReleasesItem'
    OBVIOUS
  <2>3. AcquireLeavesOnce' /\ AcquiringHasLeft'
    OBVIOUS
  <2>4. KnownLeaseExists' /\ ReleaseCallIsPrepared'
    OBVIOUS
  <2>5. EndedLeaseIsOver'
    OBVIOUS
  <2>6. QED
    BY ONLY <2>1, <2>2, <2>3, <2>4, <2>5 DEF HandoverInv
<1>12. CASE SpawnRefused(c, d)
  <2> USE <1>12 DEF SpawnRefused, MarkSpawnReview, Goto, gwVars
  <2>1. RowsInsertedTogether'
    OBVIOUS
  <2>2. CleanupItemsBlocked' /\ PassReleasesItem'
    OBVIOUS
  <2>3. AcquireLeavesOnce' /\ AcquiringHasLeft'
    OBVIOUS
  <2>4. KnownLeaseExists' /\ ReleaseCallIsPrepared'
    OBVIOUS
  <2>5. EndedLeaseIsOver'
    OBVIOUS
  <2>6. QED
    BY ONLY <2>1, <2>2, <2>3, <2>4, <2>5 DEF HandoverInv
<1>13. QED
  BY <1>1, <1>2, <1>3, <1>4, <1>5, <1>6, <1>7, <1>8, <1>9, <1>10, <1>11, <1>12
  DEF CallerStep

LEMMA ReleaseKeepsHandover ==
  ASSUME DispatchInv, HandoverInv, TypeOK', UNCHANGED passVars,
         NEW a \in Actors, NEW d \in Requests, ReleaseStep(a, d)
  PROVE  HandoverInv'
<1>1. /\ WorksOn(a, d, Releasing)
      /\ \A c \in Callers : ~WorksOn(c, d, {"acquire", "acquiring"})
  <2>1. WorksOn(a, d, Releasing)
    BY DEF ReleaseStep, PrepareRelease, ReleaseCall, ReleasePersist, ReleaseFails,
       ReleaseUncertain, At, WorksOn, Releasing
  <2>2. QED
    BY <2>1, ReleaserHasNoAcquirer
<1> USE ActorAssumption
    DEF DispatchInv, HandoverInv, TypeOK, StoreTypeOK, GatewayTypeOK, Actors, Unsettled,
        Settled, Review, WorksOn, passVars, RowsInsertedTogether, CleanupItemsBlocked,
        PassReleasesItem, AcquireLeavesOnce, AcquiringHasLeft, AcquireLeft,
        KnownLeaseExists, HasGatewayId, ReleaseCallIsPrepared, EndedLeaseIsOver, At
<1>2. CASE PrepareRelease(a, d)
  BY <1>2 DEF PrepareRelease, PrepareOwnedLeaseRelease, Goto, gwVars
<1>3. CASE ReleaseCall(a, d)
  BY <1>3 DEF ReleaseCall, Send, Goto, storeVars
<1>4. CASE ReleasePersist(a, d)
  BY <1>1, <1>4 DEF ReleasePersist, PersistReleasedLease, Finish, Leave, Delivered, gwVars
<1>5. CASE ReleaseFails(a, d)
  BY <1>5 DEF ReleaseFails, MarkReleaseReview, Finish, Leave, gwVars
<1>6. CASE ReleaseUncertain(a, d)
  BY <1>6 DEF ReleaseUncertain, MarkReleaseUnknown, Finish, Leave, gwVars
<1>7. QED
  BY <1>2, <1>3, <1>4, <1>5, <1>6 DEF ReleaseStep

LEMMA PassKeepsHandover ==
  ASSUME DispatchInv, HandoverInv, NEW r \in Reconcilers,
         StartPass(r) \/ ListLeases(r) \/ Advance(r) \/ EndPass(r) \/ PassStops(r)
  PROVE  HandoverInv'
<1> USE ActorAssumption
    DEF DispatchInv, HandoverInv, TypeOK, Actors, WorksOn, RowsInsertedTogether,
        CleanupItemsBlocked, PassReleasesItem, AcquireLeavesOnce, AcquiringHasLeft,
        AcquireLeft, KnownLeaseExists, HasGatewayId, ReleaseCallIsPrepared,
        EndedLeaseIsOver, callVars, storeVars, gwVars
<1>1. CASE StartPass(r)
  BY <1>1 DEF StartPass
<1>2. CASE ListLeases(r)
  BY <1>2 DEF ListLeases
<1>3. CASE Advance(r)
  <2>1. PICK p : /\ p = NextPhase(phase[r]) /\ step[r] = "idle"
                 /\ phase' = [phase EXCEPT ![r] = p]
                 /\ todo'  = [todo  EXCEPT ![r] = Candidates(r, p)]
    BY <1>3 DEF Advance
  <2>2. p = "cleanup" => \A d \in todo'[r] : reason[d] = "blocked"
    BY <2>1 DEF Candidates, AcquireOnlyCleanupRequests
  <2>3. QED
    BY <1>3, <2>1, <2>2 DEF Advance
<1>4. CASE EndPass(r)
  BY <1>4 DEF EndPass, ForgetPass
<1>5. CASE PassStops(r)
  BY <1>5 DEF PassStops, ForgetPass, Leave
<1>6. QED
  BY <1>1, <1>2, <1>3, <1>4, <1>5

LEMMA ItemKeepsHandover ==
  ASSUME DispatchInv, HandoverInv, TypeOK',
         NEW r \in Reconcilers, NEW d \in Requests, ItemStep(r, d)
  PROVE  HandoverInv'
<1> USE ActorAssumption
    DEF DispatchInv, HandoverInv, TypeOK, StoreTypeOK, Actors, Unsettled, Settled, Review,
        ReasonOnlyInReview, WorksOn, passVars, RowsInsertedTogether, CleanupItemsBlocked,
        PassReleasesItem, AcquireLeavesOnce, AcquiringHasLeft, AcquireLeft,
        KnownLeaseExists, HasGatewayId, ReleaseCallIsPrepared, EndedLeaseIsOver,
        Item, Done, callVars, storeVars, gwVars
<1>1. CASE ReviewPendingRelease(r, d)
  BY <1>1 DEF ReviewPendingRelease, MarkReleaseReview
<1>2. CASE AcquireUnmatched(r, d)
  BY <1>2 DEF AcquireUnmatched, MarkAcquireReview
<1>3. CASE AcquireMatched(r, d)
  BY <1>3 DEF AcquireMatched, PersistAcquiredLease, CanPersistAcquired
<1>4. CASE AcquireMatchedTooLate(r, d)
  BY <1>4 DEF AcquireMatchedTooLate, ForgetPass
<1>5. CASE SpawnUnproven(r, d)
  BY <1>5 DEF SpawnUnproven, MarkSpawnReview
<1>6. CASE SpawnUnmatched(r, d)
  BY <1>6 DEF SpawnUnmatched, MarkSpawnReview
<1>7. CASE SpawnMatched(r, d)
  BY <1>7 DEF SpawnMatched, PersistSpawnAcceptance, CanPersistSpawn
<1>8. CASE CleanupUnmatched(r, d)
  BY <1>8 DEF CleanupUnmatched, MarkReleaseReview
<1>9. CASE CleanupAdopt(r, d)
  BY <1>9 DEF CleanupAdopt
<1>10. QED
  BY <1>1, <1>2, <1>3, <1>4, <1>5, <1>6, <1>7, <1>8, <1>9 DEF ItemStep

LEMMA OutsideKeepsHandover ==
  ASSUME DispatchInv, HandoverInv, Outside
  PROVE  HandoverInv'
<1> USE DEF DispatchInv, HandoverInv, TypeOK, GatewayTypeOK, WorksOn,
        RowsInsertedTogether, CleanupItemsBlocked, PassReleasesItem, AcquireLeavesOnce,
        AcquiringHasLeft, AcquireLeft, KnownLeaseExists, HasGatewayId,
        ReleaseCallIsPrepared, EndedLeaseIsOver, callVars, passVars
<1>1. ASSUME NEW d \in Requests, GraceElapses(d),
             UNCHANGED <<gwVars, callVars, todo, passVars>>
      PROVE  HandoverInv'
  BY <1>1 DEF GraceElapses, gwVars
<1>2. ASSUME NEW d \in Requests, GatewayStep(d),
             UNCHANGED <<storeVars, callVars, todo, passVars>>
      PROVE  HandoverInv'
  <2>1. CASE ApplyAcquire(d)
    BY <1>2, <2>1 DEF ApplyAcquire, storeVars
  <2>2. CASE ApplySpawn(d)
    BY <1>2, <2>2 DEF ApplySpawn, storeVars
  <2>3. CASE ApplyRelease(d)
    BY <1>2, <2>3 DEF ApplyRelease, storeVars
  <2>4. CASE GatewayExpires(d)
    BY <1>2, <2>4 DEF GatewayExpires, storeVars
  <2>5. QED
    BY <1>2, <2>1, <2>2, <2>3, <2>4 DEF GatewayStep
<1>3. QED
  BY <1>1, <1>2 DEF Outside

LEMMA HandoverInvStep == DispatchInv /\ HandoverInv /\ [Next]_vars => HandoverInv'
<1> SUFFICES ASSUME DispatchInv, HandoverInv, [Next]_vars PROVE HandoverInv'
  OBVIOUS
<1>1. TypeOK'
  BY TypeStep DEF DispatchInv
<1>2. CASE Dispatching
  <2>1. ASSUME NEW c \in Callers, CallerStops(c), UNCHANGED passVars PROVE HandoverInv'
    BY <2>1, ActorAssumption
    DEF CallerStops, Leave, DispatchInv, HandoverInv, TypeOK, Actors, WorksOn,
        RowsInsertedTogether, CleanupItemsBlocked, PassReleasesItem, AcquireLeavesOnce,
        AcquiringHasLeft, AcquireLeft, KnownLeaseExists, HasGatewayId,
        ReleaseCallIsPrepared, EndedLeaseIsOver, passVars, storeVars, gwVars
  <2>2. QED
    BY <1>1, <1>2, <2>1, CallerKeepsHandover, ReleaseKeepsHandover DEF Dispatching
<1>3. CASE Reconciling
  BY <1>1, <1>3, PassKeepsHandover, ItemKeepsHandover DEF Reconciling
<1>4. CASE Outside
  BY <1>4, OutsideKeepsHandover
<1>5. CASE UNCHANGED vars
  BY <1>5 DEF vars, storeVars, gwVars, callVars, passVars, HandoverInv, WorksOn,
     RowsInsertedTogether, CleanupItemsBlocked, PassReleasesItem, AcquireLeavesOnce,
     AcquiringHasLeft, AcquireLeft, KnownLeaseExists, HasGatewayId,
     ReleaseCallIsPrepared, EndedLeaseIsOver
<1>6. QED
  BY <1>2, <1>3, <1>4, <1>5 DEF Next

-----------------------------------------------------------------------------
(* Refinement of SpawnArbiter *)

ArbiterStep == [Arbiter!Next]_(Arbiter!arbiterVars)

LEMMA ArbiterInit == Init => Arbiter!Init
BY DEF Init, StoreInit, GatewayInit, Arbiter!Init, Admitted, Withdrawn, Called, Verdict,
       TerminalPreSpawn, Issued, Settled, Review

\* What the arbiter sees of a step that leaves verdicts, slots and calls alone.
LEMMA QuietStep ==
  ASSUME spawn' = spawn, gwSessions' = gwSessions,
         \A e \in Requests : TerminalPreSpawn(e)' = TerminalPreSpawn(e),
         \A e \in Requests : Issued(e)' = Issued(e)
  PROVE  ArbiterStep
<1>1. Admitted' = Admitted /\ Verdict' = Verdict
  BY DEF Admitted, Verdict
<1>2. Withdrawn' = Withdrawn
  BY DEF Withdrawn
<1>3. Called' = Called
  BY DEF Called
<1>4. QED
  BY <1>1, <1>2, <1>3 DEF ArbiterStep, Arbiter!arbiterVars

\* A request under human review stays there, and its slot is not freed by
\* the review itself: SendToReview, or nothing.
LEMMA ReviewStep ==
  ASSUME TypeOK, NEW d \in Requests, NEW why \in Reason, MarkSpawnReview(d, why),
         gwSessions' = gwSessions,
         \A e \in Requests : TerminalPreSpawn(e)' = TerminalPreSpawn(e),
         \A e \in Requests : Issued(e)' = Issued(e)
  PROVE  ArbiterStep
<1>1. CASE spawn[d] \notin Unsettled
  <2>1. spawn' = spawn
    BY <1>1 DEF MarkSpawnReview, TypeOK, StoreTypeOK
  <2>2. QED
    BY <2>1, QuietStep
<1>2. CASE spawn[d] \in Unsettled
  <2>1. spawn' = [spawn EXCEPT ![d] = Review]
    BY <1>2 DEF MarkSpawnReview
  <2>2. Admitted' = Admitted /\ d \in Admitted
    BY <1>2, <2>1 DEF Admitted, TypeOK, StoreTypeOK, Unsettled, Review
  <2>3. Verdict[d] = "open" /\ Verdict' = [Verdict EXCEPT ![d] = "review"]
    BY <1>2, <2>1 DEF Verdict, TypeOK, StoreTypeOK, Unsettled, Settled, Review
  <2>4. Withdrawn' = Withdrawn
    BY DEF Withdrawn
  <2>5. Called' = Called
    BY DEF Called
  <2>6. Arbiter!SendToReview(d)
    BY <2>2, <2>3, <2>4, <2>5 DEF Arbiter!SendToReview
  <2>7. QED
    BY <2>6 DEF ArbiterStep, Arbiter!Next
<1>3. QED
  BY <1>1, <1>2

LEMMA AcceptStep ==
  ASSUME TypeOK, NEW d \in Requests, NEW state \in Settled,
         PersistSpawnAcceptance(d, state), d \in gwSessions,
         UNCHANGED <<reason, lease, wire, gwSessions>>
  PROVE  ArbiterStep
<1>1. spawn[d] \in Unsettled /\ spawn' = [spawn EXCEPT ![d] = state]
  BY DEF PersistSpawnAcceptance, CanPersistSpawn
<1>2. Admitted' = Admitted
  BY <1>1 DEF Admitted, TypeOK, StoreTypeOK, Unsettled, Settled
<1>3. Verdict[d] = "open" /\ Verdict' = [Verdict EXCEPT ![d] = "accepted"]
  BY <1>1 DEF Verdict, TypeOK, StoreTypeOK, Unsettled, Settled, Review
<1>4. \A e \in Requests : TerminalPreSpawn(e)' = TerminalPreSpawn(e)
  BY <1>1 DEF TerminalPreSpawn, TypeOK, StoreTypeOK, Unsettled, Settled, Review
<1>5. Withdrawn' = Withdrawn
  BY <1>4 DEF Withdrawn
<1>6. Called' = Called
  BY DEF Called, Issued
<1>7. Arbiter!Accept(d)
  BY <1>2, <1>3, <1>5, <1>6 DEF Arbiter!Accept
<1>8. QED
  BY <1>7 DEF ArbiterStep, Arbiter!Next

\* The slot admits d because every rival with a row gave the slot up.
LEMMA AdmitStep ==
  ASSUME DispatchInv, NEW c \in Callers, NEW d \in Requests, Begin(c, d)
  PROVE  ArbiterStep
<1> USE DEF DispatchInv, TypeOK, StoreTypeOK
<1>1. /\ spawn[d] = "none" /\ spawn' = [spawn EXCEPT ![d] = "pending"]
      /\ \A e \in Requests \ {d} : lease'[e] = lease[e]
      /\ UNCHANGED <<reason, wire, gwSessions>>
      /\ NoPotentiallyLiveRival(d)
  BY DEF Begin, InsertPendingDispatch, gwVars
<1>2. d \notin Admitted /\ Admitted' = Admitted \cup {d}
  BY <1>1 DEF Admitted
<1>3. \A e \in Admitted : SlotOf[e] = SlotOf[d] => e \in Withdrawn
  <2>1. ASSUME NEW e \in Admitted, SlotOf[e] = SlotOf[d]
        PROVE  TerminalPreSpawn(e)
    <3>1. e \in Rivals(d) /\ spawn[e] # "none"
      BY <1>2, <2>1 DEF Admitted, Rivals
    <3>2. ~PotentiallyLive(e) /\ spawn[e] \in IntentState
      BY <1>1, <3>1 DEF NoPotentiallyLiveRival, Rivals
    <3>3. QED
      BY <3>1, <3>2 DEF PotentiallyLive, IntentState
  <2>2. QED
    BY <2>1 DEF Admitted, Withdrawn
<1>4. \A e \in Requests : TerminalPreSpawn(e)' = TerminalPreSpawn(e)
  BY <1>1 DEF TerminalPreSpawn, Review
<1>5. Withdrawn' = Withdrawn
  BY <1>4 DEF Withdrawn
<1>6. Called' = Called
  BY <1>1 DEF Called, Issued
<1>7. Verdict' = Verdict
  BY <1>1 DEF Verdict, Settled, Review
<1>8. Arbiter!Admit(d)
  BY <1>1, <1>2, <1>3, <1>5, <1>6, <1>7 DEF Arbiter!Admit
<1>9. QED
  BY <1>8 DEF ArbiterStep, Arbiter!Next

LEMMA CallStep ==
  ASSUME DispatchInv, NEW c \in Callers, NEW d \in Requests, SpawnCall(c, d)
  PROVE  ArbiterStep
<1> USE DEF DispatchInv, TypeOK
<1>1. /\ WorksOn(c, d, BeforeCall)
      /\ wire' = wire \cup {<<"sessions_spawn", d>>}
      /\ UNCHANGED <<spawn, reason, lease, gwSessions>>
  BY DEF SpawnCall, At, WorksOn, BeforeCall, Send, storeVars
<1>2. d \in Admitted /\ d \notin Withdrawn
  BY <1>1 DEF MayCallIsLive, MayCall, Admitted, Withdrawn, TerminalPreSpawn
<1>3. d \notin Called
  BY <1>1 DEF NotYetCalled, Called
<1>4. Called' = Called \cup {d}
  BY <1>1 DEF Called, Issued
<1>5. UNCHANGED <<Admitted, Withdrawn, Verdict>>
  BY <1>1 DEF Admitted, Withdrawn, TerminalPreSpawn, Verdict
<1>6. Arbiter!Call(d)
  BY <1>1, <1>2, <1>3, <1>4, <1>5 DEF Arbiter!Call
<1>7. QED
  BY <1>6 DEF ArbiterStep, Arbiter!Next

LEMMA StartStep ==
  ASSUME NEW d \in Requests, ApplySpawn(d), UNCHANGED storeVars
  PROVE  ArbiterStep
<1>1. /\ <<"sessions_spawn", d>> \in wire
      /\ wire' = wire \ {<<"sessions_spawn", d>>}
      /\ gwSessions' = gwSessions \cup {d}
      /\ UNCHANGED <<spawn, reason, lease>>
  BY DEF ApplySpawn, storeVars
<1>2. d \in Called
  BY <1>1 DEF Called, Issued
<1>3. Called' = Called
  BY <1>1 DEF Called, Issued
<1>4. UNCHANGED <<Admitted, Withdrawn, Verdict>>
  BY <1>1 DEF Admitted, Withdrawn, TerminalPreSpawn, Verdict
<1>5. Arbiter!Start(d)
  BY <1>1, <1>2, <1>3, <1>4 DEF Arbiter!Start
<1>6. QED
  BY <1>5 DEF ArbiterStep, Arbiter!Next

\* The release that frees a slot is a Withdraw: the request is under review
\* and never called.
LEMMA WithdrawStep ==
  ASSUME DispatchInv, NEW a \in Actors, NEW d \in Requests, ReleasePersist(a, d)
  PROVE  ArbiterStep
<1> USE DEF DispatchInv, TypeOK, StoreTypeOK
<1>1. /\ lease[d] = "release_pending" /\ lease' = [lease EXCEPT ![d] = "released"]
      /\ UNCHANGED <<spawn, reason, wire, gwSessions>>
  BY DEF ReleasePersist, PersistReleasedLease, gwVars
<1>2. \A e \in Requests \ {d} : TerminalPreSpawn(e)' = TerminalPreSpawn(e)
  BY <1>1 DEF TerminalPreSpawn
<1>3. \A e \in Requests : Issued(e)' = Issued(e)
  BY <1>1 DEF Issued
<1>4. CASE ~TerminalPreSpawn(d)'
  <2>1. ~TerminalPreSpawn(d)
    BY <1>1 DEF TerminalPreSpawn
  <2>2. \A e \in Requests : TerminalPreSpawn(e)' = TerminalPreSpawn(e)
    BY <1>2, <1>4, <2>1 DEF TerminalPreSpawn
  <2>3. QED
    BY <1>1, <1>3, <2>2, QuietStep
<1>5. CASE TerminalPreSpawn(d)'
  <2>1. spawn[d] = Review /\ reason[d] = "blocked"
    BY <1>1, <1>5 DEF TerminalPreSpawn
  <2>2. d \notin Called /\ Verdict[d] = "review"
    BY <2>1 DEF MayCallIsLive, MayCall, Called, Verdict, Review, Settled
  <2>3. Withdrawn' = Withdrawn \cup {d}
    BY <1>2, <1>5 DEF Withdrawn
  <2>4. Called' = Called
    BY <1>3 DEF Called
  <2>5. UNCHANGED <<Admitted, Verdict>>
    BY <1>1 DEF Admitted, Verdict
  <2>6. Arbiter!Withdraw(d)
    BY <1>1, <2>2, <2>3, <2>4, <2>5 DEF Arbiter!Withdraw
  <2>7. QED
    BY <2>6 DEF ArbiterStep, Arbiter!Next
<1>6. QED
  BY <1>4, <1>5

\* The lease of d is not over while its caller acquires it or may still call:
\* a review at that point frees no slot.
LEMMA CallerSimulates ==
  ASSUME DispatchInv, HandoverInv, NEW c \in Callers, NEW d \in Requests, CallerStep(c, d)
  PROVE  ArbiterStep
<1>1. TypeOK
  BY DEF DispatchInv
<1> USE DEF TypeOK, StoreTypeOK, TerminalPreSpawn, Issued, Unsettled, Review, Reason,
            storeVars, gwVars
<1>2. CASE Begin(c, d)
  BY <1>2, AdmitStep
<1>3. CASE SpawnCall(c, d)
  BY <1>3, CallStep
<1>4. CASE SpawnPersist(c, d)
  BY <1>1, <1>4, AcceptStep DEF SpawnPersist, Settled
<1>5. CASE Replay(c, d) \/ LeaseStillValid(c, d)
  BY <1>5, QuietStep DEF Replay, LeaseStillValid
<1>6. CASE AcquireCall(c, d)
  <2>1. UNCHANGED <<spawn, reason, lease, gwSessions>>
    BY <1>6 DEF AcquireCall, Send
  <2>2. \A e \in Requests : Issued(e)' = Issued(e)
    BY <1>6 DEF AcquireCall, Send
  <2>3. \A e \in Requests : TerminalPreSpawn(e)' = TerminalPreSpawn(e)
    BY <2>1
  <2>4. QED
    BY <2>1, <2>2, <2>3, QuietStep
<1>7. CASE AcquirePersist(c, d)
  <2>1. /\ lease[d] = "acquire_pending" /\ lease' = [lease EXCEPT ![d] = "acquired"]
        /\ UNCHANGED <<spawn, reason, wire, gwSessions>>
    BY <1>7 DEF AcquirePersist, PersistAcquiredLease, CanPersistAcquired
  <2>2. \A e \in Requests : TerminalPreSpawn(e)' = TerminalPreSpawn(e)
    BY <1>1, <2>1
  <2>3. QED
    BY <2>1, <2>2, QuietStep
<1>8. CASE AcquireUncertain(c, d) \/ AcquireRefused(c, d)
  <2>1. /\ WorksOn(c, d, {"acquire", "acquiring"})
        /\ MarkSpawnReview(d, "blocked")
        /\ lease' = lease \/ MarkAcquireReview(d)
        /\ UNCHANGED <<wire, gwSessions>>
    BY <1>8 DEF AcquireUncertain, AcquireRefused, At, WorksOn
  <2>2. lease[d] \notin {"released", "expired"}
    BY <2>1 DEF HandoverInv, EndedLeaseIsOver
  <2>3. /\ lease'[d] \notin {"released", "expired"}
        /\ \A e \in Requests \ {d} : lease'[e] = lease[e]
    BY <1>1, <2>1, <2>2 DEF MarkAcquireReview
  <2>4. \A e \in Requests : TerminalPreSpawn(e)' = TerminalPreSpawn(e)
    BY <1>1, <2>1, <2>2, <2>3 DEF MarkSpawnReview
  <2>5. QED
    BY <1>1, <2>1, <2>4, ReviewStep
<1>9. CASE LeaseExpiredLocally(c, d)
  <2>1. /\ WorksOn(c, d, BeforeCall)
        /\ MarkSpawnReview(d, "expired")
        /\ lease[d] = "acquired" /\ lease' = [lease EXCEPT ![d] = "expired"]
        /\ UNCHANGED <<wire, gwSessions>>
    BY <1>9 DEF LeaseExpiredLocally, ExpireLeaseBeforeSpawn, At, WorksOn, BeforeCall
  <2>2. reason[d] # "blocked"
    BY <2>1 DEF DispatchInv, MayCallIsLive, MayCall
  <2>3. \A e \in Requests : TerminalPreSpawn(e)' = TerminalPreSpawn(e)
    BY <1>1, <2>1, <2>2 DEF MarkSpawnReview
  <2>4. QED
    BY <1>1, <2>1, <2>3, ReviewStep
<1>10. CASE SpawnUncertain(c, d) \/ SpawnRefused(c, d)
  <2>1. /\ MarkSpawnReview(d, "other")
        /\ UNCHANGED <<lease, wire, gwSessions>>
    BY <1>10 DEF SpawnUncertain, SpawnRefused
  <2>2. \A e \in Requests : TerminalPreSpawn(e)' = TerminalPreSpawn(e)
    BY <1>1, <2>1 DEF MarkSpawnReview
  <2>3. QED
    BY <1>1, <2>1, <2>2, ReviewStep
<1>11. QED
  BY <1>2, <1>3, <1>4, <1>5, <1>6, <1>7, <1>8, <1>9, <1>10 DEF CallerStep

LEMMA ReleaseSimulates ==
  ASSUME DispatchInv, NEW a \in Actors, NEW d \in Requests, ReleaseStep(a, d)
  PROVE  ArbiterStep
<1>1. CASE ReleasePersist(a, d)
  BY <1>1, WithdrawStep
<1>2. CASE ~ReleasePersist(a, d)
  <2> USE DEF DispatchInv, TypeOK, StoreTypeOK
  <2>1. UNCHANGED <<spawn, reason, gwSessions>>
    BY <1>2 DEF ReleaseStep, PrepareRelease, ReleaseCall, ReleaseFails, ReleaseUncertain,
       Send, storeVars, gwVars
  <2>2. \A e \in Requests : Issued(e)' = Issued(e)
    BY <1>2 DEF ReleaseStep, PrepareRelease, ReleaseCall, ReleaseFails, ReleaseUncertain,
       Send, Issued, gwVars
  <2>3. \A e \in Requests :
          lease'[e] \in {"released", "expired"} <=> lease[e] \in {"released", "expired"}
    BY <1>2 DEF ReleaseStep, PrepareRelease, ReleaseCall, ReleaseFails, ReleaseUncertain,
       PrepareOwnedLeaseRelease, MarkReleaseUnknown, storeVars
  <2>4. \A e \in Requests : TerminalPreSpawn(e)' = TerminalPreSpawn(e)
    BY <2>1, <2>3 DEF TerminalPreSpawn
  <2>5. QED
    BY <2>1, <2>2, <2>4, QuietStep
<1>3. QED
  BY <1>1, <1>2

LEMMA ItemSimulates ==
  ASSUME DispatchInv, AnswerInv, NEW r \in Reconcilers, NEW d \in Requests, ItemStep(r, d)
  PROVE  ArbiterStep
<1>1. TypeOK
  BY DEF DispatchInv
<1>2. wire' = wire /\ gwSessions' = gwSessions
  BY DEF ItemStep, ReviewPendingRelease, AcquireUnmatched, AcquireMatched,
     AcquireMatchedTooLate, SpawnUnproven, SpawnUnmatched, SpawnMatched, CleanupUnmatched,
     CleanupAdopt, Done, gwVars
<1>3. \A e \in Requests : Issued(e)' = Issued(e)
  BY <1>2 DEF Issued
<1>4. CASE SpawnMatched(r, d)
  <2>1. d \in gwSessions
    BY <1>4 DEF SpawnMatched, AnswerInv, SeenSessionsExist
  <2>2. QED
    BY <1>1, <1>2, <1>4, <2>1, AcceptStep DEF SpawnMatched, Settled
<1>5. CASE SpawnUnproven(r, d) \/ SpawnUnmatched(r, d)
  <2>1. MarkSpawnReview(d, "other") /\ lease' = lease
    BY <1>5 DEF SpawnUnproven, SpawnUnmatched
  <2>2. \A e \in Requests : TerminalPreSpawn(e)' = TerminalPreSpawn(e)
    BY <1>1, <2>1 DEF MarkSpawnReview, TerminalPreSpawn, TypeOK, StoreTypeOK, Unsettled, Review
  <2>3. QED
    BY <1>1, <1>2, <1>3, <2>1, <2>2, ReviewStep DEF Reason
<1>6. CASE ~SpawnMatched(r, d) /\ ~SpawnUnproven(r, d) /\ ~SpawnUnmatched(r, d)
  <2> USE DEF TypeOK, StoreTypeOK
  <2>1. UNCHANGED <<spawn, reason>>
    BY <1>6 DEF ItemStep, ReviewPendingRelease, AcquireUnmatched, AcquireMatched,
       AcquireMatchedTooLate, CleanupUnmatched, CleanupAdopt, storeVars
  <2>2. \A e \in Requests :
          lease'[e] \in {"released", "expired"} <=> lease[e] \in {"released", "expired"}
    BY <1>1, <1>6 DEF ItemStep, ReviewPendingRelease, AcquireUnmatched, AcquireMatched,
       AcquireMatchedTooLate, CleanupUnmatched, CleanupAdopt, MarkAcquireReview,
       PersistAcquiredLease, CanPersistAcquired, Review, storeVars
  <2>3. \A e \in Requests : TerminalPreSpawn(e)' = TerminalPreSpawn(e)
    BY <2>1, <2>2 DEF TerminalPreSpawn
  <2>4. QED
    BY <1>2, <1>3, <2>1, <2>3, QuietStep
<1>7. QED
  BY <1>4, <1>5, <1>6

LEMMA UnchangedRowsSimulate ==
  ASSUME UNCHANGED <<spawn, reason, lease, gwSessions>>,
         \A e \in Requests : Issued(e)' = Issued(e)
  PROVE  ArbiterStep
<1>1. \A e \in Requests : TerminalPreSpawn(e)' = TerminalPreSpawn(e)
  BY DEF TerminalPreSpawn
<1>2. QED
  BY <1>1, QuietStep

LEMMA NextSimulates ==
  DispatchInv /\ HandoverInv /\ AnswerInv /\ [Next]_vars => ArbiterStep
<1> SUFFICES ASSUME DispatchInv, HandoverInv, AnswerInv, [Next]_vars PROVE ArbiterStep
  OBVIOUS
<1>1. CASE Dispatching
  <2>1. ASSUME NEW c \in Callers, CallerStops(c) PROVE ArbiterStep
    BY <2>1, UnchangedRowsSimulate DEF CallerStops, Issued, storeVars, gwVars
  <2>2. QED
    BY <1>1, <2>1, CallerSimulates, ReleaseSimulates DEF Dispatching
<1>2. CASE Reconciling
  <2>1. ASSUME NEW r \in Reconcilers,
               StartPass(r) \/ ListLeases(r) \/ Advance(r) \/ EndPass(r) \/ PassStops(r)
        PROVE  ArbiterStep
    <3>1. UNCHANGED <<storeVars, gwVars>>
      BY <2>1 DEF StartPass, ListLeases, Advance, EndPass, PassStops
    <3>2. QED
      BY <3>1, UnchangedRowsSimulate DEF Issued, storeVars, gwVars
  <2>2. QED
    BY <1>2, <2>1, ItemSimulates DEF Reconciling
<1>3. CASE Outside
  <2>1. ASSUME NEW d \in Requests, GraceElapses(d), UNCHANGED gwVars PROVE ArbiterStep
    BY <2>1, UnchangedRowsSimulate DEF GraceElapses, Issued, gwVars
  <2>2. ASSUME NEW d \in Requests, GatewayStep(d), UNCHANGED storeVars PROVE ArbiterStep
    <3>1. CASE ApplySpawn(d)
      BY <2>2, <3>1, StartStep
    <3>2. CASE ApplyAcquire(d) \/ ApplyRelease(d) \/ GatewayExpires(d)
      <4>1. \A e \in Requests : Issued(e)' = Issued(e)
        BY <3>2 DEF ApplyAcquire, ApplyRelease, GatewayExpires, Issued
      <4>2. gwSessions' = gwSessions
        BY <3>2 DEF ApplyAcquire, ApplyRelease, GatewayExpires
      <4>3. QED
        BY <2>2, <4>1, <4>2, UnchangedRowsSimulate DEF storeVars
    <3>3. QED
      BY <2>2, <3>1, <3>2 DEF GatewayStep
  <2>3. QED
    BY <1>3, <2>1, <2>2 DEF Outside
<1>4. CASE UNCHANGED vars
  BY <1>4, UnchangedRowsSimulate DEF vars, Issued, storeVars, gwVars
<1>5. QED
  BY <1>1, <1>2, <1>3, <1>4 DEF Next

\* Every reachable state satisfies the inductive invariant of the handover:
\* the acquire call of a request leaves and takes effect once, a lease the
\* rows or a pass know of existed, and one the rows call released is gone.
THEOREM HandoverInvariant == Spec => []HandoverInv
<1>1. Init => DispatchInv /\ HandoverInv
  BY DispatchInvInit, HandoverInvInit
<1>2. DispatchInv /\ HandoverInv /\ [Next]_vars => (DispatchInv /\ HandoverInv)'
  BY DispatchInvStep, HandoverInvStep
<1>3. QED
  BY <1>1, <1>2, PTL DEF Spec

\* Dispatching, with its crashes, late answers, releases and reconciliation
\* passes, implements the arbiter: a slot admits one request at a time and
\* passes on only after a withdrawal, a withdrawn request never calls, and a
\* verdict is given once and accepts only what the Gateway started.
THEOREM DispatchImplementsArbiter == Spec => ImplementsArbiter
<1>1. Init => Arbiter!Init
  BY ArbiterInit
<1>2. DispatchInv /\ HandoverInv /\ AnswerInv /\ [Next]_vars
        => [Arbiter!Next]_(Arbiter!arbiterVars)
  BY NextSimulates DEF ArbiterStep
<1>3. Init => DispatchInv /\ HandoverInv /\ AnswerInv
  BY DispatchInvInit, HandoverInvInit, AnswerInvInit
<1>4. DispatchInv /\ HandoverInv /\ AnswerInv /\ [Next]_vars
        => (DispatchInv /\ HandoverInv /\ AnswerInv)'
  BY DispatchInvStep, HandoverInvStep, AnswerInvStep
<1>5. QED
  BY <1>1, <1>2, <1>3, <1>4, PTL DEF Spec, ImplementsArbiter, Arbiter!Spec

-----------------------------------------------------------------------------
(* Handover *)

\* What SlotHandover says of one step.
HandoverIsOver ==
  \A d \in Requests :
    spawn[d] = "none" /\ spawn'[d] # "none" =>
      \A e \in Rivals(d) :
        spawn[e] # "none" => ~Issued(e) /\ gwLease[e] = "gone"

LEMMA HandoverStep ==
  ASSUME DispatchInv, HandoverInv, ArbiterStep
  PROVE  HandoverIsOver
<1> SUFFICES ASSUME NEW d \in Requests, spawn[d] = "none", spawn'[d] # "none",
                    NEW e \in Rivals(d), spawn[e] # "none"
             PROVE  ~Issued(e) /\ gwLease[e] = "gone"
  BY DEF HandoverIsOver
<1>1. d \notin Admitted /\ d \in Admitted'
  BY DEF Admitted
<1>2. Arbiter!Next
  BY <1>1 DEF ArbiterStep, Arbiter!arbiterVars
<1>3. Arbiter!Admit(d)
  BY <1>1, <1>2 DEF Arbiter!Next, Arbiter!Admit, Arbiter!Call, Arbiter!Start,
     Arbiter!Accept, Arbiter!SendToReview, Arbiter!Withdraw
<1>4. e \in Requests /\ e \in Withdrawn
  BY <1>3 DEF Arbiter!Admit, Rivals, Admitted
<1>5. reason[e] = "blocked" /\ lease[e] \in {"released", "expired"}
  BY <1>4 DEF Withdrawn, TerminalPreSpawn
<1>6. ~Issued(e)
  BY <1>4, <1>5 DEF DispatchInv, MayCallIsLive, MayCall
<1>7. gwLease[e] = "gone"
  BY <1>4, <1>5 DEF HandoverInv, EndedLeaseIsOver
<1>8. QED
  BY <1>6, <1>7

\* When a slot admits a new dispatch, every earlier dispatch of that slot is
\* over at the Gateway too, whatever the transport answered: no spawn call of
\* it ever left, and its lease is gone.
THEOREM HandoverIsSafe == Spec => SlotHandover
<1>1. DispatchInv /\ HandoverInv /\ AnswerInv /\ [Next]_vars => HandoverIsOver
  BY NextSimulates, HandoverStep
<1>2. Init => DispatchInv /\ HandoverInv /\ AnswerInv
  BY DispatchInvInit, HandoverInvInit, AnswerInvInit
<1>3. DispatchInv /\ HandoverInv /\ AnswerInv /\ [Next]_vars
        => (DispatchInv /\ HandoverInv /\ AnswerInv)'
  BY DispatchInvStep, HandoverInvStep, AnswerInvStep
<1>4. QED
  BY <1>1, <1>2, <1>3, PTL DEF Spec, SlotHandover, HandoverIsOver
=============================================================================
