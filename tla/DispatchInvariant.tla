-------------------------- MODULE DispatchInvariant --------------------------
(***************************************************************************)
(* The inductive invariants behind the safety properties of DispatchSystem.*)
(***************************************************************************)
EXTENDS DispatchSystem

\* Steps of a caller that may still lead to its sessions_spawn call.
BeforeCall == {"acquire", "acquiring", "leased", "spawn"}
Releasing  == {"release", "release_rpc", "releasing"}

WorksOn(a, d, steps) == job[a] = d /\ step[a] \in steps

\* A sessions_spawn call for d has left, or a caller may still make it.
MayCall(d) == Issued(d) \/ \E c \in Callers : WorksOn(c, d, BeforeCall)

-----------------------------------------------------------------------------
WorkHasRow ==
  \A c \in Callers, d \in Requests : job[c] = d => spawn[d] # "none"

ReasonOnlyInReview ==
  \A d \in Requests : reason[d] # "none" => spawn[d] = Review

NotYetCalled ==
  \A c \in Callers, d \in Requests : WorksOn(c, d, BeforeCall) => ~Issued(d)

\* What keeps the slot closed: the row of a dispatch that may call is there
\* and never carries the one reason that frees the slot.
MayCallIsLive ==
  \A d \in Requests : MayCall(d) => spawn[d] # "none" /\ reason[d] # "blocked"

OneMayCallPerSlot ==
  \A d, e \in Requests :
    d # e /\ SlotOf[d] = SlotOf[e] => ~(MayCall(d) /\ MayCall(e))

\* Inductive, whatever the transport answers: at most one request of a slot
\* may have called or may still call sessions_spawn, and the rows say so.
DispatchInv ==
  /\ TypeOK
  /\ WorkHasRow
  /\ ReasonOnlyInReview
  /\ OneCallerPerRequest
  /\ NotYetCalled
  /\ MayCallIsLive
  /\ OneMayCallPerSlot

-----------------------------------------------------------------------------
\* The rows of a request are inserted by one transaction: without the spawn
\* row there is no lease and no other intent.
RowsInsertedTogether ==
  \A d \in Requests :
    spawn[d] = "none" => acquire[d] = "none" /\ lease[d] = "none" /\ release[d] = "none"

SeenSessionsExist == \A r \in Reconcilers : seenSessions[r] \subseteq gwSessions

AcceptedHasSession == \A d \in Requests : spawn[d] \in Settled => d \in gwSessions

\* Inductive on its own: an acceptance is persisted over a session only, so
\* a result handed out, or replayed, speaks of one.
AnswerInv ==
  /\ TypeOK
  /\ SeenSessionsExist
  /\ AcceptedHasSession
  /\ AnswerHasSession

-----------------------------------------------------------------------------
CleanupItemsBlocked ==
  \A r \in Reconcilers : phase[r] = "cleanup" =>
    \A d \in todo[r] : reason[d] = "blocked"

PassReleasesItem ==
  \A r \in Reconcilers : step[r] # "idle" => phase[r] = "cleanup" /\ job[r] \in todo[r]

\* The acquire call for d has left, whether or not the Gateway has applied it.
AcquireLeft(d) == <<"allow_lease_acquire", d>> \in wire \/ gwLease[d] # "none"

\* It leaves once, for a request that has its rows, and takes effect once.
AcquireLeavesOnce ==
  \A d \in Requests :
    /\ AcquireLeft(d) =>
         spawn[d] # "none" /\ \A c \in Callers : ~WorksOn(c, d, {"acquire"})
    /\ gwLease[d] # "none" => <<"allow_lease_acquire", d>> \notin wire

AcquiringHasLeft ==
  \A c \in Callers, d \in Requests : WorksOn(c, d, {"acquiring"}) => AcquireLeft(d)

\* What the rows and the passes know of a Gateway lease was there.
KnownLeaseExists ==
  /\ \A d \in Requests : HasGatewayId(d) => gwLease[d] # "none"
  /\ \A r \in Reconcilers : \A d \in seenLeases[r] : gwLease[d] # "none"

ReleaseCallIsPrepared ==
  \A d \in Requests :
    /\ <<"allow_lease_release", d>> \in wire => HasGatewayId(d)
    /\ \A a \in Actors :
         /\ WorksOn(a, d, {"release_rpc", "releasing"}) => HasGatewayId(d)
         /\ WorksOn(a, d, {"releasing"}) =>
              <<"allow_lease_release", d>> \in wire \/ gwLease[d] = "gone"

\* Where the rows say that the lease is over, it is over at the Gateway, or
\* it is not the kind of end that frees a slot; and nobody acquires it still.
EndedLeaseIsOver ==
  \A d \in Requests :
    /\ lease[d] = "released" => gwLease[d] = "gone"
    /\ lease[d] = "expired" => reason[d] # "blocked"
    /\ lease[d] \in {"released", "expired"} =>
         \A c \in Callers : ~WorksOn(c, d, {"acquire", "acquiring"})

\* Inductive together with DispatchInv, whatever the transport answers: how
\* the lease rows follow the Gateway's own lease.
HandoverInv ==
  /\ RowsInsertedTogether
  /\ CleanupItemsBlocked
  /\ PassReleasesItem
  /\ AcquireLeavesOnce
  /\ AcquiringHasLeft
  /\ KnownLeaseExists
  /\ ReleaseCallIsPrepared
  /\ EndedLeaseIsOver

-----------------------------------------------------------------------------
CallerReleasesUncalled ==
  \A c \in Callers, d \in Requests :
    WorksOn(c, d, Releasing) => ~Issued(d) /\ spawn[d] \notin Unsettled

ReleaseHasNoCall ==
  \A d \in Requests : release[d] # "none" => spawn[d] # "none" /\ ~MayCall(d)

LeaseHeldForCall ==
  \A c \in Callers, d \in Requests :
    WorksOn(c, d, {"leased", "spawn", "spawning"}) => AcquiredLeaseProof(d)

SpawningIsIssued ==
  \A c \in Callers, d \in Requests : WorksOn(c, d, {"spawning"}) => Issued(d)

SpawnItemsHaveProof ==
  \A r \in Reconcilers : phase[r] = "spawn" =>
    \A d \in todo[r] :
      /\ spawn[d] # "none"
      /\ spawn[d] \in Unsettled => AcquiredLeaseProof(d)

\* Inductive together with DispatchInv when the transport answers with
\* objects: a lease is released, or stays, according to whether a spawn call
\* was made, and an accepted spawn keeps its lease.
ReleaseInv ==
  /\ CleanupItemsBlocked
  /\ PassReleasesItem
  /\ CallerReleasesUncalled
  /\ ReleaseHasNoCall
  /\ LeaseHeldForCall
  /\ SpawningIsIssued
  /\ SeenSessionsExist
  /\ SpawnItemsHaveProof
  /\ AcceptedSpawnHasProof
=============================================================================
