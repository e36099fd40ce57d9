--------------------------- MODULE RuntimeDispatch ---------------------------
(***************************************************************************)
(* dispatch_with_metadata: callers that submit requests.  A caller is one  *)
(* process running the function; between two of its transactions lies a    *)
(* Gateway call during which every other process may act, and a caller may *)
(* be killed (or leave the function by an exception nobody catches) at any *)
(* of these points.  The owned-lease release is written once, for the      *)
(* callers and for the reconciliation passes that share release_owned_lease*)
(* and its error handling.                                                 *)
(***************************************************************************)
EXTENDS Gateway

CONSTANTS
  Callers,          \* processes inside dispatch_with_metadata
  Reconcilers,      \* processes inside reconcile_unknown_metadata
  NoRequest,        \* a process that works on no request
  ObjectResponses   \* TRUE: the transport answers with JSON objects only

Actors == Callers \cup Reconcilers

ASSUME ActorAssumption ==
  /\ Callers \cap Reconcilers = {}
  /\ NoRequest \notin Requests
  /\ ObjectResponses \in BOOLEAN

VARIABLES
  step,         \* where each process is between two transactions or calls
  job,          \* the request it works on
  answered,     \* requests for which a caller was handed a DispatchResult
  todo          \* requests left in the current phase of each pass

callVars == <<step, job, answered>>

\* "acquire", "spawn" and "release" precede the call or transaction they are
\* named for; "...ing" means that the call has left and is not answered.
Step == {"idle", "acquire", "acquiring", "leased", "spawn", "spawning",
         "release", "release_rpc", "releasing"}

At(a, s, d) == step[a] = s /\ job[a] = d

Goto(a, s) ==
  /\ step' = [step EXCEPT ![a] = s]
  /\ UNCHANGED <<job, answered>>

Leave(a) ==
  /\ step' = [step EXCEPT ![a] = "idle"]
  /\ job'  = [job  EXCEPT ![a] = NoRequest]

\* A caller raises; a pass goes on with its next item.
Finish(a, d) ==
  /\ Leave(a)
  /\ UNCHANGED answered
  /\ todo' = IF a \in Reconcilers THEN [todo EXCEPT ![a] = @ \ {d}] ELSE todo

-----------------------------------------------------------------------------
(* First transaction: replay, refuse, or insert the pending rows *)

Begin(c, d) ==
  /\ step[c] = "idle"
  /\ InsertPendingDispatch(d)
  /\ step' = [step EXCEPT ![c] = "acquire"]
  /\ job'  = [job  EXCEPT ![c] = d]
  /\ UNCHANGED <<answered, todo, gwVars>>

\* Mutant: the replay trusts the lease row alone.
ReplayFromLease(c, d) ==
  /\ step[c] = "idle"
  /\ HasGatewayId(d)
  /\ answered' = answered \cup {d}
  /\ UNCHANGED <<step, job, todo, storeVars, gwVars>>

\* An exact replay of an accepted dispatch is answered from the database.
Replay(c, d) ==
  /\ step[c] = "idle"
  /\ spawn[d] \in Settled
  /\ HasGatewayId(d)
  /\ answered' = answered \cup {d}
  /\ UNCHANGED <<step, job, todo, storeVars, gwVars>>

-----------------------------------------------------------------------------
(* allow_lease_acquire *)

AcquireCall(c, d) ==
  /\ At(c, "acquire", d)
  /\ Send("allow_lease_acquire", d)
  /\ Goto(c, "acquiring")
  /\ UNCHANGED <<todo, storeVars>>

AcquirePersist(c, d) ==
  /\ At(c, "acquiring", d)
  /\ Delivered("allow_lease_acquire", d)
  /\ PersistAcquiredLease(d, "accepted")
  /\ Goto(c, "leased")
  /\ UNCHANGED <<spawn, release, reason, overdue, todo, gwVars>>

\* A transport error (the call may or may not have left), a drift of the
\* attestation after the call, or an answer that could not be persisted.
AcquireUncertain(c, d) ==
  /\ At(c, "acquire", d) \/ At(c, "acquiring", d)
  /\ MarkAcquireUnknown(d)
  /\ MarkSpawnReview(d, "blocked")
  /\ Finish(c, d)
  /\ UNCHANGED <<release, lease, overdue, gwVars>>

\* A contract error: the adapter refused the call, or the answer carries no
\* valid lease metadata.
AcquireRefused(c, d) ==
  /\ \/ At(c, "acquire", d)
     \/ At(c, "acquiring", d) /\ Delivered("allow_lease_acquire", d)
  /\ MarkAcquireReview(d)
  /\ MarkSpawnReview(d, "blocked")
  /\ Finish(c, d)
  /\ UNCHANGED <<release, overdue, gwVars>>

-----------------------------------------------------------------------------
(* Local expiry check; now < expires_at is decided by the clock *)

LeaseStillValid(c, d) ==
  /\ At(c, "leased", d)
  /\ lease[d] = "acquired"
  /\ Goto(c, "spawn")
  /\ UNCHANGED <<todo, storeVars, gwVars>>

LeaseExpiredLocally(c, d) ==
  /\ At(c, "leased", d)
  /\ ExpireLeaseBeforeSpawn(d)
  /\ Finish(c, d)
  /\ UNCHANGED <<acquire, release, overdue, gwVars>>

-----------------------------------------------------------------------------
(* sessions_spawn *)

SpawnCall(c, d) ==
  /\ At(c, "spawn", d)
  /\ Send("sessions_spawn", d)
  /\ Goto(c, "spawning")
  /\ UNCHANGED <<todo, storeVars>>

SpawnPersist(c, d) ==
  /\ At(c, "spawning", d)
  /\ d \in gwSessions
  /\ PersistSpawnAcceptance(d, "accepted")
  /\ Leave(c)
  /\ answered' = answered \cup {d}
  /\ UNCHANGED <<acquire, release, lease, reason, overdue, todo, gwVars>>

\* An ambiguous outcome, or an accepted answer whose transaction fails: the
\* lease is retained.
SpawnUncertain(c, d) ==
  /\ At(c, "spawn", d) \/ At(c, "spawning", d)
  /\ MarkSpawnReview(d, "other")
  /\ Finish(c, d)
  /\ UNCHANGED <<acquire, release, lease, overdue, gwVars>>

\* AdapterContractError.  The adapter raises it before the call; after the
\* call only for an answer that is not an object.
SpawnRefused(c, d) ==
  /\ \/ At(c, "spawn", d)
     \/ /\ ~ObjectResponses
        /\ At(c, "spawning", d)
        /\ Delivered("sessions_spawn", d)
  /\ MarkSpawnReview(d, "other")
  /\ Goto(c, "release")
  /\ UNCHANGED <<acquire, release, lease, overdue, todo, gwVars>>

-----------------------------------------------------------------------------
(* release_owned_lease and its error handling, for callers and passes *)

PrepareRelease(a, d) ==
  /\ At(a, "release", d)
  /\ PrepareOwnedLeaseRelease(d)
  /\ Goto(a, "release_rpc")
  /\ UNCHANGED <<acquire, spawn, reason, todo, gwVars>>

ReleaseCall(a, d) ==
  /\ At(a, "release_rpc", d)
  /\ Send("allow_lease_release", d)
  /\ Goto(a, "releasing")
  /\ UNCHANGED <<todo, storeVars>>

ReleasePersist(a, d) ==
  /\ At(a, "releasing", d)
  /\ Delivered("allow_lease_release", d)
  /\ PersistReleasedLease(d)
  /\ Finish(a, d)
  /\ UNCHANGED <<acquire, spawn, reason, overdue, gwVars>>

\* RELEASE_FAILURE_ERRORS: the lease is no longer exactly owned, the adapter
\* refused the call, or the answer was invalid or could not be persisted.
ReleaseFails(a, d) ==
  /\ step[a] \in {"release", "release_rpc", "releasing"}
  /\ job[a] = d
  /\ MarkReleaseReview(d)
  /\ Finish(a, d)
  /\ UNCHANGED <<acquire, spawn, lease, reason, overdue, gwVars>>

ReleaseUncertain(a, d) ==
  /\ At(a, "release_rpc", d) \/ At(a, "releasing", d)
  /\ MarkReleaseUnknown(d)
  /\ Finish(a, d)
  /\ UNCHANGED <<acquire, spawn, reason, overdue, gwVars>>

ReleaseStep(a, d) ==
  \/ PrepareRelease(a, d) \/ ReleaseCall(a, d) \/ ReleasePersist(a, d)
  \/ ReleaseFails(a, d) \/ ReleaseUncertain(a, d)

-----------------------------------------------------------------------------
\* The process dies, or an exception outside the caught classes escapes.
CallerStops(c) ==
  /\ step[c] # "idle"
  /\ Leave(c)
  /\ UNCHANGED <<answered, todo, storeVars, gwVars>>

CallerStep(c, d) ==
  \/ Begin(c, d) \/ Replay(c, d)
  \/ AcquireCall(c, d) \/ AcquirePersist(c, d)
  \/ AcquireUncertain(c, d) \/ AcquireRefused(c, d)
  \/ LeaseStillValid(c, d) \/ LeaseExpiredLocally(c, d)
  \/ SpawnCall(c, d) \/ SpawnPersist(c, d)
  \/ SpawnUncertain(c, d) \/ SpawnRefused(c, d)
=============================================================================
