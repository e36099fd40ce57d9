---------------------------- MODULE Reconciliation ----------------------------
(***************************************************************************)
(* reconcile_unknown_metadata, composed with the dispatching callers and   *)
(* the Gateway.  A pass lists the Gateway's sessions and leases once, then *)
(* runs its phases: each selects its rows in one query and handles every   *)
(* row in a transaction of its own, against the lists taken at the start.  *)
(***************************************************************************)
EXTENDS RuntimeDispatch

CONSTANT Reliable   \* passes that are not killed while they run

ASSUME ReliableAssumption == Reliable \subseteq Reconcilers

VARIABLES
  phase,        \* phase of each pass
  due,          \* <<rpc, request>> intents pending since before the pass's cutoff
  seenSessions, \* sessions_list as of the start of the pass
  seenLeases    \* allow_lease_list as of the start of the pass

passVars == <<phase, due, seenSessions, seenLeases>>
vars == <<storeVars, gwVars, callVars, todo, passVars>>

Phase == {"idle", "listed_sessions", "listed", "release", "acquire",
          "unproven", "spawn", "cleanup"}

NextPhase(p) ==
  CASE p = "listed"   -> "release"
    [] p = "release"  -> "acquire"
    [] p = "acquire"  -> "unproven"
    [] p = "unproven" -> "spawn"
    [] p = "spawn"    -> "cleanup"

-----------------------------------------------------------------------------
(* Candidate queries *)

Intent(rpc, d) ==
  CASE rpc = "allow_lease_acquire" -> acquire[d]
    [] rpc = "sessions_spawn"      -> spawn[d]
    [] rpc = "allow_lease_release" -> release[d]

\* Mutant: intents left pending by a crash are never picked up.
UnknownOnly(r, rpc, d) == Intent(rpc, d) = "unknown"

PendingOrUnknown(r, rpc, d) ==
  \/ Intent(rpc, d) = "unknown"
  \/ Intent(rpc, d) = "pending" /\ <<rpc, d>> \in due[r]

AcquiredLeaseProof(d) == acquire[d] \in Settled /\ lease[d] = "acquired"

ReleasePendingRequests(r) ==
  {d \in Requests : /\ lease[d] = "release_pending"
                    /\ PendingOrUnknown(r, "allow_lease_release", d)}

UnknownLeaseRequests(r) ==
  {d \in Requests : PendingOrUnknown(r, "allow_lease_acquire", d)}

SpawnRequestsWithoutAcquiredLeaseProof(r) ==
  {d \in Requests : /\ PendingOrUnknown(r, "sessions_spawn", d)
                    /\ ~AcquiredLeaseProof(d)}

UnknownSpawnRequests(r) ==
  {d \in Requests : /\ PendingOrUnknown(r, "sessions_spawn", d)
                    /\ AcquiredLeaseProof(d)}

\* Mutant: every reviewed spawn has its lease cleaned up.
ReviewedCleanupRequests ==
  {d \in Requests : lease[d] = "acquired" /\ spawn[d] = Review /\ release[d] = "none"}

AcquireOnlyCleanupRequests ==
  {d \in Requests : /\ lease[d] = "acquired"
                    /\ spawn[d] = Review
                    /\ reason[d] = "blocked"
                    /\ release[d] = "none"}

Candidates(r, p) ==
  CASE p = "release"  -> ReleasePendingRequests(r)
    [] p = "acquire"  -> UnknownLeaseRequests(r)
    [] p = "unproven" -> SpawnRequestsWithoutAcquiredLeaseProof(r)
    [] p = "spawn"    -> UnknownSpawnRequests(r)
    [] p = "cleanup"  -> AcquireOnlyCleanupRequests

-----------------------------------------------------------------------------
(* The pass *)

StartPass(r) ==
  /\ phase[r] = "idle"
  /\ phase' = [phase EXCEPT ![r] = "listed_sessions"]
  /\ due' = [due EXCEPT ![r] = {i \in Rpc \X overdue : Intent(i[1], i[2]) = "pending"}]
  /\ seenSessions' = [seenSessions EXCEPT ![r] = gwSessions]
  /\ UNCHANGED <<seenLeases, todo, callVars, storeVars, gwVars>>

ListLeases(r) ==
  /\ phase[r] = "listed_sessions"
  /\ phase' = [phase EXCEPT ![r] = "listed"]
  /\ seenLeases' = [seenLeases EXCEPT ![r] = {d \in Requests : gwLease[d] = "live"}]
  /\ UNCHANGED <<due, seenSessions, todo, callVars, storeVars, gwVars>>

Advance(r) ==
  /\ phase[r] \notin {"idle", "listed_sessions", "cleanup"}
  /\ todo[r] = {}
  /\ LET p == NextPhase(phase[r])
     IN  /\ phase' = [phase EXCEPT ![r] = p]
         /\ todo'  = [todo  EXCEPT ![r] = Candidates(r, p)]
  /\ UNCHANGED <<due, seenSessions, seenLeases, callVars, storeVars, gwVars>>

ForgetPass(r) ==
  /\ phase' = [phase EXCEPT ![r] = "idle"]
  /\ todo'  = [todo  EXCEPT ![r] = {}]
  /\ due'   = [due   EXCEPT ![r] = {}]
  /\ seenSessions' = [seenSessions EXCEPT ![r] = {}]
  /\ seenLeases'   = [seenLeases   EXCEPT ![r] = {}]

EndPass(r) ==
  /\ phase[r] = "cleanup"
  /\ todo[r] = {}
  /\ ForgetPass(r)
  /\ UNCHANGED <<callVars, storeVars, gwVars>>

\* The process dies, or one of its calls or transactions raises.
PassStops(r) ==
  /\ r \notin Reliable
  /\ phase[r] # "idle"
  /\ ForgetPass(r)
  /\ Leave(r)
  /\ UNCHANGED <<answered, storeVars, gwVars>>

Item(r, p, d) == phase[r] = p /\ d \in todo[r] /\ step[r] = "idle"

Done(r, d) ==
  /\ todo' = [todo EXCEPT ![r] = @ \ {d}]
  /\ UNCHANGED <<callVars, passVars, gwVars>>

-----------------------------------------------------------------------------
(* One transaction per item.  Whether an observation is malformed or       *)
(* duplicated is data of the listing, left open here.                      *)

ReviewPendingRelease(r, d) ==
  /\ Item(r, "release", d)
  /\ MarkReleaseReview(d)
  /\ Done(r, d)
  /\ UNCHANGED <<acquire, spawn, lease, reason, overdue>>

AcquireUnmatched(r, d) ==
  /\ Item(r, "acquire", d)
  /\ MarkAcquireReview(d)
  /\ Done(r, d)
  /\ UNCHANGED <<spawn, release, reason, overdue>>

AcquireMatched(r, d) ==
  /\ Item(r, "acquire", d)
  /\ d \in seenLeases[r]
  /\ PersistAcquiredLease(d, "reconciled")
  /\ Done(r, d)
  /\ UNCHANGED <<spawn, release, reason, overdue>>

\* The rows moved since the query: the exception is not caught.
AcquireMatchedTooLate(r, d) ==
  /\ Item(r, "acquire", d)
  /\ d \in seenLeases[r]
  /\ ~CanPersistAcquired(d)
  /\ ForgetPass(r)
  /\ UNCHANGED <<callVars, storeVars, gwVars>>

SpawnUnproven(r, d) ==
  /\ Item(r, "unproven", d)
  /\ MarkSpawnReview(d, "other")
  /\ Done(r, d)
  /\ UNCHANGED <<acquire, release, lease, overdue>>

\* No session, a malformed or second one, or one that may not be persisted.
SpawnUnmatched(r, d) ==
  /\ Item(r, "spawn", d)
  /\ MarkSpawnReview(d, "other")
  /\ Done(r, d)
  /\ UNCHANGED <<acquire, release, lease, overdue>>

\* Mutant: no observation is taken for an acceptance.
SpawnPresumed(r, d) ==
  /\ Item(r, "spawn", d)
  /\ PersistSpawnAcceptance(d, "reconciled")
  /\ Done(r, d)
  /\ UNCHANGED <<acquire, release, lease, reason, overdue>>

SpawnMatched(r, d) ==
  /\ Item(r, "spawn", d)
  /\ d \in seenSessions[r]
  /\ PersistSpawnAcceptance(d, "reconciled")
  /\ Done(r, d)
  /\ UNCHANGED <<acquire, release, lease, reason, overdue>>

CleanupUnmatched(r, d) ==
  /\ Item(r, "cleanup", d)
  /\ MarkReleaseReview(d)
  /\ Done(r, d)
  /\ UNCHANGED <<acquire, spawn, lease, reason, overdue>>

\* adopt_verified_lease_ownership, then release_owned_lease.
CleanupAdopt(r, d) ==
  /\ Item(r, "cleanup", d)
  /\ d \in seenLeases[r]
  /\ step' = [step EXCEPT ![r] = "release"]
  /\ job'  = [job  EXCEPT ![r] = d]
  /\ UNCHANGED <<answered, todo, passVars, storeVars, gwVars>>

ItemStep(r, d) ==
  \/ ReviewPendingRelease(r, d)
  \/ AcquireUnmatched(r, d) \/ AcquireMatched(r, d) \/ AcquireMatchedTooLate(r, d)
  \/ SpawnUnproven(r, d) \/ SpawnUnmatched(r, d) \/ SpawnMatched(r, d)
  \/ CleanupUnmatched(r, d) \/ CleanupAdopt(r, d)
=============================================================================
