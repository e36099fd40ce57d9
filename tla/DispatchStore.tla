---------------------------- MODULE DispatchStore ----------------------------
(***************************************************************************)
(* The rows of control.db that one runtime dispatch owns, and the row      *)
(* updates runtime_dispatch.py performs on them.  Every update below is    *)
(* the body of (a part of) one BEGIN IMMEDIATE transaction, so an action   *)
(* that conjoins some of them is one atomic step.                          *)
(*                                                                         *)
(* A request stands for one DispatchRequest: its spawn_request, lease,     *)
(* runtime_dispatch_binding row and its three external_rpc_intents rows.   *)
(* The immutable binding makes that association one-to-one, so rows are    *)
(* functions of the request.  spawn_requests.state is not kept apart from  *)
(* the sessions_spawn intent: every transaction that moves one moves the   *)
(* other under the same condition.                                         *)
(***************************************************************************)
EXTENDS Naturals, FiniteSets

CONSTANTS
  Requests,     \* the DispatchRequest values callers may submit
  Slots,        \* the (run_id, phase, agent_id) triples
  SlotOf        \* the slot a request dispatches into

ASSUME SlotAssumption == SlotOf \in [Requests -> Slots]

VARIABLES
  acquire,      \* state of the allow_lease_acquire intent
  spawn,        \* state of the sessions_spawn intent (and its spawn_request)
  release,      \* state of the allow_lease_release intent
  lease,        \* leases.state
  reason,       \* class of spawn_requests.ambiguity_reason
  overdue       \* requests whose newest intents are older than the grace period

storeVars == <<acquire, spawn, release, lease, reason, overdue>>

Unsettled == {"pending", "unknown"}
Settled   == {"accepted", "reconciled"}
Review    == "human_review_required"

IntentState == {"none", Review} \cup Unsettled \cup Settled
LeaseState  == {"none", "acquire_pending", "acquired", "release_pending",
                "released", "expired", Review}
\* "blocked" stands for the two texts that match the LIKE pattern
\* 'spawn blocked by allow lease%', "expired" for the local-expiry text, and
\* "other" for every remaining text.
Reason      == {"none", "blocked", "expired", "other"}

StoreTypeOK ==
  /\ acquire \in [Requests -> IntentState]
  /\ spawn   \in [Requests -> IntentState]
  /\ release \in [Requests -> IntentState]
  /\ lease   \in [Requests -> LeaseState]
  /\ reason  \in [Requests -> Reason]
  /\ overdue \subseteq Requests

StoreInit ==
  /\ acquire = [d \in Requests |-> "none"]
  /\ spawn   = [d \in Requests |-> "none"]
  /\ release = [d \in Requests |-> "none"]
  /\ lease   = [d \in Requests |-> "none"]
  /\ reason  = [d \in Requests |-> "none"]
  /\ overdue = {}

-----------------------------------------------------------------------------
(* Queries *)

\* gateway_lease_id is written when the lease becomes acquired and never
\* cleared afterwards.
HasGatewayId(d) ==
  lease[d] \in {"acquired", "release_pending", "released", "expired"}

\* Mutant: the review frees the slot whatever became of the lease.
FreedByReviewAlone(d) == spawn[d] = Review /\ reason[d] = "blocked"

\* The human-review outcome that frees a slot: the pre-spawn allow-lease
\* failure whose lease is known to be gone.
TerminalPreSpawn(d) ==
  /\ spawn[d] = Review
  /\ reason[d] = "blocked"
  /\ lease[d] \in {"released", "expired"}

\* Mutant: an accepted dispatch no longer counts as live.
LiveWhileUnsettled(d) ==
  spawn[d] \in Unsettled \cup {Review} /\ ~TerminalPreSpawn(d)

PotentiallyLive(d) ==
  \/ spawn[d] \in Unsettled \cup Settled
  \/ spawn[d] = Review /\ ~TerminalPreSpawn(d)

Rivals(d) == {e \in Requests \ {d} : SlotOf[e] = SlotOf[d]}

\* assert_no_potentially_live_dispatch raises nothing.
NoPotentiallyLiveRival(d) == \A e \in Rivals(d) : ~PotentiallyLive(e)

HasPendingIntent(d) == "pending" \in {acquire[d], spawn[d], release[d]}

-----------------------------------------------------------------------------
(* Row updates *)

\* Mutant: a request under human review is inserted again.
InsertAgain(d) ==
  /\ spawn[d] \in {"none", Review}
  /\ NoPotentiallyLiveRival(d)
  /\ acquire' = [acquire EXCEPT ![d] = "pending"]
  /\ spawn'   = [spawn   EXCEPT ![d] = "pending"]
  /\ lease'   = [lease   EXCEPT ![d] = "acquire_pending"]
  /\ overdue' = overdue \ {d}
  /\ UNCHANGED <<release, reason>>

InsertPendingDispatch(d) ==
  /\ spawn[d] = "none"
  /\ NoPotentiallyLiveRival(d)
  /\ acquire' = [acquire EXCEPT ![d] = "pending"]
  /\ spawn'   = [spawn   EXCEPT ![d] = "pending"]
  /\ lease'   = [lease   EXCEPT ![d] = "acquire_pending"]
  /\ overdue' = overdue \ {d}
  /\ UNCHANGED <<release, reason>>

CanPersistAcquired(d) ==
  /\ acquire[d] \in Unsettled
  /\ lease[d] = "acquire_pending"

PersistAcquiredLease(d, state) ==
  /\ CanPersistAcquired(d)
  /\ acquire' = [acquire EXCEPT ![d] = state]
  /\ lease'   = [lease   EXCEPT ![d] = "acquired"]

\* mark_unknown, and persist_unknown_acquired_lease_candidate which differs
\* from it in the preserved candidate metadata only.
MarkAcquireUnknown(d) ==
  acquire' = [acquire EXCEPT ![d] = IF @ \in Unsettled THEN "unknown" ELSE @]

MarkAcquireReview(d) ==
  /\ acquire' = [acquire EXCEPT ![d] = IF @ \in Unsettled THEN Review ELSE @]
  /\ lease'   = [lease EXCEPT ![d] = IF @ = "acquire_pending" THEN Review ELSE @]

\* Mutant: a late failure overrides an accepted spawn.
MarkAnySpawnReview(d, why) ==
  /\ spawn'  = [spawn  EXCEPT ![d] = Review]
  /\ reason' = [reason EXCEPT ![d] = why]

MarkSpawnReview(d, why) ==
  /\ spawn'  = [spawn  EXCEPT ![d] = IF @ \in Unsettled THEN Review ELSE @]
  /\ reason' = [reason EXCEPT ![d] = IF spawn[d] \in Unsettled THEN why ELSE @]

ExpireLeaseBeforeSpawn(d) ==
  /\ lease[d] = "acquired"
  /\ lease' = [lease EXCEPT ![d] = "expired"]
  /\ MarkSpawnReview(d, "expired")

\* Mutant: a late acceptance overrides human review.
CanPersistOverReview(d) ==
  /\ NoPotentiallyLiveRival(d)
  /\ spawn[d] \in Unsettled \cup {Review}

CanPersistSpawn(d) ==
  /\ NoPotentiallyLiveRival(d)
  /\ spawn[d] \in Unsettled

PersistSpawnAcceptance(d, state) ==
  /\ CanPersistSpawn(d)
  /\ spawn' = [spawn EXCEPT ![d] = state]

PrepareOwnedLeaseRelease(d) ==
  /\ lease[d] = "acquired"
  /\ release[d] = "none"
  /\ lease'   = [lease   EXCEPT ![d] = "release_pending"]
  /\ release' = [release EXCEPT ![d] = "pending"]
  /\ overdue' = overdue \ {d}

PersistReleasedLease(d) ==
  /\ release[d] \in Unsettled
  /\ lease[d] = "release_pending"
  /\ release' = [release EXCEPT ![d] = "accepted"]
  /\ lease'   = [lease   EXCEPT ![d] = "released"]

MarkReleaseReview(d) ==
  release' = [release EXCEPT ![d] =
                IF @ \in Settled \cup {"none"} THEN @ ELSE Review]

MarkReleaseUnknown(d) ==
  /\ release' = [release EXCEPT ![d] = IF @ \in Unsettled THEN "unknown" ELSE @]
  /\ lease'   = [lease EXCEPT ![d] =
                   IF @ \in {"acquired", "release_pending"} THEN "release_pending" ELSE @]

\* The clock passes requested_at + PENDING_RPC_RECONCILE_GRACE_MS of every
\* pending intent of d.  The acquire and spawn intents of a request are
\* inserted together, and a release intent only when both have left pending.
GraceElapses(d) ==
  /\ HasPendingIntent(d)
  /\ d \notin overdue
  /\ overdue' = overdue \cup {d}
  /\ UNCHANGED <<acquire, spawn, release, lease, reason>>
=============================================================================
