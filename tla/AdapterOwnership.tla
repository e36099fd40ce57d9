-------------------------- MODULE AdapterOwnership --------------------------
(***************************************************************************)
(* OpenClawAdapter: what one adapter remembers about leases and sessions,  *)
(* and which calls it lets through because of it.  The Gateway answers an  *)
(* acquire or a spawn with any identity; answers that do not echo the      *)
(* request are refused and change nothing.  The attestation is asked for   *)
(* before each call and again after it: when it lapsed in between the call *)
(* was made, but its answer is not used.  Calls are synchronous, so one    *)
(* action is one call with its answer.                                     *)
(***************************************************************************)
CONSTANTS
  Identities,   \* client id and idempotency key of a request
  Owners,       \* run, phase, transition and agent
  LeaseIds,
  SessionKeys,
  Missing       \* no entry in a cache

Requests == [id : Identities, owner : Owners]

ASSUME AdapterAssumption ==
  Missing \notin Requests \cup LeaseIds \cup SessionKeys

VARIABLES
  attested,     \* the attestation is "current" or "lapsed", or was "removed"
  leaseOwner,   \* _lease_metadata_by_external_id
  leaseOf,      \* _lease_identity_by_request
  asked,        \* _lease_acquire_request_by_request_identity
  quarantined,  \* _quarantined_lease_ids
  sessionOwner, \* _session_metadata_by_key
  sessionOf,    \* _session_identity_by_request
  spawning,     \* _session_spawn_request_by_request_identity
  claims,       \* for whom the Gateway named each lease since its last release
  accepted      \* <<session, request>> of every spawn that returned

leaseCaches == <<leaseOwner, leaseOf, asked>>
sessionCaches == <<sessionOwner, sessionOf, spawning>>
adapterVars == <<attested, leaseCaches, quarantined, sessionCaches, claims, accepted>>

SpawnCall == [request : Requests, lease : LeaseIds]

AdapterTypeOK ==
  /\ attested \in {"current", "lapsed", "removed"}
  /\ leaseOwner \in [LeaseIds -> Requests \cup {Missing}]
  /\ leaseOf \in [Identities -> LeaseIds \cup {Missing}]
  /\ asked \in [Identities -> Requests \cup {Missing}]
  /\ quarantined \subseteq LeaseIds
  /\ sessionOwner \in [SessionKeys -> Requests \cup {Missing}]
  /\ sessionOf \in [Identities -> SessionKeys \cup {Missing}]
  /\ spawning \in [Identities -> SpawnCall \cup {Missing}]
  /\ claims \in [LeaseIds -> SUBSET Requests]
  /\ accepted \subseteq SessionKeys \X Requests

\* from_attested_transport
AdapterInit ==
  /\ attested = "current"
  /\ leaseOwner = [l \in LeaseIds |-> Missing]
  /\ leaseOf = [i \in Identities |-> Missing]
  /\ asked = [i \in Identities |-> Missing]
  /\ quarantined = {}
  /\ sessionOwner = [s \in SessionKeys |-> Missing]
  /\ sessionOf = [i \in Identities |-> Missing]
  /\ spawning = [i \in Identities |-> Missing]
  /\ claims = [l \in LeaseIds |-> {}]
  /\ accepted = {}

Current == attested = "current"

\* An accepted answer, or one that lapsed with the attestation of its call.
CallEnds(answer) ==
  \/ attested' = "current" /\ answer
  \/ /\ attested' = "lapsed"
     /\ UNCHANGED <<leaseCaches, quarantined, sessionCaches, claims, accepted>>

-----------------------------------------------------------------------------
(* Leases *)

\* Mutant: the conflict ends the cached ownership only.
Forget(l) ==
  /\ leaseOwner' = [leaseOwner EXCEPT ![l] = Missing]
  /\ UNCHANGED <<leaseOf, asked, quarantined>>

\* _quarantine_lease_identity
Quarantine(l) ==
  /\ quarantined' = quarantined \cup {l}
  /\ leaseOwner' = [leaseOwner EXCEPT ![l] = Missing]
  /\ UNCHANGED <<leaseOf, asked>>

\* The cached owner of the lease is somebody else.
Conflicts(l, r) == leaseOwner[l] \notin {r, Missing}

Claim(l, r) == claims' = [claims EXCEPT ![l] = @ \cup {r}]

AcquireAnswer(r, l) ==
  /\ Claim(l, r)
  /\ UNCHANGED <<sessionCaches, accepted>>
  /\ IF leaseOf[r.id] \notin {l, Missing} \/ Conflicts(l, r) THEN Quarantine(l)
     ELSE IF l \in quarantined THEN UNCHANGED <<leaseCaches, quarantined>>
     ELSE /\ leaseOf' = [leaseOf EXCEPT ![r.id] = l]
          /\ asked' = [asked EXCEPT ![r.id] = r]
          /\ leaseOwner' = [leaseOwner EXCEPT ![l] = r]
          /\ UNCHANGED quarantined

\* allow_lease_acquire
Acquire(r, l) ==
  /\ Current
  /\ asked[r.id] \in {r, Missing}
  /\ CallEnds(AcquireAnswer(r, l))

\* adopt_verified_lease_ownership: what a status list said of the lease
Adopt(r, l) ==
  /\ Current
  /\ Claim(l, r)
  /\ IF Conflicts(l, r) THEN Quarantine(l)
     ELSE /\ leaseOwner' = IF l \in quarantined THEN leaseOwner
                           ELSE [leaseOwner EXCEPT ![l] = r]
          /\ UNCHANGED <<leaseOf, asked, quarantined>>
  /\ UNCHANGED <<attested, sessionCaches, accepted>>

\* allow_lease_release up to the call
MayRelease(r, l) ==
  /\ Current
  /\ l \notin quarantined
  /\ leaseOwner[l] # Missing /\ leaseOwner[l] = r

Release(r, l) ==
  /\ MayRelease(r, l)
  /\ CallEnds(/\ leaseOwner' = [leaseOwner EXCEPT ![l] = Missing]
              /\ claims' = [claims EXCEPT ![l] = {}]
              /\ UNCHANGED <<leaseOf, asked, quarantined, sessionCaches, accepted>>)

-----------------------------------------------------------------------------
(* Sessions *)

\* sessions_spawn up to the call
MaySpawn(r, l) ==
  /\ Current
  /\ spawning[r.id] \in {Missing, [request |-> r, lease |-> l]}
  /\ l \notin quarantined
  /\ leaseOwner[l] # Missing /\ leaseOwner[l].owner = r.owner

\* Mutant: a session is not looked up by its key.
SessionOfRequest(r, s) == sessionOf[r.id] \in {s, Missing}

SessionIsOwn(r, s) ==
  /\ sessionOf[r.id] \in {s, Missing}
  /\ sessionOwner[s] \in {r, Missing}

\* The request is remembered before the call, the session after it.
Spawn(r, l, s) ==
  /\ MaySpawn(r, l)
  /\ spawning' = [spawning EXCEPT ![r.id] = [request |-> r, lease |-> l]]
  /\ attested' \in {"current", "lapsed"}
  /\ IF attested' = "current" /\ SessionIsOwn(r, s)
     THEN /\ sessionOf' = [sessionOf EXCEPT ![r.id] = s]
          /\ sessionOwner' = [sessionOwner EXCEPT ![s] = r]
          /\ accepted' = accepted \cup {<<s, r>>}
     ELSE UNCHANGED <<sessionOf, sessionOwner, accepted>>
  /\ UNCHANGED <<leaseCaches, quarantined, claims>>

-----------------------------------------------------------------------------
(* Attestation *)

\* The clocks or the transport say something else.
Drift ==
  /\ attested # "removed"
  /\ attested' \in {"current", "lapsed"}
  /\ UNCHANGED <<leaseCaches, quarantined, sessionCaches, claims, accepted>>

\* refresh_runtime_attestation with another identity: the caches are cleared
\* and the adapter never calls again.  With the same identity it is Drift.
Discontinue ==
  /\ attested # "removed"
  /\ attested' = "removed"
  /\ leaseOwner' = [l \in LeaseIds |-> Missing]
  /\ leaseOf' = [i \in Identities |-> Missing]
  /\ asked' = [i \in Identities |-> Missing]
  /\ sessionOwner' = [s \in SessionKeys |-> Missing]
  /\ sessionOf' = [i \in Identities |-> Missing]
  /\ spawning' = [i \in Identities |-> Missing]
  /\ UNCHANGED <<quarantined, claims, accepted>>

AdapterNext ==
  \/ \E r \in Requests, l \in LeaseIds :
       \/ Acquire(r, l) \/ Adopt(r, l) \/ Release(r, l)
       \/ \E s \in SessionKeys : Spawn(r, l, s)
  \/ Drift
  \/ Discontinue

AdapterSpec == AdapterInit /\ [][AdapterNext]_adapterVars

-----------------------------------------------------------------------------
(* Properties *)

\* A release or spawn call leaves the adapter only for a lease the Gateway has
\* named for one request since its last release, and for the owner of that
\* request: a lease id given out twice is never used again.
CallsUseOwnLease ==
  \A r \in Requests, l \in LeaseIds :
    /\ MayRelease(r, l) => claims[l] = {r}
    /\ MaySpawn(r, l) => \E own \in Requests : claims[l] = {own} /\ own.owner = r.owner

\* No two spawn requests are told that they run in the same session, and no
\* request is told two sessions, whatever the Gateway answers to retries.
SessionsAreDistinct ==
  \A a, b \in accepted : a[1] = b[1] \/ a[2].id = b[2].id => a = b
=============================================================================
