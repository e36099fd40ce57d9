------------------------------ MODULE LiveProbe ------------------------------
(***************************************************************************)
(* run_probe of openclaw-live-accepted-session-probe.py: one acquire and   *)
(* its duplicate, one spawn and its duplicate, the reads, and the cleanup  *)
(* that runs whatever happened before.  Answers of the Gateway may be      *)
(* lost, may lack the metadata that proves whose they are, and may name    *)
(* more leases than the proven one; metadata that does prove is true.      *)
(* A lost acquire may still take effect later.  A lease ends at its        *)
(* release or when its time is over.                                       *)
(***************************************************************************)
CONSTANTS
  ProbeLeases,     \* leases that carry the owner metadata of the probe id
  ProbeSessions,
  NoAnswer         \* no lease, no session

ASSUME LiveAssumption == NoAnswer \notin ProbeLeases \cup ProbeSessions

VARIABLES
  leaseAt,      \* at the Gateway; an earlier run may have left leases there
  lateAcquire,  \* an acquire whose answer is lost may still take effect
  granted,      \* leases that the Gateway gave to acquires of this run
  named,        \* leases that the answers to them named
  spawned,      \* sessions that the Gateway gave to spawns of this run
  probeAt,      \* the next call
  own,          \* gateway_lease_id
  toRelease,    \* lease_ids_to_release
  unresolved,   \* unresolved_allow_lease_candidates
  session,      \* the accepted session identity
  failed,       \* the evidence has status fail_closed
  tried,        \* leases whose release was called
  unreleased,   \* a release was not confirmed
  report        \* status and released of the evidence

gatewayLeases == <<leaseAt, lateAcquire, granted, named>>
liveVars == <<gatewayLeases, spawned, probeAt, own, toRelease, unresolved, session,
              failed, tried, unreleased, report>>

Calls == {"start", "acquire", "duplicate", "status", "spawn", "respawn", "sessions_list",
          "session_status", "sessions_history", "cleanup", "reported"}

LiveTypeOK ==
  /\ leaseAt \in [ProbeLeases -> {"unused", "held", "gone"}]
  /\ lateAcquire \in BOOLEAN
  /\ granted \subseteq ProbeLeases /\ named \subseteq ProbeLeases
  /\ spawned \subseteq ProbeSessions
  /\ probeAt \in Calls
  /\ own \in ProbeLeases \cup {NoAnswer}
  /\ toRelease \subseteq ProbeLeases /\ unresolved \subseteq ProbeLeases
  /\ session \in ProbeSessions \cup {NoAnswer}
  /\ failed \in BOOLEAN
  /\ tried \subseteq toRelease
  /\ unreleased \in BOOLEAN
  /\ report \in [status : {"none", "pass", "fail_closed"},
                 released : {"none", "true", "false", "not_required"}]

LiveInit ==
  /\ leaseAt \in [ProbeLeases -> {"unused", "held"}]
  /\ lateAcquire = FALSE
  /\ granted = {} /\ named = {} /\ spawned = {}
  /\ probeAt = "start"
  /\ own = NoAnswer /\ session = NoAnswer
  /\ toRelease = {} /\ unresolved = {} /\ tried = {}
  /\ failed = FALSE /\ unreleased = FALSE
  /\ report = [status |-> "none", released |-> "none"]

HeldLeases == {l \in ProbeLeases : leaseAt[l] = "held"}

\* What the preflight found and what is installed when the probe looks.
Installs == [target : {"isolated_candidate", "active"},
             executable : {1, 2}, sources : {1, 2}]

\* _validated_openclaw_executable: the install root, the executable and every
\* source on the PATH are those of a catalog of the isolated candidate.
IsPreflighted(catalog, found) ==
  /\ catalog.target = "isolated_candidate"
  /\ found = catalog

ToCall(call) == probeAt' = call /\ UNCHANGED failed

\* The except clause; the finally clause is the cleanup.
FailClosed == probeAt' = "cleanup" /\ failed' = TRUE

-----------------------------------------------------------------------------
(* The Gateway *)

\* A new lease or one that is held, with the proof or without, and aliases.
GatewayGrant(l, proven, aliases) ==
  /\ leaseAt[l] # "gone"
  /\ leaseAt' = [leaseAt EXCEPT ![l] = "held"]
  /\ proven \in {l, NoAnswer}
  /\ aliases \subseteq (HeldLeases \cup {l}) \ {proven}
  /\ granted' = granted \cup {l}
  /\ named' = named \cup aliases \cup ({proven} \ {NoAnswer})
  /\ UNCHANGED lateAcquire

LoseAcquire ==
  /\ lateAcquire' = TRUE
  /\ UNCHANGED <<leaseAt, granted, named>>

\* The lost acquire takes effect.
ApplyLate(l) ==
  /\ lateAcquire
  /\ leaseAt[l] # "gone"
  /\ leaseAt' = [leaseAt EXCEPT ![l] = "held"]
  /\ granted' = granted \cup {l}
  /\ lateAcquire' = FALSE
  /\ UNCHANGED <<named, spawned, probeAt, own, toRelease, unresolved, session, failed,
                 tried, unreleased, report>>

\* The time of a lease is over.
Expire(l) ==
  /\ leaseAt[l] = "held"
  /\ leaseAt' = [leaseAt EXCEPT ![l] = "gone"]
  /\ UNCHANGED <<lateAcquire, granted, named, spawned, probeAt, own, toRelease, unresolved,
                 session, failed, tried, unreleased, report>>

-----------------------------------------------------------------------------
(* The calls of the probe *)

\* Authority, preflight, executable and authorization come before any call.
BeginProbe ==
  /\ probeAt = "start"
  /\ \E catalog, found \in Installs, authorized \in BOOLEAN :
       IF authorized /\ IsPreflighted(catalog, found)
       THEN probeAt' = "acquire" /\ UNCHANGED report
       ELSE /\ probeAt' = "reported"
            /\ report' = [status |-> "fail_closed", released |-> "not_required"]
  /\ UNCHANGED <<gatewayLeases, spawned, own, toRelease, unresolved, session, failed,
                 tried, unreleased>>

\* The names in an answer without proof are not kept.
AcquireOnce ==
  /\ probeAt = "acquire"
  /\ \/ /\ LoseAcquire /\ FailClosed
        /\ UNCHANGED <<own, toRelease, unresolved>>
     \/ \E l \in ProbeLeases, aliases \in SUBSET ProbeLeases :
          \/ /\ GatewayGrant(l, NoAnswer, aliases) /\ FailClosed
             /\ UNCHANGED <<own, toRelease, unresolved>>
          \/ /\ GatewayGrant(l, l, aliases)
             /\ own' = l
             /\ toRelease' = {l}
             /\ unresolved' = aliases
             /\ IF aliases = {} THEN ToCall("duplicate") ELSE FailClosed
  /\ UNCHANGED <<spawned, session, tried, unreleased, report>>

\* Mutant: the duplicate is not compared with the first answer.
DuplicateUncompared ==
  /\ probeAt = "duplicate"
  /\ \E l \in ProbeLeases, aliases \in SUBSET ProbeLeases :
       /\ GatewayGrant(l, l, aliases)
       /\ toRelease' = toRelease \cup {l}
       /\ unresolved' = unresolved \cup aliases
       /\ IF aliases = {} THEN ToCall("status") ELSE FailClosed
  /\ UNCHANGED <<spawned, own, session, tried, unreleased, report>>

\* The same request again must name the same lease.
DuplicateAcquire ==
  /\ probeAt = "duplicate"
  /\ \/ /\ LoseAcquire /\ FailClosed
        /\ UNCHANGED <<toRelease, unresolved>>
     \/ \E l \in ProbeLeases, aliases \in SUBSET ProbeLeases :
          \/ /\ GatewayGrant(l, NoAnswer, aliases) /\ FailClosed
             /\ unresolved' = unresolved \cup aliases
             /\ UNCHANGED toRelease
          \/ /\ GatewayGrant(l, l, aliases)
             /\ toRelease' = toRelease \cup {l}
             /\ unresolved' = unresolved \cup aliases
             /\ IF aliases = {} /\ l = own THEN ToCall("status") ELSE FailClosed
  /\ UNCHANGED <<spawned, own, session, tried, unreleased, report>>

\* Leases of the same owner are collected up to the item that raises.
LeaseStatus ==
  /\ probeAt = "status"
  /\ \E extra \in SUBSET (HeldLeases \ {own}), observed \in BOOLEAN :
       /\ observed => own \in HeldLeases
       /\ toRelease' = toRelease \cup extra
       /\ IF observed /\ extra = {} THEN ToCall("spawn") ELSE FailClosed
  /\ UNCHANGED <<gatewayLeases, spawned, own, unresolved, session, tried,
                 unreleased, report>>

\* A lost answer may be that of a session that was spawned.
SpawnOnce ==
  /\ probeAt = "spawn"
  /\ \/ FailClosed /\ UNCHANGED <<spawned, session>>
     \/ \E s \in ProbeSessions :
          /\ spawned' = spawned \cup {s}
          /\ \/ FailClosed /\ UNCHANGED session
             \/ session' = s /\ ToCall("respawn")
  /\ UNCHANGED <<gatewayLeases, own, toRelease, unresolved, tried, unreleased, report>>

DuplicateSpawn ==
  /\ probeAt = "respawn"
  /\ \/ FailClosed /\ UNCHANGED spawned
     \/ \E s \in ProbeSessions, proven \in BOOLEAN :
          /\ spawned' = spawned \cup {s}
          /\ IF proven /\ s = session THEN ToCall("sessions_list") ELSE FailClosed
  /\ UNCHANGED <<gatewayLeases, own, toRelease, unresolved, session, tried,
                 unreleased, report>>

NextRead == [sessions_list |-> "session_status", session_status |-> "sessions_history",
             sessions_history |-> "cleanup"]

\* _validate_session_api_observes_session: the sessions that the answer names
\* of itself and in its items, and those whose items carry the metadata
Observes(top, items, proven) ==
  /\ top \subseteq {session}
  /\ session \in proven
  /\ probeAt = "sessions_history" => items \subseteq {session}

ReadSession ==
  /\ probeAt \in DOMAIN NextRead
  /\ \E top, items \in SUBSET ProbeSessions : \E proven \in SUBSET items :
       IF Observes(top, items, proven) THEN ToCall(NextRead[probeAt]) ELSE FailClosed
  /\ UNCHANGED <<gatewayLeases, spawned, own, toRelease, unresolved, session, tried,
                 unreleased, report>>

-----------------------------------------------------------------------------
(* The cleanup *)

\* Mutant: leases that nothing proves to be this run's are released as well.
LeftWithCandidates == (toRelease \cup unresolved) \ tried

LeftToRelease == toRelease \ tried

\* A confirmed release is one; any other answer may have released it or not.
ReleaseLease(l) ==
  /\ probeAt = "cleanup"
  /\ l \in LeftToRelease
  /\ tried' = tried \cup {l}
  /\ \/ leaseAt' = [leaseAt EXCEPT ![l] = "gone"] /\ UNCHANGED unreleased
     \/ /\ unreleased' = TRUE
        /\ leaseAt' \in {leaseAt, [leaseAt EXCEPT ![l] = "gone"]}
  /\ UNCHANGED <<lateAcquire, granted, named, spawned, probeAt, own, toRelease, unresolved,
                 session, failed, report>>

\* Without a lease to release the first acquire has an unknown outcome.
Report ==
  /\ probeAt = "cleanup"
  /\ LeftToRelease = {}
  /\ probeAt' = "reported"
  /\ report' = [status |-> IF failed \/ unreleased THEN "fail_closed" ELSE "pass",
                released |-> IF toRelease = {} \/ unreleased THEN "false" ELSE "true"]
  /\ UNCHANGED <<gatewayLeases, spawned, own, toRelease, unresolved, session, failed, tried,
                 unreleased>>

LiveNext ==
  \/ \E l \in ProbeLeases : ApplyLate(l) \/ Expire(l) \/ ReleaseLease(l)
  \/ BeginProbe \/ AcquireOnce \/ DuplicateAcquire \/ LeaseStatus \/ SpawnOnce
  \/ DuplicateSpawn \/ ReadSession \/ Report

LiveSpec == LiveInit /\ [][LiveNext]_liveVars

-----------------------------------------------------------------------------
(* Properties *)

\* A pass means one lease and one session, and the lease is gone; a lease
\* that an answer to an acquire named is gone, listed as unresolved, or the
\* report says that not all is released; without an acquire nothing is held.
LiveReportIsTrue ==
  probeAt = "reported" =>
    /\ report.status = "pass" =>
         granted = {own} /\ leaseAt[own] = "gone" /\ spawned = {session}
    /\ \A l \in named :
         leaseAt[l] = "gone" \/ l \in unresolved \/ report.released = "false"
    /\ report.released = "not_required" => granted = {} /\ spawned = {}
=============================================================================
