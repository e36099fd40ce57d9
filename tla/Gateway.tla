------------------------------- MODULE Gateway -------------------------------
(***************************************************************************)
(* The OpenClaw Gateway as runtime_dispatch.py and reconciliation.py use   *)
(* it.  It is external to the repository: a call leaves a request on the   *)
(* wire, the Gateway applies it at any later moment or never, and the      *)
(* caller may stop waiting before or after that moment.  Idempotency keys  *)
(* make every request take effect at most once.                            *)
(***************************************************************************)
EXTENDS DispatchStore

VARIABLES
  wire,         \* <<rpc, request>> pairs sent and not (yet) applied
  gwLease,      \* the Gateway's own lease for each request
  gwSessions    \* requests whose session the Gateway has started

gwVars == <<wire, gwLease, gwSessions>>

Rpc == {"allow_lease_acquire", "sessions_spawn", "allow_lease_release"}

GatewayTypeOK ==
  /\ wire \subseteq Rpc \X Requests
  /\ gwLease \in [Requests -> {"none", "live", "gone"}]
  /\ gwSessions \subseteq Requests

GatewayInit ==
  /\ wire = {}
  /\ gwLease = [d \in Requests |-> "none"]
  /\ gwSessions = {}

Send(rpc, d) ==
  /\ wire' = wire \cup {<<rpc, d>>}
  /\ UNCHANGED <<gwLease, gwSessions>>

Delivered(rpc, d) == <<rpc, d>> \notin wire

\* A sessions_spawn call for d has left the adapter at some time.
Issued(d) == <<"sessions_spawn", d>> \in wire \/ d \in gwSessions

ApplyAcquire(d) ==
  /\ <<"allow_lease_acquire", d>> \in wire
  /\ wire' = wire \ {<<"allow_lease_acquire", d>>}
  /\ gwLease' = [gwLease EXCEPT ![d] = "live"]
  /\ UNCHANGED gwSessions

ApplySpawn(d) ==
  /\ <<"sessions_spawn", d>> \in wire
  /\ wire' = wire \ {<<"sessions_spawn", d>>}
  /\ gwSessions' = gwSessions \cup {d}
  /\ UNCHANGED gwLease

ApplyRelease(d) ==
  /\ <<"allow_lease_release", d>> \in wire
  /\ wire' = wire \ {<<"allow_lease_release", d>>}
  /\ gwLease' = [gwLease EXCEPT ![d] = "gone"]
  /\ UNCHANGED gwSessions

\* The Gateway's own clock ends the lease.
GatewayExpires(d) ==
  /\ gwLease[d] = "live"
  /\ gwLease' = [gwLease EXCEPT ![d] = "gone"]
  /\ UNCHANGED <<wire, gwSessions>>

GatewayStep(d) ==
  ApplyAcquire(d) \/ ApplySpawn(d) \/ ApplyRelease(d) \/ GatewayExpires(d)
=============================================================================
