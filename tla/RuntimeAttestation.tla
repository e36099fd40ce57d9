------------------------- MODULE RuntimeAttestation -------------------------
(***************************************************************************)
(* runtime_attestation.py: how long one signed attestation of the runtime  *)
(* may be used.  It carries the Gateway's issue and expiry times; the      *)
(* attestor accepts it against the wall clock and starts a monotonic       *)
(* deadline, and every application call asks again whether it is current.  *)
(* Signature, challenge, process and schema checks only refuse             *)
(* attestations, and so does an identity that is not approved.             *)
(***************************************************************************)
EXTENDS Integers

CONSTANTS
  Targets,          \* runtime identities: binding and method bindings
  Approved,         \* the identity the attestor was told to approve
  MaxLifetime,      \* max_lifetime_ms
  MaxSkew,          \* max_clock_skew_ms
  LastTick,         \* bound on both clocks
  NoAttestation

ASSUME AttestationAssumption ==
  /\ Approved \in Targets
  /\ MaxLifetime \in Nat \ {0}
  /\ MaxSkew \in Nat
  /\ LastTick \in Nat
  /\ NoAttestation \notin [issued : Int, expires : Int, accepted : Int,
                           acceptedMono : Int, deadline : Int]

Ticks == 0 .. LastTick

VARIABLES
  wall,         \* clock_ms(), which operators and time services set
  mono,         \* monotonic_ms(), which only passes
  target,       \* the runtime the transport reaches: runtime_identity_snapshot()
  held          \* the VerifiedRuntimeAttestation in use

attestationVars == <<wall, mono, target, held>>

Attestation == [issued : Int, expires : Int, accepted : Int,
                acceptedMono : Int, deadline : Int]

AttestationTypeOK ==
  /\ wall \in Ticks /\ mono \in Ticks
  /\ target \in Targets
  /\ held \in Attestation \cup {NoAttestation}

AttestationInit ==
  /\ wall = 0 /\ mono = 0
  /\ target = Approved
  /\ held = NoAttestation

\* monotonic_deadline_ms, where max(0, .) never matters: now < expires
DeadlineOf(expires, now) == mono + (expires - now)

\* TransportBoundRuntimeAttestor.attest
MayAccept(issued, expires) ==
  /\ target = Approved
  /\ issued <= wall + MaxSkew
  /\ wall >= issued - MaxSkew /\ wall < expires
  /\ expires > issued /\ expires - issued <= MaxLifetime

Attest(issued, expires) ==
  /\ MayAccept(issued, expires)
  /\ held' = [issued |-> issued, expires |-> expires, accepted |-> wall,
              acceptedMono |-> mono, deadline |-> DeadlineOf(expires, wall)]
  /\ UNCHANGED <<wall, mono, target>>

\* Mutant: the wall clock alone decides.
CurrentByWallClock ==
  /\ held # NoAttestation
  /\ wall >= held.accepted - MaxSkew
  /\ wall >= held.issued - MaxSkew
  /\ wall < held.expires
  /\ target = Approved

\* assert_attestation_current; the accepted identity is the approved one.
AttestationCurrent ==
  /\ held # NoAttestation
  /\ wall >= held.accepted - MaxSkew
  /\ wall >= held.issued - MaxSkew
  /\ wall < held.expires
  /\ mono < held.deadline
  /\ target = Approved

\* Time passes or the wall clock is set.
Tick ==
  /\ mono' \in {mono, mono + 1} \cap Ticks
  /\ wall' \in Ticks
  /\ UNCHANGED <<target, held>>

\* The Gateway is restarted, upgraded or replaced.
Retarget ==
  /\ target' \in Targets
  /\ UNCHANGED <<wall, mono, held>>

AttestationNext ==
  \/ \E issued, expires \in Ticks : Attest(issued, expires)
  \/ Tick
  \/ Retarget

AttestationSpec == AttestationInit /\ [][AttestationNext]_attestationVars

-----------------------------------------------------------------------------
(* Properties *)

\* No attestation is used longer than its lifetime and the tolerated skew
\* after it was accepted, however often the wall clock is set back.
UseIsBounded ==
  AttestationCurrent => mono - held.acceptedMono < MaxLifetime + MaxSkew
=============================================================================
