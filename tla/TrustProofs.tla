---------------------------- MODULE TrustProofs -----------------------------
(***************************************************************************)
(* Proofs about what is decided from evidence, for any workflows, bundles, *)
(* processes, scripts, owners and lifetimes: the promotion of a workflow's *)
(* trust; the migrations, which take effect once and in order; the runtime *)
(* attestation, how long one is used; and the adapter that asks for one    *)
(* around every call, which lease and session that call is about.          *)
(***************************************************************************)
EXTENDS TrustChain, MigrationRuns, RuntimeAttestation, AdapterOwnership,
        FiniteSetTheorems, TLAPS

-----------------------------------------------------------------------------
(* Trust promotion *)

\* Every approval names the one row that refers to it.
GateApprovalIsConsumed == gate # NoRow => approval[gate.approval] = "gate"

GoalApprovalIsConsumed ==
  \A g \in GoalRuns : goal[g] \in Approvals => approval[goal[g]] = g

TrustInv ==
  /\ TrustTypeOK
  /\ TrustIsCurrent
  /\ GateApprovalIsConsumed
  /\ GoalApprovalIsConsumed

LEMMA TrustInitInv == TrustInit => TrustInv
  BY TrustAssumption
  DEF TrustInit, TrustInv, TrustTypeOK, TrustIsCurrent, GateApprovalIsConsumed,
      GoalApprovalIsConsumed, Times

-----------------------------------------------------------------------------
(* Trust promotion: types *)

LEMMA GateTypes ==
  ASSUME TrustTypeOK, NEW a \in Approvals
  PROVE  /\ Grant(a) => TrustTypeOK'
         /\ \A now \in Times : Pass(a, now) => TrustTypeOK'
<1>1. Grant(a) => TrustTypeOK'
  BY DEF Grant, TrustTypeOK
<1>2. ASSUME NEW now \in Times, Pass(a, now)
      PROVE  TrustTypeOK'
  <2>1. gate' \in Gates
    BY <1>2 DEF Pass, Gates
  <2>2. approval' \in [Approvals -> {"unused", "open", "gate"} \cup GoalRuns]
    BY <1>2 DEF Pass, TrustTypeOK
  <2> QED BY <1>2, <2>1, <2>2 DEF Pass, TrustTypeOK
<1> QED BY <1>1, <1>2

LEMMA GoalTypes ==
  ASSUME TrustTypeOK, NEW g \in GoalRuns, NEW a \in Approvals \cup {"unapproved"},
         GoalRun(g, a)
  PROVE  TrustTypeOK'
<1>1. approval' \in [Approvals -> {"unused", "open", "gate"} \cup GoalRuns]
  BY DEF GoalRun, TrustTypeOK
<1>2. DOMAIN goal' = GoalRuns
      /\ \A h \in GoalRuns : goal'[h] \in Approvals \cup {"unapproved", NoRow}
  BY DEF GoalRun, TrustTypeOK
<1> QED BY <1>1, <1>2 DEF GoalRun, TrustTypeOK

LEMMA AuditTypes ==
  ASSUME TrustTypeOK, NEW now \in Times
  PROVE  /\ \A i \in AuditIds, q \in Queries, passed \in BOOLEAN :
              Audit(i, q, passed, now) => TrustTypeOK'
         /\ \A f \in AuditedWorkflows : Input(f, now) => TrustTypeOK'
<1>1. ASSUME NEW i \in AuditIds, NEW q \in Queries, NEW passed \in BOOLEAN,
             Audit(i, q, passed, now)
      PROVE  TrustTypeOK'
  <2>1. [query |-> q, passed |-> passed, at |-> now, stale |-> {}] \in Audits
    BY DEF Audits
  <2>2. DOMAIN audits' = AuditIds
        /\ \A j \in AuditIds : audits'[j] # NoRow => audits'[j] \in Audits
    BY <1>1, <2>1 DEF Audit, TrustTypeOK
  <2> QED BY <1>1, <2>2 DEF Audit, TrustTypeOK
<1>2. ASSUME NEW f \in AuditedWorkflows, Input(f, now)
      PROVE  TrustTypeOK'
  <2>1. ASSUME NEW r \in Audits
        PROVE  [r EXCEPT !.stale = @ \cup {f}] \in Audits
    BY DEF Audits
  <2>2. DOMAIN audits' = AuditIds
        /\ \A j \in AuditIds : audits'[j] # NoRow => audits'[j] \in Audits
    BY <1>2, <2>1 DEF Input, TrustTypeOK
  <2>3. lastInput' \in Times
    BY <1>2 DEF Input, TrustTypeOK
  <2> QED BY <1>2, <2>2, <2>3 DEF Input, TrustTypeOK
<1> QED BY <1>1, <1>2

-----------------------------------------------------------------------------
(* Trust promotion: what stands behind an observation *)

\* While trust is active no audit is added and no row of Home is written.
LEMMA InputKeepsTrust ==
  ASSUME TrustTypeOK, TrustIsCurrent, NEW f \in AuditedWorkflows, NEW now \in Times,
         Input(f, now)
  PROVE  TrustIsCurrent'
<1> SUFFICES ASSUME trusted # {}, NEW q \in Queries
             PROVE  \E i \in AuditsOf(q)' : audits'[i].passed /\ Home \notin audits'[i].stale
  BY DEF Input, TrustIsCurrent
<1>1. f # Home
  BY DEF Input
<1>2. PICK i \in AuditsOf(q) : audits[i].passed /\ Home \notin audits[i].stale
  BY DEF TrustIsCurrent
<1>3. i \in AuditIds /\ audits[i] # NoRow /\ audits[i].query = q /\ audits[i] \in Audits
  BY <1>2 DEF AuditsOf, TrustTypeOK
<1>4. audits'[i] = [audits[i] EXCEPT !.stale = @ \cup {f}]
  BY <1>3 DEF Input
<1>5. /\ audits'[i].query = q /\ audits'[i].passed = audits[i].passed
      /\ audits'[i].stale = audits[i].stale \cup {f}
  BY <1>3, <1>4 DEF Audits
<1>6. audits'[i] # NoRow
  <2>1. audits'[i] \in Audits
    BY <1>3, <1>4 DEF Audits
  <2> QED BY <2>1, NoRowAssumption
<1> QED BY <1>1, <1>2, <1>3, <1>5, <1>6 DEF AuditsOf

LEMMA PromotionHasAudits ==
  ASSUME NEW g \in GoalRuns, Promote(g)
  PROVE  TrustIsCurrent'
<1>1. ASSUME NEW q \in Queries, NEW i \in AuditIds, IsLatest(i, q), IsCurrent(i)
      PROVE  /\ i \in AuditsOf(q)
             /\ audits[i].passed
             /\ Home \notin audits[i].stale
  BY <1>1 DEF IsLatest, IsCurrent
<1>2. \A q \in Queries : \E i \in AuditIds : IsLatest(i, q) /\ IsCurrent(i)
  BY DEF Promote, CompletelyBound
<1>3. \A q \in Queries : \E i \in AuditsOf(q) :
        audits[i].passed /\ Home \notin audits[i].stale
  BY <1>1, <1>2
<1> QED BY <1>3 DEF Promote, TrustIsCurrent, AuditsOf

LEMMA TrustStep ==
  ASSUME TrustInv, TrustNext
  PROVE  TrustTypeOK' /\ TrustIsCurrent'
<1> USE DEF TrustInv
<1>1. ASSUME NEW a \in Approvals, Grant(a) \/ \E now \in Times : Pass(a, now)
      PROVE  TrustTypeOK' /\ TrustIsCurrent'
  <2>1. UNCHANGED <<audits, trusted>>
    BY <1>1 DEF Grant, Pass
  <2>2. TrustTypeOK'
    BY <1>1, GateTypes
  <2> QED BY <2>1, <2>2 DEF TrustIsCurrent, AuditsOf
<1>2. ASSUME NEW g \in GoalRuns, Promote(g)
      PROVE  TrustTypeOK' /\ TrustIsCurrent'
  <2>1. TrustTypeOK'
    BY <1>2 DEF Promote, TrustTypeOK
  <2> QED BY <1>2, <2>1, PromotionHasAudits
<1>3. ASSUME NEW g \in GoalRuns, Invalidate(g)
      PROVE  TrustTypeOK' /\ TrustIsCurrent'
  <2>1. TrustTypeOK'
    BY <1>3 DEF Invalidate, TrustTypeOK
  <2>2. UNCHANGED audits /\ trusted # {}
    BY <1>3 DEF Invalidate
  <2> QED BY <2>1, <2>2 DEF TrustIsCurrent, AuditsOf
<1>4. ASSUME NEW g \in GoalRuns, NEW a \in Approvals \cup {"unapproved"}, GoalRun(g, a)
      PROVE  TrustTypeOK' /\ TrustIsCurrent'
  <2>1. UNCHANGED <<audits, trusted>>
    BY <1>4 DEF GoalRun
  <2> QED BY <1>4, <2>1, GoalTypes DEF TrustIsCurrent, AuditsOf
<1>5. ASSUME NEW now \in Times, NEW f \in AuditedWorkflows, Input(f, now)
      PROVE  TrustTypeOK' /\ TrustIsCurrent'
  BY <1>5, AuditTypes, InputKeepsTrust
<1>6. ASSUME NEW now \in Times, NEW i \in AuditIds, NEW q \in Queries,
             NEW passed \in BOOLEAN, Audit(i, q, passed, now)
      PROVE  TrustTypeOK' /\ TrustIsCurrent'
  <2>1. trusted' = {}
    BY <1>6 DEF Audit
  <2> QED BY <1>6, <2>1, AuditTypes DEF TrustIsCurrent
<1>7. CASE EditArtifact
  BY <1>7 DEF EditArtifact, TrustTypeOK, TrustIsCurrent, AuditsOf
<1> QED BY <1>1, <1>2, <1>3, <1>4, <1>5, <1>6, <1>7 DEF TrustNext

-----------------------------------------------------------------------------
(* Trust promotion: approvals *)

LEMMA ApprovalStep ==
  ASSUME TrustInv, TrustNext
  PROVE  GateApprovalIsConsumed' /\ GoalApprovalIsConsumed'
<1> USE TrustAssumption DEF TrustInv, TrustTypeOK
<1>1. ASSUME NEW a \in Approvals, Grant(a)
      PROVE  GateApprovalIsConsumed' /\ GoalApprovalIsConsumed'
  <2>1. GateApprovalIsConsumed'
    BY <1>1 DEF Grant, GateApprovalIsConsumed, Gates
  <2>2. GoalApprovalIsConsumed'
    BY <1>1 DEF Grant, GoalApprovalIsConsumed
  <2> QED BY <2>1, <2>2
<1>2. ASSUME NEW a \in Approvals, NEW now \in Times, Pass(a, now)
      PROVE  GateApprovalIsConsumed' /\ GoalApprovalIsConsumed'
  <2>1. GateApprovalIsConsumed'
    BY <1>2 DEF Pass, GateApprovalIsConsumed
  <2>2. GoalApprovalIsConsumed'
    BY <1>2 DEF Pass, MayPass, GoalApprovalIsConsumed
  <2> QED BY <2>1, <2>2
<1>3. ASSUME NEW g \in GoalRuns, NEW a \in Approvals \cup {"unapproved"}, GoalRun(g, a)
      PROVE  GateApprovalIsConsumed' /\ GoalApprovalIsConsumed'
  <2>1. CASE a = "unapproved"
    BY <1>3, <2>1 DEF GoalRun, GateApprovalIsConsumed, GoalApprovalIsConsumed
  <2>2. CASE a \in Approvals
    <3>1. /\ approval[a] \in {"open", g}
          /\ approval' = [approval EXCEPT ![a] = g]
          /\ goal' = [goal EXCEPT ![g] = a]
          /\ UNCHANGED gate
      BY <1>3, <2>2 DEF GoalRun, Consumes
    <3>2. GateApprovalIsConsumed'
      BY <3>1, <2>2 DEF GateApprovalIsConsumed, Gates
    <3>3. ASSUME NEW h \in GoalRuns, goal'[h] \in Approvals
          PROVE  approval'[goal'[h]] = h
      <4>1. CASE h = g
        BY <2>2, <3>1, <4>1
      <4>2. CASE h # g
        <5>1. goal[h] \in Approvals /\ goal'[h] = goal[h] /\ approval[goal[h]] = h
          BY <3>1, <3>3, <4>2 DEF GoalApprovalIsConsumed
        <5>2. goal[h] # a
          BY <3>1, <4>2, <5>1
        <5> QED BY <3>1, <5>1, <5>2
      <4> QED BY <4>1, <4>2
    <3> QED BY <3>2, <3>3 DEF GoalApprovalIsConsumed
  <2> QED BY <2>1, <2>2
<1>4. CASE UNCHANGED <<gate, approval, goal>>
  BY <1>4 DEF GateApprovalIsConsumed, GoalApprovalIsConsumed
<1>5. \/ \E a \in Approvals : Grant(a) \/ \E now \in Times : Pass(a, now)
      \/ \E g \in GoalRuns, a \in Approvals \cup {"unapproved"} : GoalRun(g, a)
      \/ UNCHANGED <<gate, approval, goal>>
  BY DEF TrustNext, Promote, Invalidate, Input, Audit, EditArtifact
<1> QED BY <1>1, <1>2, <1>3, <1>4, <1>5

LEMMA TrustInvStep == TrustInv /\ [TrustNext]_trustVars => TrustInv'
<1>1. ASSUME TrustInv, TrustNext
      PROVE  TrustInv'
  BY <1>1, TrustStep, ApprovalStep DEF TrustInv
<1>2. ASSUME TrustInv, UNCHANGED trustVars
      PROVE  TrustInv'
  BY <1>2 DEF trustVars, TrustInv, TrustTypeOK, TrustIsCurrent, AuditsOf,
              GateApprovalIsConsumed, GoalApprovalIsConsumed
<1> QED BY <1>1, <1>2

\* An approval that names its one user is referred to once.
LEMMA ConsumedOnce == TrustInv => ApprovalIsUsedOnce
<1> SUFFICES ASSUME TrustInv, NEW a \in Approvals
             PROVE  Cardinality({g \in GoalRuns : goal[g] = a})
                      + Cardinality({r \in {gate} \ {NoRow} : r.approval = a}) <= 1
  BY DEF ApprovalIsUsedOnce
<1> DEFINE Users == {g \in GoalRuns : goal[g] = a}
           PassedBy == {r \in {gate} \ {NoRow} : r.approval = a}
<1>1. \A g \in Users : g = approval[a]
  BY DEF TrustInv, GoalApprovalIsConsumed
<1>2. PassedBy # {} => approval[a] = "gate"
  BY DEF TrustInv, GateApprovalIsConsumed
<1>3. Users = {} \/ PassedBy = {}
  BY <1>1, <1>2, TrustAssumption
<1>4. Users = {} \/ Users = {approval[a]}
  BY <1>1
<1>5. PassedBy = {} \/ PassedBy = {gate}
  OBVIOUS
<1>6. Cardinality({}) = 0 /\ Cardinality({approval[a]}) = 1 /\ Cardinality({gate}) = 1
  BY FS_EmptySet, FS_Singleton
<1>7. /\ Cardinality(Users) \in {0, 1} /\ Cardinality(PassedBy) \in {0, 1}
      /\ Cardinality(Users) = 0 \/ Cardinality(PassedBy) = 0
  BY <1>3, <1>4, <1>5, <1>6
<1> QED BY <1>7

-----------------------------------------------------------------------------
(* Trust promotion: theorems *)

LEMMA TrustInvariant == TrustSpec => []TrustInv
  BY TrustInitInv, TrustInvStep, PTL DEF TrustSpec

\* While an observation of trust_promotion.py is active, every SLO query has
\* an audit that passed and no input of the workflow was written since, for
\* any number of queries, audits and goal runs and for any wall clock.
THEOREM TrustStaysCurrent == TrustSpec => []TrustIsCurrent
  BY TrustInvariant, PTL DEF TrustInv

\* _consume_goal_approval of goal_runs.py and record_approval_pass_gate of
\* pass_gates.py use every approval for one gate or one goal run, for any
\* number of approvals and goal runs.
THEOREM ApprovalsAreSingleUse == TrustSpec => []ApprovalIsUsedOnce
  BY TrustInvariant, ConsumedOnce, PTL

-----------------------------------------------------------------------------
(* Migrations *)

\* What a call takes to be recorded is recorded: nothing is ever removed.
SnapshotsAreRecorded == \A p \in Processes : snapshot[p] \subseteq recorded

MigrationInv == MigrationTypeOK /\ MigrationsRunOnce /\ SnapshotsAreRecorded

LEMMA MigrationInitInv == MigrationInit => MigrationInv
  BY DEF MigrationInit, MigrationInv, MigrationTypeOK, MigrationsRunOnce,
         SnapshotsAreRecorded, Stages

\* A migration that is recorded by its own transaction is the next one.
LEMMA AppliedIsNext ==
  ASSUME MigrationInv, NEW p \in Processes, NEW v \in Known(p), Apply(p, v)
  PROVE  v = Len(scripts) + 1
<1>1. v \in Nat /\ v >= 1 /\ Len(scripts) \in Nat /\ DOMAIN scripts = 1 .. Len(scripts)
  BY MigrationAssumption DEF Known, MigrationInv, MigrationTypeOK
<1>2. 1 .. v - 1 \subseteq 1 .. Len(scripts)
  BY <1>1 DEF Apply, NextVersion, MigrationInv, MigrationsRunOnce, SnapshotsAreRecorded
<1>3. v \notin 1 .. Len(scripts)
  BY <1>1 DEF Apply, MigrationInv, MigrationsRunOnce
<1>4. CASE v > 1
  <2>1. v - 1 \in 1 .. Len(scripts)
    BY <1>1, <1>2, <1>4
  <2> QED BY <1>1, <1>3, <2>1
<1>5. CASE v = 1
  BY <1>1, <1>3, <1>5
<1> QED BY <1>1, <1>4, <1>5

LEMMA ApplyKeepsOrder ==
  ASSUME MigrationInv, NEW p \in Processes, NEW v \in Known(p), Apply(p, v)
  PROVE  MigrationInv'
<1>1. v = Len(scripts) + 1
  BY AppliedIsNext
<1>2. /\ scripts \in Seq(Versions) /\ v \in Versions
      /\ scripts' = Append(scripts, v)
      /\ recorded' = recorded \cup {v}
      /\ snapshot' = [snapshot EXCEPT ![p] = @ \cup {v}]
      /\ UNCHANGED stage
  BY DEF Apply, MigrationInv, MigrationTypeOK, Versions, Known
<1>3. /\ Len(scripts) \in Nat
      /\ DOMAIN scripts = 1 .. Len(scripts)
      /\ DOMAIN scripts' = 1 .. Len(scripts) + 1
      /\ scripts' \in Seq(Versions)
      /\ \A k \in 1 .. Len(scripts) : scripts'[k] = scripts[k]
      /\ scripts'[Len(scripts) + 1] = v
  BY <1>2
<1>4. MigrationTypeOK'
  BY <1>2, <1>3 DEF MigrationInv, MigrationTypeOK
<1>5. MigrationsRunOnce'
  BY <1>1, <1>2, <1>3 DEF MigrationInv, MigrationsRunOnce
<1>6. SnapshotsAreRecorded'
  BY <1>2 DEF MigrationInv, MigrationTypeOK, SnapshotsAreRecorded
<1> QED BY <1>4, <1>5, <1>6 DEF MigrationInv

\* Every other step leaves the scripts and their rows alone.
LEMMA ReadsKeepOrder ==
  ASSUME MigrationInv, NEW p \in Processes,
         ReadRecorded(p) \/ CheckRecorded(p) \/ ReadAgain(p)
           \/ ReturnApplied(p) \/ RaiseMigration(p)
  PROVE  MigrationInv'
<1>1. UNCHANGED <<scripts, recorded>>
  BY DEF ReadRecorded, CheckRecorded, ReadAgain, ReturnApplied, RaiseMigration
<1>2. stage' \in [Processes -> Stages]
  BY DEF ReadRecorded, CheckRecorded, ReadAgain, ReturnApplied, RaiseMigration, EndCall,
         MigrationInv, MigrationTypeOK, Stages
<1>3. /\ snapshot' \in [Processes -> SUBSET Versions]
      /\ \A q \in Processes : snapshot'[q] \in {snapshot[q], recorded, {}}
  BY DEF ReadRecorded, CheckRecorded, ReadAgain, ReturnApplied, RaiseMigration, EndCall,
         MigrationInv, MigrationTypeOK
<1> QED BY <1>1, <1>2, <1>3
        DEF MigrationInv, MigrationTypeOK, MigrationsRunOnce, SnapshotsAreRecorded

LEMMA MigrationStep ==
  MigrationInv /\ [MigrationNext]_migrationVars => MigrationInv'
<1>1. ASSUME MigrationInv, MigrationNext
      PROVE  MigrationInv'
  BY <1>1, ApplyKeepsOrder, ReadsKeepOrder DEF MigrationNext
<1>2. ASSUME MigrationInv, UNCHANGED migrationVars
      PROVE  MigrationInv'
  BY <1>2 DEF migrationVars, MigrationInv, MigrationTypeOK, MigrationsRunOnce,
              SnapshotsAreRecorded
<1> QED BY <1>1, <1>2

\* apply_migrations of migrations.py runs every migration at most once and in
\* the order of the manifest, and records exactly those, for any number of
\* processes with manifests of any length that start, overlap and die.
THEOREM MigrationsRunInOrder == MigrationSpec => []MigrationsRunOnce
<1>1. MigrationSpec => []MigrationInv
  BY MigrationInitInv, MigrationStep, PTL DEF MigrationSpec
<1> QED BY <1>1, PTL DEF MigrationInv

-----------------------------------------------------------------------------
(* Runtime attestation *)

\* What the attestor checked of the attestation in use, and the deadline it
\* derived from it; none of it mentions the clocks any more.
DeadlineIsAccepted ==
  held # NoAttestation =>
    /\ held.issued <= held.accepted + MaxSkew
    /\ held.expires - held.issued <= MaxLifetime
    /\ held.deadline = held.acceptedMono + (held.expires - held.accepted)

AttestationInv == AttestationTypeOK /\ DeadlineIsAccepted

LEMMA AttestationInitInv == AttestationInit => AttestationInv
  BY AttestationAssumption
  DEF AttestationInit, AttestationInv, AttestationTypeOK, DeadlineIsAccepted, Ticks

LEMMA AttestationStep ==
  AttestationInv /\ [AttestationNext]_attestationVars => AttestationInv'
<1> SUFFICES ASSUME AttestationInv, [AttestationNext]_attestationVars
             PROVE  AttestationInv'
  OBVIOUS
<1> USE AttestationAssumption DEF AttestationInv, AttestationTypeOK, Ticks
<1>1. ASSUME NEW issued \in Ticks, NEW expires \in Ticks, Attest(issued, expires)
      PROVE  AttestationInv'
  <2>1. held' \in Attestation /\ held' # NoAttestation
    BY <1>1 DEF Attest, DeadlineOf, Attestation
  <2>2. DeadlineIsAccepted'
    BY <1>1, <2>1 DEF Attest, DeadlineOf, MayAccept, DeadlineIsAccepted
  <2> QED BY <1>1, <2>1, <2>2 DEF Attest
<1>2. CASE Tick
  BY <1>2 DEF Tick, DeadlineIsAccepted
<1>3. CASE Retarget
  BY <1>3 DEF Retarget, DeadlineIsAccepted
<1>4. CASE UNCHANGED attestationVars
  BY <1>4 DEF attestationVars, DeadlineIsAccepted
<1> QED BY <1>1, <1>2, <1>3, <1>4 DEF AttestationNext

LEMMA DeadlineBoundsUse == AttestationInv => UseIsBounded
<1> SUFFICES ASSUME AttestationInv, AttestationCurrent
             PROVE  mono - held.acceptedMono < MaxLifetime + MaxSkew
  BY DEF UseIsBounded
<1>1. held \in Attestation /\ mono \in Int
  BY AttestationAssumption DEF AttestationInv, AttestationTypeOK, AttestationCurrent, Ticks
<1>2. mono < held.deadline
  BY DEF AttestationCurrent
<1> QED BY <1>1, <1>2, AttestationAssumption
        DEF AttestationInv, DeadlineIsAccepted, AttestationCurrent, Attestation

\* No attestation is used longer than its lifetime and the tolerated skew,
\* whatever the wall clock is set to: assert_attestation_current of
\* runtime_attestation.py, for every lifetime and skew.
THEOREM AttestationUseIsBounded == AttestationSpec => []UseIsBounded
<1>1. AttestationSpec => []AttestationInv
  BY AttestationInitInv, AttestationStep, PTL DEF AttestationSpec
<1> QED BY <1>1, DeadlineBoundsUse, PTL
-----------------------------------------------------------------------------
(* Leases of the adapter *)

\* For whom the Gateway has named a lease that is not quarantined: for nobody,
\* or for the cached owner only.
ClaimsAreCached ==
  attested # "removed" =>
    \A l \in LeaseIds \ quarantined :
      claims[l] = IF leaseOwner[l] = Missing THEN {} ELSE {leaseOwner[l]}

OwnershipInv == AdapterTypeOK /\ ClaimsAreCached

LEMMA AdapterInitInv == AdapterInit => OwnershipInv
  BY AdapterAssumption DEF AdapterInit, OwnershipInv, AdapterTypeOK, ClaimsAreCached

\* A call whose attestation lapsed changes no cache.
LEMMA LapseKeepsInv ==
  ASSUME OwnershipInv, Current, attested' = "lapsed",
         UNCHANGED <<leaseCaches, quarantined, sessionCaches, claims, accepted>>
  PROVE  OwnershipInv'
  BY DEF OwnershipInv, AdapterTypeOK, ClaimsAreCached, Current, leaseCaches, sessionCaches

LEMMA AcquireKeepsInv ==
  ASSUME OwnershipInv, NEW r \in Requests, NEW l \in LeaseIds,
         Current, attested' = "current", AcquireAnswer(r, l)
  PROVE  OwnershipInv'
<1> USE DEF OwnershipInv
<1>1. /\ r.id \in Identities /\ r # Missing
      /\ claims' = [claims EXCEPT ![l] = @ \cup {r}]
      /\ UNCHANGED <<sessionOwner, sessionOf, spawning, accepted>>
  BY AdapterAssumption DEF AcquireAnswer, Claim, Requests, sessionCaches
<1>2. claims' \in [LeaseIds -> SUBSET Requests]
  BY <1>1 DEF AdapterTypeOK
<1>3. CASE Quarantine(l)
  <2>1. AdapterTypeOK'
    BY <1>1, <1>2, <1>3 DEF AdapterTypeOK, Quarantine
  <2>2. ClaimsAreCached'
    BY <1>1, <1>3 DEF AdapterTypeOK, ClaimsAreCached, Quarantine, Current
  <2> QED BY <2>1, <2>2
<1>4. CASE l \in quarantined /\ UNCHANGED <<leaseCaches, quarantined>>
  <2>1. AdapterTypeOK'
    BY <1>1, <1>2, <1>4 DEF AdapterTypeOK, leaseCaches
  <2>2. ClaimsAreCached'
    BY <1>1, <1>4 DEF AdapterTypeOK, ClaimsAreCached, leaseCaches, Current
  <2> QED BY <2>1, <2>2
<1>5. CASE /\ ~Conflicts(l, r) /\ l \notin quarantined
           /\ leaseOf' = [leaseOf EXCEPT ![r.id] = l]
           /\ asked' = [asked EXCEPT ![r.id] = r]
           /\ leaseOwner' = [leaseOwner EXCEPT ![l] = r]
           /\ UNCHANGED quarantined
  <2>1. AdapterTypeOK'
    BY <1>1, <1>2, <1>5 DEF AdapterTypeOK
  <2>2. claims[l] \subseteq {r}
    BY <1>1, <1>5 DEF Conflicts, ClaimsAreCached, Current
  <2>3. ClaimsAreCached'
    BY <1>1, <1>5, <2>2 DEF AdapterTypeOK, ClaimsAreCached, Current
  <2> QED BY <2>1, <2>3
<1> QED BY <1>3, <1>4, <1>5 DEF AcquireAnswer

LEMMA AdoptKeepsInv ==
  ASSUME OwnershipInv, NEW r \in Requests, NEW l \in LeaseIds, Adopt(r, l)
  PROVE  OwnershipInv'
<1> USE DEF OwnershipInv
<1>1. /\ r # Missing /\ Current
      /\ claims' = [claims EXCEPT ![l] = @ \cup {r}]
      /\ UNCHANGED <<attested, sessionOwner, sessionOf, spawning, accepted>>
  BY AdapterAssumption DEF Adopt, Claim, sessionCaches
<1>2. claims' \in [LeaseIds -> SUBSET Requests]
  BY <1>1 DEF AdapterTypeOK
<1>3. CASE Conflicts(l, r)
  <2>1. Quarantine(l)
    BY <1>3 DEF Adopt
  <2>2. AdapterTypeOK'
    BY <1>1, <1>2, <2>1 DEF AdapterTypeOK, Quarantine
  <2>3. ClaimsAreCached'
    BY <1>1, <2>1 DEF AdapterTypeOK, ClaimsAreCached, Quarantine, Current
  <2> QED BY <2>2, <2>3
<1>4. CASE ~Conflicts(l, r)
  <2>1. /\ leaseOwner' = IF l \in quarantined THEN leaseOwner
                         ELSE [leaseOwner EXCEPT ![l] = r]
        /\ UNCHANGED <<leaseOf, asked, quarantined>>
    BY <1>4 DEF Adopt
  <2>2. AdapterTypeOK'
    BY <1>1, <1>2, <2>1 DEF AdapterTypeOK
  <2>3. l \notin quarantined => claims[l] \subseteq {r}
    BY <1>1, <1>4 DEF Conflicts, ClaimsAreCached, Current
  <2>4. ClaimsAreCached'
    BY <1>1, <2>1, <2>3 DEF AdapterTypeOK, ClaimsAreCached, Current
  <2> QED BY <2>2, <2>4
<1> QED BY <1>3, <1>4

LEMMA ReleaseKeepsLeases ==
  ASSUME OwnershipInv, NEW r \in Requests, NEW l \in LeaseIds, Release(r, l)
  PROVE  OwnershipInv'
<1>1. CASE /\ attested' = "lapsed"
           /\ UNCHANGED <<leaseCaches, quarantined, sessionCaches, claims, accepted>>
  BY <1>1, LapseKeepsInv DEF Release, MayRelease
<1>2. CASE /\ attested' = "current"
           /\ leaseOwner' = [leaseOwner EXCEPT ![l] = Missing]
           /\ claims' = [claims EXCEPT ![l] = {}]
           /\ UNCHANGED <<leaseOf, asked, quarantined, sessionCaches, accepted>>
  <2>1. AdapterTypeOK'
    BY <1>2 DEF OwnershipInv, AdapterTypeOK, sessionCaches
  <2>2. ClaimsAreCached'
    BY <1>2 DEF OwnershipInv, AdapterTypeOK, ClaimsAreCached, Release, MayRelease, Current
  <2> QED BY <2>1, <2>2 DEF OwnershipInv
<1> QED BY <1>1, <1>2 DEF Release, CallEnds

LEMMA SpawnKeepsLeases ==
  ASSUME OwnershipInv, NEW r \in Requests, NEW l \in LeaseIds, NEW s \in SessionKeys,
         Spawn(r, l, s)
  PROVE  OwnershipInv'
<1>1. /\ UNCHANGED <<leaseOwner, leaseOf, asked, quarantined, claims>>
      /\ attested' \in {"current", "lapsed"}
      /\ spawning' = [spawning EXCEPT ![r.id] = [request |-> r, lease |-> l]]
      /\ Current /\ r.id \in Identities
  BY DEF Spawn, MaySpawn, leaseCaches, Requests
<1>2. /\ sessionOf' \in [Identities -> SessionKeys \cup {Missing}]
      /\ sessionOwner' \in [SessionKeys -> Requests \cup {Missing}]
      /\ accepted' \subseteq SessionKeys \X Requests
  BY <1>1 DEF Spawn, OwnershipInv, AdapterTypeOK
<1>3. spawning' \in [Identities -> SpawnCall \cup {Missing}]
  BY <1>1 DEF OwnershipInv, AdapterTypeOK, SpawnCall
<1>4. AdapterTypeOK'
  BY <1>1, <1>2, <1>3 DEF OwnershipInv, AdapterTypeOK
<1>5. ClaimsAreCached'
  BY <1>1 DEF OwnershipInv, ClaimsAreCached, Current
<1> QED BY <1>4, <1>5 DEF OwnershipInv

LEMMA OwnershipStep == OwnershipInv /\ [AdapterNext]_adapterVars => OwnershipInv'
<1> SUFFICES ASSUME OwnershipInv, [AdapterNext]_adapterVars
             PROVE  OwnershipInv'
  OBVIOUS
<1>1. ASSUME NEW r \in Requests, NEW l \in LeaseIds, Acquire(r, l)
      PROVE  OwnershipInv'
  BY <1>1, LapseKeepsInv, AcquireKeepsInv DEF Acquire, CallEnds
<1>2. CASE Drift
  BY <1>2 DEF Drift, OwnershipInv, AdapterTypeOK, ClaimsAreCached, leaseCaches, sessionCaches
<1>3. CASE Discontinue
  BY <1>3 DEF Discontinue, OwnershipInv, AdapterTypeOK, ClaimsAreCached
<1>4. CASE UNCHANGED adapterVars
  BY <1>4 DEF adapterVars, OwnershipInv, AdapterTypeOK, ClaimsAreCached, leaseCaches,
              sessionCaches
<1> QED BY <1>1, <1>2, <1>3, <1>4, AdoptKeepsInv, ReleaseKeepsLeases, SpawnKeepsLeases
        DEF AdapterNext

\* A release or spawn call is made only for a lease the Gateway named for one
\* request since its last release: the caches and the quarantine of
\* openclaw_adapter.py, for any requests, leases and answers.
THEOREM CallsAreOwn == AdapterSpec => []CallsUseOwnLease
<1>1. AdapterSpec => []OwnershipInv
  BY AdapterInitInv, OwnershipStep, PTL DEF AdapterSpec
<1>2. OwnershipInv => CallsUseOwnLease
  <2> SUFFICES ASSUME OwnershipInv, NEW r \in Requests, NEW l \in LeaseIds
               PROVE  /\ MayRelease(r, l) => claims[l] = {r}
                      /\ MaySpawn(r, l) => \E own \in Requests :
                           claims[l] = {own} /\ own.owner = r.owner
    BY DEF CallsUseOwnLease
  <2>1. leaseOwner[l] # Missing /\ l \notin quarantined /\ Current
          => leaseOwner[l] \in Requests /\ claims[l] = {leaseOwner[l]}
    BY DEF OwnershipInv, ClaimsAreCached, AdapterTypeOK, Current
  <2>2. MayRelease(r, l) => claims[l] = {r}
    BY <2>1 DEF MayRelease
  <2>3. MaySpawn(r, l) => \E own \in Requests : claims[l] = {own} /\ own.owner = r.owner
    BY <2>1 DEF MaySpawn
  <2> QED BY <2>2, <2>3
<1> QED BY <1>1, <1>2, PTL

-----------------------------------------------------------------------------
(* Sessions of the adapter *)

\* The caches know the session and the request of every spawn that returned.
SessionsAreCached ==
  attested # "removed" =>
    \A a \in accepted : sessionOwner[a[1]] = a[2] /\ sessionOf[a[2].id] = a[1]

SessionsInv == OwnershipInv /\ SessionsAreCached /\ SessionsAreDistinct

LEMMA SpawnKeepsSessions ==
  ASSUME SessionsInv, NEW r \in Requests, NEW l \in LeaseIds, NEW s \in SessionKeys,
         Spawn(r, l, s)
  PROVE  SessionsAreCached' /\ SessionsAreDistinct'
<1>1. /\ Current /\ attested' # "removed" /\ r.id \in Identities /\ r # Missing
      /\ sessionOf \in [Identities -> SessionKeys \cup {Missing}]
      /\ sessionOwner \in [SessionKeys -> Requests \cup {Missing}]
      /\ accepted \subseteq SessionKeys \X Requests
  BY AdapterAssumption
  DEF Spawn, MaySpawn, Requests, SessionsInv, OwnershipInv, AdapterTypeOK
<1>2. \A a \in accepted : sessionOwner[a[1]] = a[2] /\ sessionOf[a[2].id] = a[1]
  BY <1>1 DEF SessionsInv, SessionsAreCached, Current
<1>3. CASE UNCHANGED <<sessionOf, sessionOwner, accepted>>
  BY <1>2, <1>3 DEF SessionsInv, SessionsAreCached, SessionsAreDistinct
<1>4. CASE /\ SessionIsOwn(r, s)
           /\ sessionOf' = [sessionOf EXCEPT ![r.id] = s]
           /\ sessionOwner' = [sessionOwner EXCEPT ![s] = r]
           /\ accepted' = accepted \cup {<<s, r>>}
  <2>1. \A a \in accepted : /\ a[1] \in SessionKeys /\ a[2] \in Requests
                            /\ a = <<a[1], a[2]>> /\ a[2].id \in Identities
    BY <1>1 DEF Requests
  <2>2. ASSUME NEW a \in accepted
        PROVE  /\ a[1] = s => a[2] = r
               /\ a[2].id = r.id => a[1] = s
    <3>1. sessionOwner[a[1]] = a[2] /\ sessionOf[a[2].id] = a[1]
      BY <1>2
    <3>2. a[1] # Missing /\ a[2] # Missing
      BY <2>1, AdapterAssumption
    <3> QED BY <1>4, <3>1, <3>2 DEF SessionIsOwn
  <2>3. \A a \in accepted : (a[1] = s \/ a[2].id = r.id) => a = <<s, r>>
    <3> SUFFICES ASSUME NEW a \in accepted, a[1] = s \/ a[2].id = r.id
                 PROVE  a = <<s, r>>
      OBVIOUS
    <3>1. a[1] = s
      BY <2>2
    <3> QED BY <2>1, <2>2, <3>1
  <2>4. SessionsAreCached'
    <3> SUFFICES ASSUME NEW a \in accepted'
                 PROVE  sessionOwner'[a[1]] = a[2] /\ sessionOf'[a[2].id] = a[1]
      BY DEF SessionsAreCached
    <3>1. CASE a = <<s, r>>
      BY <1>1, <1>4, <3>1
    <3>2. CASE a # <<s, r>>
      <4>1. a \in accepted /\ a[1] # s /\ a[2].id # r.id
        BY <1>4, <2>3, <3>2
      <4> QED BY <1>1, <1>2, <1>4, <2>1, <4>1
    <3> QED BY <3>1, <3>2
  <2>5. SessionsAreDistinct'
    <3> SUFFICES ASSUME NEW a \in accepted', NEW b \in accepted',
                        a[1] = b[1] \/ a[2].id = b[2].id
                 PROVE  a = b
      BY DEF SessionsAreDistinct
    <3>1. CASE a \in accepted /\ b \in accepted
      BY <3>1 DEF SessionsInv, SessionsAreDistinct
    <3>2. CASE a = <<s, r>> /\ b = <<s, r>>
      BY <3>2
    <3>3. CASE a = <<s, r>> /\ b \in accepted
      BY <2>3, <3>3
    <3>4. CASE a \in accepted /\ b = <<s, r>>
      BY <2>3, <3>4
    <3> QED BY <1>4, <3>1, <3>2, <3>3, <3>4
  <2> QED BY <2>4, <2>5
<1> QED BY <1>3, <1>4 DEF Spawn

\* Steps that make no spawn call leave what is known of sessions alone, or
\* remove the adapter.
LEMMA OthersKeepSessions ==
  ASSUME SessionsInv, UNCHANGED accepted,
         \/ attested' = "removed"
         \/ /\ UNCHANGED <<sessionOwner, sessionOf>>
            /\ attested' # "removed" => attested # "removed"
  PROVE  SessionsAreCached' /\ SessionsAreDistinct'
  BY DEF SessionsInv, SessionsAreCached, SessionsAreDistinct

LEMMA SessionsStep == SessionsInv /\ [AdapterNext]_adapterVars => SessionsInv'
<1> SUFFICES ASSUME SessionsInv, [AdapterNext]_adapterVars
             PROVE  SessionsInv'
  OBVIOUS
<1>1. OwnershipInv'
  BY OwnershipStep DEF SessionsInv
<1>2. ASSUME NEW r \in Requests, NEW l \in LeaseIds,
             Acquire(r, l) \/ Adopt(r, l) \/ Release(r, l)
      PROVE  /\ UNCHANGED <<accepted, sessionOwner, sessionOf>>
             /\ attested # "removed"
  BY <1>2 DEF Acquire, AcquireAnswer, Adopt, Release, MayRelease, CallEnds, Current,
              sessionCaches
<1>3. CASE Drift \/ Discontinue \/ UNCHANGED adapterVars
  BY <1>1, <1>3, OthersKeepSessions
  DEF Drift, Discontinue, adapterVars, sessionCaches, SessionsInv
<1> QED BY <1>1, <1>2, <1>3, OthersKeepSessions, SpawnKeepsSessions
        DEF AdapterNext, SessionsInv

\* No two spawn requests share a session and no request is told two of them:
\* the session caches of sessions_spawn, for any requests and answers.
THEOREM SessionsStayDistinct == AdapterSpec => []SessionsAreDistinct
<1>1. AdapterInit => SessionsInv
  BY AdapterInitInv DEF AdapterInit, SessionsInv, SessionsAreCached, SessionsAreDistinct
<1>2. AdapterSpec => []SessionsInv
  BY <1>1, SessionsStep, PTL DEF AdapterSpec
<1>3. SessionsInv => SessionsAreDistinct
  BY DEF SessionsInv
<1> QED BY <1>2, <1>3, PTL
=============================================================================
