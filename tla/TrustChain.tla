----------------------------- MODULE TrustChain -----------------------------
(***************************************************************************)
(* pass_gates.py, goal_runs.py, slo_audits.py and trust_promotion.py with  *)
(* the triggers of the migrations: how one run is promoted to trust.  A    *)
(* gate binds an approval and an evidence artifact to the run, goal runs   *)
(* refer to that evidence, every SLO query is audited against it, and an   *)
(* observation may then promote the run while nothing the queries read has *)
(* changed.  Each writer is one IMMEDIATE transaction that reads the       *)
(* artifact again just before it commits, so one action is one transaction *)
(* at the time of that last read.  What a query returns, the identities    *)
(* compared by hash, risks and expiry dates only refuse a writer here.     *)
(***************************************************************************)
EXTENDS Naturals, FiniteSets

CONSTANTS
  AuditedWorkflows,
  Home,         \* the workflow of the run
  Queries,      \* slo_queries of the current schema
  AuditIds,     \* slo_audit_id, compared like numbers
  Approvals,
  GoalRuns,
  LastTime,     \* bound on the wall clock, which may be set to any time
  NoRow

ASSUME TrustAssumption ==
  /\ Home \in AuditedWorkflows
  /\ AuditIds \subseteq Nat
  /\ LastTime \in Nat
  /\ Approvals \cap GoalRuns = {}
  /\ NoRow \notin Approvals
  /\ {"unused", "open", "gate", "unapproved"} \cap (Approvals \cup GoalRuns) = {}

Times == 0 .. LastTime

VARIABLES
  artifact,   \* the evidence file: "recorded" or "other"
  gate,       \* the PASS gate of the run: its clock and its approval
  approval,   \* each approvals row: "unused" id, "open", or who consumed it
  goal,       \* approval_id of each goal run
  audits,     \* slo_audits
  lastInput,  \* largest time among the rows of Home the queries read
  trusted     \* goal runs with an active trust observation

trustVars == <<artifact, gate, approval, goal, audits, lastInput, trusted>>

Gates == [at : Times, approval : Approvals]

\* "stale" holds the workflows that logged an slo_input event after the audit.
Audits == [query : Queries, passed : BOOLEAN, at : Times, stale : SUBSET AuditedWorkflows]

ASSUME NoRowAssumption == NoRow \notin Gates \cup Audits

TrustTypeOK ==
  /\ artifact \in {"recorded", "other"}
  /\ \A r \in {gate} \ {NoRow} : r \in Gates
  /\ approval \in [Approvals -> {"unused", "open", "gate"} \cup GoalRuns]
  /\ DOMAIN goal = GoalRuns
  /\ \A g \in GoalRuns : goal[g] \in Approvals \cup {"unapproved", NoRow}
  /\ DOMAIN audits = AuditIds
  /\ \A i \in AuditIds : audits[i] # NoRow => audits[i] \in Audits
  /\ lastInput \in Times
  /\ trusted \subseteq GoalRuns

TrustInit ==
  /\ artifact = "recorded"
  /\ gate = NoRow
  /\ approval = [a \in Approvals |-> "unused"]
  /\ goal = [g \in GoalRuns |-> NoRow]
  /\ audits = [i \in AuditIds |-> NoRow]
  /\ lastInput = 0
  /\ trusted = {}

\* _validate_evidence and _assert_evidence_snapshot_current of recorded evidence
EvidenceCurrent == artifact = "recorded"

-----------------------------------------------------------------------------
(* Gate and goal runs *)

\* record_approval_pass_gate up to its writes
MayPass(a) ==
  /\ gate = NoRow
  /\ approval[a] = "unused"

\* record_approval_pass_gate: the approval is inserted as consumed.
Pass(a, now) ==
  /\ MayPass(a)
  /\ EvidenceCurrent
  /\ gate' = [at |-> now, approval |-> a]
  /\ approval' = [approval EXCEPT ![a] = "gate"]
  /\ UNCHANGED <<artifact, goal, audits, lastInput, trusted>>

\* An operator grants an approval for a goal run.
Grant(a) ==
  /\ approval[a] = "unused"
  /\ approval' = [approval EXCEPT ![a] = "open"]
  /\ UNCHANGED <<artifact, gate, goal, audits, lastInput, trusted>>

\* Mutant: only the gate's own approvals are refused.
ConsumesAny(a, g) == approval[a] \in {"open"} \cup GoalRuns

\* _consume_goal_approval
Consumes(a, g) == approval[a] \in {"open", g}

\* _assert_evidence_binding
EvidenceBound == gate # NoRow /\ EvidenceCurrent

GoalRun(g, a) ==
  /\ EvidenceBound
  /\ goal[g] = NoRow
  /\ \/ a = "unapproved" /\ UNCHANGED approval
     \/ a \in Approvals /\ Consumes(a, g) /\ approval' = [approval EXCEPT ![a] = g]
  /\ goal' = [goal EXCEPT ![g] = a]
  /\ UNCHANGED <<artifact, gate, audits, lastInput, trusted>>

-----------------------------------------------------------------------------
(* Audits *)

\* record_slo_audit: active trust refuses audits (migration 0013).
Audit(i, q, passed, now) ==
  /\ audits[i] = NoRow
  /\ trusted = {}
  /\ passed => EvidenceBound
  /\ audits' = [audits EXCEPT ![i] =
                  [query |-> q, passed |-> passed, at |-> now, stale |-> {}]]
  /\ UNCHANGED <<artifact, gate, approval, goal, lastInput, trusted>>

AuditsOf(q) == {i \in AuditIds : audits[i] # NoRow /\ audits[i].query = q}

\* The latest audit by time, then by id.
IsLatest(i, q) ==
  /\ i \in AuditsOf(q)
  /\ \A j \in AuditsOf(q) :
       audits[j].at < audits[i].at \/ (audits[j].at = audits[i].at /\ j <= i)

\* Mutant: times alone decide whether an audit is current.
IsTimely(i) ==
  /\ audits[i].passed
  /\ audits[i].at >= gate.at /\ audits[i].at >= lastInput

\* No input of any workflow was logged after the audit; its time must not be
\* earlier than the gate's and than every row of Home.
IsCurrent(i) ==
  /\ audits[i].passed
  /\ audits[i].at >= gate.at /\ audits[i].at >= lastInput
  /\ audits[i].stale = {}

-----------------------------------------------------------------------------
(* Trust *)

\* _bound_evidence, with the view trust_promotion_bound_evidence: the goal run,
\* its gate, the artifact and a current audit of every query
CompletelyBound(g) ==
  /\ goal[g] # NoRow
  /\ EvidenceBound
  /\ \A q \in Queries : \E i \in AuditIds : IsLatest(i, q) /\ IsCurrent(i)

\* promote_trust
Promote(g) ==
  /\ g \notin trusted
  /\ CompletelyBound(g)
  /\ trusted' = trusted \cup {g}
  /\ UNCHANGED <<artifact, gate, approval, goal, audits, lastInput>>

\* An observation may only be invalidated.
Invalidate(g) ==
  /\ g \in trusted
  /\ trusted' = trusted \ {g}
  /\ UNCHANGED <<artifact, gate, approval, goal, audits, lastInput>>

\* Any component writes a row the queries read; the triggers refuse it for the
\* workflow of an active observation, and log it otherwise.
Input(f, now) ==
  /\ f = Home => trusted = {}
  /\ audits' = [i \in AuditIds |-> IF audits[i] = NoRow THEN NoRow
                                   ELSE [audits[i] EXCEPT !.stale = @ \cup {f}]]
  /\ lastInput' = IF f = Home /\ now > lastInput THEN now ELSE lastInput
  /\ UNCHANGED <<artifact, gate, approval, goal, trusted>>

\* The artifact is edited, or brought back.
EditArtifact ==
  /\ artifact' \in {"recorded", "other"} \ {artifact}
  /\ UNCHANGED <<gate, approval, goal, audits, lastInput, trusted>>

TrustNext ==
  \/ \E a \in Approvals : Grant(a) \/ \E now \in Times : Pass(a, now)
  \/ \E g \in GoalRuns :
       \/ Promote(g) \/ Invalidate(g)
       \/ \E a \in Approvals \cup {"unapproved"} : GoalRun(g, a)
  \/ \E now \in Times :
       \/ \E f \in AuditedWorkflows : Input(f, now)
       \/ \E i \in AuditIds, q \in Queries, passed \in BOOLEAN : Audit(i, q, passed, now)
  \/ EditArtifact

TrustSpec == TrustInit /\ [][TrustNext]_trustVars

-----------------------------------------------------------------------------
(* Properties *)

\* While trust is active, every query has passed after the last change of
\* what it reads of the run's workflow, whatever the wall clock showed.
TrustIsCurrent ==
  trusted # {} =>
    \A q \in Queries : \E i \in AuditsOf(q) :
      audits[i].passed /\ Home \notin audits[i].stale

\* A single-use approval stands behind one gate or one goal run.
ApprovalIsUsedOnce ==
  \A a \in Approvals :
    Cardinality({g \in GoalRuns : goal[g] = a})
      + Cardinality({r \in {gate} \ {NoRow} : r.approval = a}) <= 1
=============================================================================
