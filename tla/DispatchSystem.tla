---------------------------- MODULE DispatchSystem ----------------------------
(***************************************************************************)
(* Callers, reconciliation passes, the clock and the Gateway together, and *)
(* what must be true of them.                                              *)
(***************************************************************************)
EXTENDS Reconciliation

Init ==
  /\ StoreInit /\ GatewayInit
  /\ step = [a \in Actors |-> "idle"]
  /\ job  = [a \in Actors |-> NoRequest]
  /\ answered = {}
  /\ todo  = [r \in Reconcilers |-> {}]
  /\ phase = [r \in Reconcilers |-> "idle"]
  /\ due   = [r \in Reconcilers |-> {}]
  /\ seenSessions = [r \in Reconcilers |-> {}]
  /\ seenLeases   = [r \in Reconcilers |-> {}]

Dispatching ==
  /\ \/ \E c \in Callers, d \in Requests : CallerStep(c, d)
     \/ \E c \in Callers : CallerStops(c)
     \/ \E a \in Actors, d \in Requests : ReleaseStep(a, d)
  /\ UNCHANGED passVars

Reconciling ==
  \E r \in Reconcilers :
    \/ StartPass(r) \/ ListLeases(r) \/ Advance(r) \/ EndPass(r) \/ PassStops(r)
    \/ \E d \in Requests : ItemStep(r, d)

Outside ==
  \/ \E d \in Requests : GraceElapses(d) /\ UNCHANGED <<gwVars, callVars, todo, passVars>>
  \/ \E d \in Requests : GatewayStep(d) /\ UNCHANGED <<storeVars, callVars, todo, passVars>>

Next == Dispatching \/ Reconciling \/ Outside

Spec == Init /\ [][Next]_vars

PassStep(r) ==
  \/ StartPass(r) \/ ListLeases(r) \/ Advance(r) \/ EndPass(r)
  \/ \E d \in Requests : ItemStep(r, d) \/ (ReleaseStep(r, d) /\ UNCHANGED passVars)

\* Reliable passes are run again and again to their end, and time passes.
\* Nothing is assumed of the callers, of other passes or of the Gateway.
Fairness ==
  /\ \A r \in Reliable : WF_vars(PassStep(r))
  /\ \A d \in Requests :
       WF_vars(GraceElapses(d) /\ UNCHANGED <<gwVars, callVars, todo, passVars>>)

FairSpec == Spec /\ Fairness

-----------------------------------------------------------------------------
\* Every variable stays in its type.
TypeOK ==
  /\ StoreTypeOK /\ GatewayTypeOK
  /\ step \in [Actors -> Step]
  /\ job  \in [Actors -> Requests \cup {NoRequest}]
  /\ answered \subseteq Requests
  /\ todo  \in [Reconcilers -> SUBSET Requests]
  /\ phase \in [Reconcilers -> Phase]
  /\ due   \in [Reconcilers -> SUBSET (Rpc \X Requests)]
  /\ seenSessions \in [Reconcilers -> SUBSET Requests]
  /\ seenLeases   \in [Reconcilers -> SUBSET Requests]

\* At most one dispatch of a (run, phase, agent) slot ever lets a
\* sessions_spawn call leave, whatever crashes, timeouts, late answers and
\* reconciliation passes come between.
OneSpawnPerSlot ==
  \A d, e \in Requests :
    d # e /\ SlotOf[d] = SlotOf[e] => ~(Issued(d) /\ Issued(e))

\* A lease is put up for release only if no spawn call for it ever left and
\* none can still leave: the release path runs when the spawn is known to be
\* blocked before the external call.
ReleaseOnlyUnspawned ==
  \A d \in Requests :
    release[d] # "none" =>
      /\ ~Issued(d)
      /\ \A c \in Callers : job[c] = d => step[c] \notin {"leased", "spawn", "spawning"}

\* An accepted spawn rests on a session the Gateway started, an acquire
\* intent that was accepted, and a lease still held for it.
AcceptedSpawnHasProof ==
  \A d \in Requests :
    spawn[d] \in Settled => d \in gwSessions /\ AcquiredLeaseProof(d)

\* A caller that was handed a result, by the dispatch itself or by a replay,
\* can rely on it: the session exists and the database says so.
AnswerHasSession ==
  \A d \in answered : d \in gwSessions /\ spawn[d] \in Settled

\* A request is worked on by one caller, however many callers submit it.
OneCallerPerRequest ==
  \A b, c \in Callers : b # c /\ job[b] = job[c] => job[b] = NoRequest

\* A late answer, a late reconciliation or a late error never changes a
\* verdict: accepted, reconciled and human review of a spawn are final, and
\* so are the lease states nobody may leave.
VerdictIsFinal ==
  [][\A d \in Requests :
       /\ spawn[d] \in Settled \cup {Review} => spawn'[d] = spawn[d]
       /\ lease[d] \in {"released", "expired", Review} => lease'[d] = lease[d]
       /\ release[d] \in Settled => release'[d] = release[d]]_vars

\* When a slot admits a new dispatch, every earlier dispatch of that slot is
\* over at the Gateway too: no spawn call of it ever left, its lease is gone.
SlotHandover ==
  [][\A d \in Requests :
       spawn[d] = "none" /\ spawn'[d] # "none" =>
         \A e \in Rivals(d) :
           spawn[e] # "none" => ~Issued(e) /\ gwLease[e] = "gone"]_vars

\* No intent stays open for ever: with passes running, each pending or
\* unknown intent is accepted, reconciled or put before a human, even if the
\* caller that wrote it died.
IntentsAreResolved ==
  \A d \in Requests :
    /\ (acquire[d] \in Unsettled) ~> (acquire[d] \notin Unsettled)
    /\ (spawn[d]   \in Unsettled) ~> (spawn[d]   \notin Unsettled)
    /\ (release[d] \in Unsettled) ~> (release[d] \notin Unsettled)

-----------------------------------------------------------------------------
(* Sentences of the repository's README that the code does not keep *)

\* "terminal pre-spawn failures do not permanently occupy the slot": a
\* dispatch that failed before its spawn call, and whose lease is gone for
\* good, does not hold its slot.
TerminalFailureFreesSlot ==
  \A d \in Requests :
    /\ spawn[d] = Review
    /\ reason[d] \in {"blocked", "expired"}
    /\ lease[d] \in {"released", "expired"}
    => ~PotentiallyLive(d)

\* "Release-pending leases are reconciled from exact release metadata": when
\* the Gateway has dropped the lease, passes bring a release of unknown
\* outcome to its end.
ReleasesAreReconciled ==
  \A d \in Requests :
    (lease[d] = "release_pending" /\ release[d] = "unknown" /\ gwLease[d] = "gone")
      ~> (lease[d] = "released")

-----------------------------------------------------------------------------
(* What the rows and the wire show of SpawnArbiter *)

Admitted  == {d \in Requests : spawn[d] # "none"}
Withdrawn == {d \in Requests : TerminalPreSpawn(d)}
Called    == {d \in Requests : Issued(d)}

Verdict ==
  [d \in Requests |-> IF spawn[d] \in Settled THEN "accepted"
                      ELSE IF spawn[d] = Review THEN "review" ELSE "open"]

Arbiter == INSTANCE SpawnArbiter WITH
  admitted  <- Admitted,
  withdrawn <- Withdrawn,
  called    <- Called,
  started   <- gwSessions,
  verdict   <- Verdict

\* The dispatcher, its crashes and its reconciliation implement the arbiter.
ImplementsArbiter == Arbiter!Spec
=============================================================================
