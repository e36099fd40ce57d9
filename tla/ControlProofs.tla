--------------------------- MODULE ControlProofs ----------------------------
(***************************************************************************)
(* Proofs about the probe, preflight and soak scripts and the legacy       *)
(* import, for any owners, leases, sessions, sources, replacements, clocks *)
(* and rows: what the metadata probe answers, what the live probe reports, *)
(* what a tool catalog is bound to, what a soak that is complete has seen, *)
(* what an import brings in; and about the parts of the control plane      *)
(* together.                                                               *)
(***************************************************************************)
EXTENDS ControlPlane, AuthorityProofs, TrustProofs, WellFoundedInduction, TLAPS

-----------------------------------------------------------------------------
(* The metadata probe *)

\* What the probe remembers of a lease or of a session agrees from both sides,
\* and it has answered exactly that.
LeaseBooksAgree ==
  \A l \in FoundLeases : leaseIntent[l] # Unknown =>
    /\ leaseByKey[leaseIntent[l].key] = [intent |-> leaseIntent[l], lease |-> l]
    /\ <<leaseIntent[l], l>> \in leaseAnswers

LeaseAnswersAreBooked == \A a \in leaseAnswers : leaseIntent[a[2]] = a[1]

SessionBooksAgree ==
  \A s \in FoundSessions : sessionIntent[s] # Unknown =>
    sessionByKey[sessionIntent[s].key] = [intent |-> sessionIntent[s], session |-> s]

SessionAnswersAreBooked == \A a \in sessionAnswers : sessionIntent[a[2]] = a[1]

ReleaseAnswersAreBooked ==
  \A r \in releaseAnswers :
    /\ releaseByKey[r.key] = r
    /\ leaseIntent[r.lease] # Unknown /\ leaseIntent[r.lease].owner = r.owner

MetadataInv ==
  /\ MetadataTypeOK
  /\ LeaseBooksAgree /\ LeaseAnswersAreBooked
  /\ SessionBooksAgree /\ SessionAnswersAreBooked
  /\ ReleaseAnswersAreBooked

LEMMA MetadataInitInv == MetadataInit => MetadataInv
  BY IntentAssumption
  DEF MetadataInit, MetadataInv, MetadataTypeOK, LeaseBooksAgree, LeaseAnswersAreBooked,
      SessionBooksAgree, SessionAnswersAreBooked, ReleaseAnswersAreBooked

LEMMA AcquireKeepsBooks ==
  ASSUME MetadataInv, NEW i \in Intents, AcquireIntent(i)
  PROVE  MetadataInv'
<1> PICK l \in FoundLeases :
       /\ Replays(leaseByKey, i.key, [intent |-> i, lease |-> l])
       /\ leaseIntent[l] \in {i, Unknown}
       /\ leaseByKey' = [leaseByKey EXCEPT ![i.key] = [intent |-> i, lease |-> l]]
       /\ leaseIntent' = [leaseIntent EXCEPT ![l] = i]
       /\ leaseAnswers' = leaseAnswers \cup {<<i, l>>}
       /\ UNCHANGED <<releaseBooks, sessionBooks>>
  BY DEF AcquireIntent
<1> USE IntentAssumption DEF MetadataInv, MetadataTypeOK, releaseBooks, sessionBooks
<1>1. i.key \in IntentKeys /\ i # Unknown /\ [intent |-> i, lease |-> l] \in LeaseMetadata
  BY DEF Intents, LeaseMetadata
<1>2. MetadataTypeOK'
  BY <1>1
<1>3. \A m \in FoundLeases : leaseIntent[m] # Unknown =>
        leaseIntent'[m] = leaseIntent[m]
        /\ leaseByKey'[leaseIntent[m].key] = leaseByKey[leaseIntent[m].key]
  <2> SUFFICES ASSUME NEW m \in FoundLeases, leaseIntent[m] # Unknown
               PROVE  /\ leaseIntent'[m] = leaseIntent[m]
                      /\ leaseByKey'[leaseIntent[m].key] = leaseByKey[leaseIntent[m].key]
    OBVIOUS
  <2>1. /\ leaseByKey[leaseIntent[m].key] = [intent |-> leaseIntent[m], lease |-> m]
        /\ leaseIntent[m] \in Intents
    BY ONLY LeaseBooksAgree, leaseIntent \in [FoundLeases -> Intents \cup {Unknown}],
            m \in FoundLeases, leaseIntent[m] # Unknown DEF LeaseBooksAgree
  <2>3. leaseIntent[m].key \in IntentKeys
    BY <2>1 DEF Intents
  <2>2. leaseIntent[m].key = i.key => leaseIntent[m] = i /\ m = l
    <3> SUFFICES ASSUME leaseIntent[m].key = i.key
                 PROVE  leaseIntent[m] = i /\ m = l
      OBVIOUS
    <3>1. [intent |-> leaseIntent[m], lease |-> m] \in LeaseMetadata
      BY <2>1 DEF LeaseMetadata
    <3>2. [intent |-> leaseIntent[m], lease |-> m] = [intent |-> i, lease |-> l]
      BY <2>1, <3>1 DEF Replays
    <3> QED BY <3>2
  <2> QED BY <1>1, <2>1, <2>2, <2>3
<1>4. LeaseBooksAgree'
  <2> SUFFICES ASSUME NEW m \in FoundLeases, leaseIntent'[m] # Unknown
               PROVE  /\ leaseByKey'[leaseIntent'[m].key]
                           = [intent |-> leaseIntent'[m], lease |-> m]
                      /\ <<leaseIntent'[m], m>> \in leaseAnswers'
    BY DEF LeaseBooksAgree
  <2>1. CASE m = l
    BY <1>1, <2>1
  <2>2. CASE m # l
    BY <1>3, <2>2 DEF LeaseBooksAgree
  <2> QED BY <2>1, <2>2
<1>5. LeaseAnswersAreBooked'
  <2> SUFFICES ASSUME NEW a \in leaseAnswers'
               PROVE  leaseIntent'[a[2]] = a[1]
    BY DEF LeaseAnswersAreBooked
  <2>1. CASE a = <<i, l>>
    BY <2>1
  <2>2. CASE a \in leaseAnswers
    BY <1>1, <1>3, <2>2, a[1] \in Intents, a[2] \in FoundLeases DEF LeaseAnswersAreBooked
  <2> QED BY <2>1, <2>2
<1>6. SessionBooksAgree' /\ SessionAnswersAreBooked'
  BY DEF SessionBooksAgree, SessionAnswersAreBooked
<1>7. ReleaseAnswersAreBooked'
  <2> SUFFICES ASSUME NEW r \in releaseAnswers
               PROVE  /\ releaseByKey[r.key] = r
                      /\ leaseIntent'[r.lease] # Unknown
                      /\ leaseIntent'[r.lease].owner = r.owner
    BY DEF ReleaseAnswersAreBooked
  <2>1. r.lease \in FoundLeases
    BY DEF ReleaseIntents
  <2> QED BY <1>3, <2>1 DEF ReleaseAnswersAreBooked
<1> QED BY <1>2, <1>4, <1>5, <1>6, <1>7

LEMMA StatusKeepsBooks ==
  ASSUME MetadataInv, NEW i \in Intents, NEW l \in FoundLeases, StatusOfLease(i, l)
  PROVE  MetadataInv'
<1> USE DEF MetadataInv, StatusOfLease, releaseBooks, sessionBooks
<1>1. MetadataTypeOK'
  BY DEF MetadataTypeOK
<1>2. LeaseBooksAgree' /\ LeaseAnswersAreBooked'
  BY DEF LeaseBooksAgree, LeaseAnswersAreBooked
<1>3. SessionBooksAgree' /\ SessionAnswersAreBooked' /\ ReleaseAnswersAreBooked'
  BY DEF SessionBooksAgree, SessionAnswersAreBooked, ReleaseAnswersAreBooked
<1> QED BY <1>1, <1>2, <1>3

LEMMA ReleaseKeepsBooks ==
  ASSUME MetadataInv, NEW r \in ReleaseIntents, ReleaseIntent(r)
  PROVE  MetadataInv'
<1> USE IntentAssumption DEF MetadataInv, ReleaseIntent, leaseBooks, sessionBooks
<1>1. r.key \in IntentKeys /\ r # Unknown
  BY DEF ReleaseIntents
<1>2. MetadataTypeOK'
  BY <1>1 DEF MetadataTypeOK
<1>3. LeaseBooksAgree' /\ LeaseAnswersAreBooked'
  BY DEF LeaseBooksAgree, LeaseAnswersAreBooked
<1>4. SessionBooksAgree' /\ SessionAnswersAreBooked'
  BY DEF SessionBooksAgree, SessionAnswersAreBooked
<1>5. ReleaseAnswersAreBooked'
  <2> SUFFICES ASSUME NEW o \in releaseAnswers'
               PROVE  /\ releaseByKey'[o.key] = o
                      /\ leaseIntent[o.lease] # Unknown /\ leaseIntent[o.lease].owner = o.owner
    BY DEF ReleaseAnswersAreBooked
  <2>1. CASE o = r
    BY <1>1, <2>1 DEF MetadataTypeOK
  <2>2. CASE o \in releaseAnswers
    BY <1>1, <2>2 DEF ReleaseAnswersAreBooked, Replays, MetadataTypeOK
  <2> QED BY <2>1, <2>2
<1> QED BY <1>2, <1>3, <1>4, <1>5

LEMMA SpawnKeepsBooks ==
  ASSUME MetadataInv, NEW i \in Intents, SpawnIntent(i)
  PROVE  MetadataInv'
<1> PICK s \in FoundSessions :
       /\ Replays(sessionByKey, i.key, [intent |-> i, session |-> s])
       /\ sessionIntent[s] \in {i, Unknown}
       /\ sessionByKey' = [sessionByKey EXCEPT ![i.key] = [intent |-> i, session |-> s]]
       /\ sessionIntent' = [sessionIntent EXCEPT ![s] = i]
       /\ AnswerSession(i, s)
       /\ UNCHANGED <<leaseBooks, releaseBooks>>
  BY DEF SpawnIntent
<1> USE IntentAssumption
    DEF MetadataInv, MetadataTypeOK, leaseBooks, releaseBooks, AnswerSession
<1>1. i.key \in IntentKeys /\ i # Unknown /\ [intent |-> i, session |-> s] \in SessionEntries
  BY DEF Intents, SessionEntries
<1>2. MetadataTypeOK'
  BY <1>1
<1>3. \A t \in FoundSessions : sessionIntent[t] # Unknown =>
        sessionIntent'[t] = sessionIntent[t]
        /\ sessionByKey'[sessionIntent[t].key] = sessionByKey[sessionIntent[t].key]
  <2> SUFFICES ASSUME NEW t \in FoundSessions, sessionIntent[t] # Unknown
               PROVE  /\ sessionIntent'[t] = sessionIntent[t]
                      /\ sessionByKey'[sessionIntent[t].key]
                           = sessionByKey[sessionIntent[t].key]
    OBVIOUS
  <2>1. /\ sessionByKey[sessionIntent[t].key] = [intent |-> sessionIntent[t], session |-> t]
        /\ sessionIntent[t] \in Intents /\ sessionIntent[t].key \in IntentKeys
    BY DEF SessionBooksAgree, Intents
  <2>2. sessionIntent[t].key = i.key => sessionIntent[t] = i /\ t = s
    <3> SUFFICES ASSUME sessionIntent[t].key = i.key
                 PROVE  sessionIntent[t] = i /\ t = s
      OBVIOUS
    <3>1. [intent |-> sessionIntent[t], session |-> t] \in SessionEntries
      BY <2>1 DEF SessionEntries
    <3>2. [intent |-> sessionIntent[t], session |-> t] = [intent |-> i, session |-> s]
      BY <2>1, <3>1 DEF Replays
    <3> QED BY <3>2
  <2> QED BY <1>1, <2>1, <2>2
<1>4. SessionBooksAgree'
  <2> SUFFICES ASSUME NEW t \in FoundSessions, sessionIntent'[t] # Unknown
               PROVE  sessionByKey'[sessionIntent'[t].key]
                           = [intent |-> sessionIntent'[t], session |-> t]
    BY DEF SessionBooksAgree
  <2>1. CASE t = s
    BY <1>1, <2>1
  <2>2. CASE t # s
    BY <1>3, <2>2 DEF SessionBooksAgree
  <2> QED BY <2>1, <2>2
<1>5. SessionAnswersAreBooked'
  <2> SUFFICES ASSUME NEW a \in sessionAnswers'
               PROVE  sessionIntent'[a[2]] = a[1]
    BY DEF SessionAnswersAreBooked
  <2>1. CASE a = <<i, s>>
    BY <2>1
  <2>2. CASE a \in sessionAnswers
    BY <1>1, <1>3, <2>2, a[1] \in Intents, a[2] \in FoundSessions DEF SessionAnswersAreBooked
  <2> QED BY <2>1, <2>2
<1>6. LeaseBooksAgree' /\ LeaseAnswersAreBooked' /\ ReleaseAnswersAreBooked'
  BY DEF LeaseBooksAgree, LeaseAnswersAreBooked, ReleaseAnswersAreBooked
<1> QED BY <1>2, <1>4, <1>5, <1>6

LEMMA ReadKeepsBooks ==
  ASSUME MetadataInv, NEW i \in Intents, NEW s \in FoundSessions,
         ReadIntent(i, s) \/ ListIntent(i, s)
  PROVE  MetadataInv'
<1>1. /\ sessionIntent[s] = i /\ sessionAnswers' = sessionAnswers \cup {<<i, s>>}
      /\ UNCHANGED <<leaseBooks, releaseBooks, sessionByKey, sessionIntent>>
  BY DEF ReadIntent, ListIntent, AnswerSession
<1> USE <1>1 DEF MetadataInv, leaseBooks, releaseBooks
<1>2. MetadataTypeOK'
  BY DEF MetadataTypeOK
<1>3. LeaseBooksAgree' /\ LeaseAnswersAreBooked' /\ ReleaseAnswersAreBooked'
  BY DEF LeaseBooksAgree, LeaseAnswersAreBooked, ReleaseAnswersAreBooked
<1>4. SessionBooksAgree' /\ SessionAnswersAreBooked'
  BY DEF SessionBooksAgree, SessionAnswersAreBooked
<1> QED BY <1>2, <1>3, <1>4

LEMMA MetadataStep == MetadataInv /\ [MetadataNext]_metadataVars => MetadataInv'
<1>1. MetadataInv /\ UNCHANGED metadataVars => MetadataInv'
  BY DEF metadataVars, leaseBooks, releaseBooks, sessionBooks, MetadataInv, MetadataTypeOK,
         LeaseBooksAgree, LeaseAnswersAreBooked, SessionBooksAgree,
         SessionAnswersAreBooked, ReleaseAnswersAreBooked
<1> QED BY <1>1, AcquireKeepsBooks, StatusKeepsBooks, ReleaseKeepsBooks, SpawnKeepsBooks,
           ReadKeepsBooks DEF MetadataNext

\* An answer is determined by its key and by its identity.
LEMMA BooksAreStable == MetadataInv => IdentitiesAreStable
<1> SUFFICES ASSUME MetadataInv
             PROVE  IdentitiesAreStable
  OBVIOUS
<1> USE IntentAssumption DEF MetadataInv, MetadataTypeOK
<1>1. ASSUME NEW a \in leaseAnswers
      PROVE  /\ a = <<a[1], a[2]>> /\ leaseIntent[a[2]] = a[1]
             /\ leaseByKey[a[1].key] = [intent |-> a[1], lease |-> a[2]]
  <2>1. a = <<a[1], a[2]>> /\ a[1] \in Intents /\ a[2] \in FoundLeases
    OBVIOUS
  <2> QED BY <2>1 DEF LeaseBooksAgree, LeaseAnswersAreBooked
<1>2. ASSUME NEW a \in sessionAnswers
      PROVE  /\ a = <<a[1], a[2]>> /\ sessionIntent[a[2]] = a[1]
             /\ sessionByKey[a[1].key] = [intent |-> a[1], session |-> a[2]]
  <2>1. a = <<a[1], a[2]>> /\ a[1] \in Intents /\ a[2] \in FoundSessions
    OBVIOUS
  <2> QED BY <2>1 DEF SessionBooksAgree, SessionAnswersAreBooked
<1>3. ASSUME NEW a \in leaseAnswers, NEW b \in leaseAnswers,
             a[1].key = b[1].key \/ a[2] = b[2]
      PROVE  a = b
  <2>1. CASE a[2] = b[2]
    <3>1. a = <<a[1], a[2]>> /\ leaseIntent[a[2]] = a[1]
      BY ONLY <1>1, <1>3
    <3>2. b = <<b[1], b[2]>> /\ leaseIntent[b[2]] = b[1]
      BY ONLY <1>1, <1>3
    <3> QED BY ONLY <2>1, <3>1, <3>2
  <2>2. CASE a[1].key = b[1].key
    <3>1. [intent |-> a[1], lease |-> a[2]] = [intent |-> b[1], lease |-> b[2]]
      BY <1>1, <2>2
    <3>2. a[1] = b[1] /\ a[2] = b[2]
      BY <3>1
    <3> QED BY <1>1, <3>2
  <2> QED BY <1>3, <2>1, <2>2
<1>4. ASSUME NEW a \in sessionAnswers, NEW b \in sessionAnswers,
             a[1].key = b[1].key \/ a[2] = b[2]
      PROVE  a = b
  <2>1. CASE a[2] = b[2]
    <3>1. a = <<a[1], a[2]>> /\ sessionIntent[a[2]] = a[1]
      BY ONLY <1>2, <1>4
    <3>2. b = <<b[1], b[2]>> /\ sessionIntent[b[2]] = b[1]
      BY ONLY <1>2, <1>4
    <3> QED BY ONLY <2>1, <3>1, <3>2
  <2>2. CASE a[1].key = b[1].key
    <3>1. [intent |-> a[1], session |-> a[2]] = [intent |-> b[1], session |-> b[2]]
      BY <1>2, <2>2
    <3>2. a[1] = b[1] /\ a[2] = b[2]
      BY <3>1
    <3> QED BY <1>2, <3>2
  <2> QED BY <1>4, <2>1, <2>2
<1>5. \A a, b \in releaseAnswers : a.key = b.key => a = b
  BY DEF ReleaseAnswersAreBooked
<1>6. ASSUME NEW r \in releaseAnswers
      PROVE  \E a \in leaseAnswers : a[1].owner = r.owner /\ a[2] = r.lease
  <2>1. r.lease \in FoundLeases
    BY DEF ReleaseIntents
  <2>2. <<leaseIntent[r.lease], r.lease>> \in leaseAnswers
    BY <2>1 DEF LeaseBooksAgree, ReleaseAnswersAreBooked
  <2> QED BY <2>2 DEF ReleaseAnswersAreBooked
<1> QED BY <1>3, <1>4, <1>5, <1>6 DEF IdentitiesAreStable

\* Whatever an adapter answers to MetadataDispatchProbe of
\* metadata_dispatch.py, and whatever is replayed: a key stays one intent and
\* one identity, an identity belongs to one intent, and a release that returns
\* is one for the owner that acquired the lease.  For any intents, owners,
\* leases and sessions.
THEOREM IdentitiesStayStable == MetadataSpec => []IdentitiesAreStable
<1>1. MetadataSpec => []MetadataInv
  BY MetadataInitInv, MetadataStep, PTL DEF MetadataSpec
<1> QED BY <1>1, BooksAreStable, PTL

-----------------------------------------------------------------------------
(* The live probe *)

\* Before the first call nothing has been given, named or lost.
NothingBefore ==
  probeAt \in {"start", "acquire"} =>
    /\ granted = {} /\ named = {} /\ spawned = {} /\ ~lateAcquire
    /\ toRelease = {} /\ unresolved = {}

\* As long as nothing has failed, the acquires have given one lease, and none
\* of them is still to take effect.
Unfailed(calls) == ~failed /\ probeAt \in Calls \ ({"start", "acquire", "reported"} \cup calls)

OneLease ==
  Unfailed({}) =>
    /\ own \in ProbeLeases
    /\ granted = {own} /\ named = {own} /\ toRelease = {own} /\ ~lateAcquire

\* ... and the spawns one session.
OneSession ==
  /\ ~failed /\ probeAt = "spawn" => spawned = {}
  /\ Unfailed({"duplicate", "status", "spawn"}) => spawned = {session}
  /\ probeAt \in {"start", "acquire", "duplicate", "status"} => ~failed /\ spawned = {}

\* The names that were kept, and what the cleanup knows of them.
NamesAreKept == toRelease = {} \/ named \subseteq toRelease \cup unresolved

ReleasesAreCounted ==
  /\ probeAt \in Calls \ {"cleanup", "reported"} => tried = {} /\ ~unreleased
  /\ ~unreleased => \A l \in tried : leaseAt[l] = "gone"

\* What the report says stays true.
ReportStays ==
  probeAt = "reported" =>
    /\ report.status = "pass" =>
         /\ own \in ProbeLeases /\ granted = {own} /\ leaseAt[own] = "gone"
         /\ spawned = {session} /\ ~lateAcquire
    /\ report.released \in {"true", "not_required"} =>
         \A l \in named : leaseAt[l] = "gone" \/ l \in unresolved
    /\ report.released = "not_required" => granted = {} /\ spawned = {} /\ ~lateAcquire
    /\ report.released # "none"

LiveInv ==
  /\ LiveTypeOK
  /\ NothingBefore /\ OneLease /\ OneSession /\ NamesAreKept /\ ReleasesAreCounted
  /\ ReportStays

LEMMA LiveInitInv == LiveInit => LiveInv
<1> SUFFICES ASSUME LiveInit
             PROVE  LiveInv
  OBVIOUS
<1>1. LiveTypeOK
  <2>1. leaseAt \in [ProbeLeases -> {"unused", "held", "gone"}]
    <3>1. leaseAt \in [ProbeLeases -> {"unused", "held"}]
      BY DEF LiveInit
    <3> QED BY <3>1
  <2> QED BY <2>1 DEF LiveInit, LiveTypeOK, Calls
<1>2. /\ NothingBefore /\ OneLease /\ OneSession /\ NamesAreKept /\ ReleasesAreCounted
      /\ ReportStays
  BY DEF LiveInit, NothingBefore, OneLease, OneSession, NamesAreKept, ReleasesAreCounted,
         ReportStays, Unfailed, Calls
<1> QED BY <1>1, <1>2 DEF LiveInv

\* What a grant does to the Gateway's variables.
LEMMA GrantTypes ==
  ASSUME LiveTypeOK, NEW l \in ProbeLeases, NEW proven, NEW aliases \in SUBSET ProbeLeases,
         GatewayGrant(l, proven, aliases)
  PROVE  /\ leaseAt' \in [ProbeLeases -> {"unused", "held", "gone"}]
         /\ lateAcquire' = lateAcquire /\ lateAcquire' \in BOOLEAN
         /\ granted' = granted \cup {l} /\ granted' \subseteq ProbeLeases
         /\ named' = named \cup aliases \cup ({proven} \ {NoAnswer})
         /\ named' \subseteq ProbeLeases
         /\ \A k \in ProbeLeases : leaseAt[k] = "gone" => leaseAt'[k] = "gone"
<1>1. proven \in ProbeLeases \cup {NoAnswer}
  BY DEF GatewayGrant
<1>2. /\ leaseAt' \in [ProbeLeases -> {"unused", "held", "gone"}]
      /\ \A k \in ProbeLeases : leaseAt[k] = "gone" => leaseAt'[k] = "gone"
  BY DEF GatewayGrant, LiveTypeOK
<1>3. lateAcquire' = lateAcquire /\ lateAcquire' \in BOOLEAN
  BY DEF GatewayGrant, LiveTypeOK
<1>4. granted' = granted \cup {l} /\ granted' \subseteq ProbeLeases
  BY DEF GatewayGrant, LiveTypeOK
<1>5. named' = named \cup aliases \cup ({proven} \ {NoAnswer}) /\ named' \subseteq ProbeLeases
  BY <1>1 DEF GatewayGrant, LiveTypeOK
<1> QED BY ONLY <1>2, <1>3, <1>4, <1>5

LEMMA AcquireOnceKeepsInv ==
  ASSUME LiveInv, AcquireOnce
  PROVE  LiveInv'
<1> USE LiveAssumption DEF LiveInv, LiveTypeOK, NothingBefore, Unfailed, OneLease, OneSession,
        NamesAreKept, ReleasesAreCounted, ReportStays, Calls
<1>1. CASE /\ LoseAcquire /\ FailClosed
           /\ UNCHANGED <<own, toRelease, unresolved, spawned, session, tried, unreleased,
                          report>>
  BY <1>1 DEF AcquireOnce, LoseAcquire, FailClosed
<1>2. ASSUME NEW l \in ProbeLeases, NEW aliases \in SUBSET ProbeLeases,
             GatewayGrant(l, NoAnswer, aliases), FailClosed,
             UNCHANGED <<own, toRelease, unresolved, spawned, session, tried, unreleased,
                         report>>
      PROVE  LiveInv'
  BY <1>2 DEF AcquireOnce, GatewayGrant, HeldLeases, FailClosed
<1>3. ASSUME NEW l \in ProbeLeases, NEW aliases \in SUBSET ProbeLeases,
             GatewayGrant(l, l, aliases),
             own' = l, toRelease' = {l}, unresolved' = aliases,
             IF aliases = {} THEN ToCall("duplicate") ELSE FailClosed,
             UNCHANGED <<spawned, session, tried, unreleased, report>>
      PROVE  LiveInv'
  <2>1. LiveTypeOK'
    <3>1. /\ leaseAt' \in [ProbeLeases -> {"unused", "held", "gone"}]
          /\ lateAcquire' \in BOOLEAN
          /\ granted' \subseteq ProbeLeases /\ named' \subseteq ProbeLeases
      BY ONLY <1>3, LiveInv, GrantTypes DEF LiveInv
    <3>2. probeAt' \in Calls /\ failed' \in BOOLEAN
      BY ONLY <1>3, LiveInv DEF LiveInv, LiveTypeOK, ToCall, FailClosed, Calls
    <3>3. probeAt = "acquire"
      BY ONLY AcquireOnce DEF AcquireOnce
    <3>4. tried' \subseteq toRelease'
      BY ONLY <1>3, <3>3, LiveInv
         DEF LiveInv, LiveTypeOK, ReleasesAreCounted, NothingBefore, Calls
    <3>5. /\ own' \in ProbeLeases \cup {NoAnswer}
          /\ toRelease' \subseteq ProbeLeases /\ unresolved' \subseteq ProbeLeases
      BY ONLY <1>3
    <3>6. /\ spawned' \subseteq ProbeSessions /\ session' \in ProbeSessions \cup {NoAnswer}
          /\ unreleased' \in BOOLEAN
          /\ report' \in [status : {"none", "pass", "fail_closed"},
                          released : {"none", "true", "false", "not_required"}]
      BY ONLY <1>3, LiveInv DEF LiveInv, LiveTypeOK
    <3> QED BY ONLY <3>1, <3>2, <3>4, <3>5, <3>6 DEF LiveTypeOK
  <2>2. (NothingBefore /\ OneLease /\ OneSession)'
    BY <1>3 DEF AcquireOnce, GatewayGrant, HeldLeases, FailClosed, ToCall
  <2>3. (NamesAreKept /\ ReleasesAreCounted /\ ReportStays)'
    BY <1>3 DEF AcquireOnce, GatewayGrant, HeldLeases, FailClosed, ToCall
  <2> QED BY ONLY <2>1, <2>2, <2>3 DEF LiveInv
<1> QED BY ONLY <1>1, <1>2, <1>3, AcquireOnce DEF AcquireOnce

LEMMA DuplicateAcquireKeepsInv ==
  ASSUME LiveInv, DuplicateAcquire
  PROVE  LiveInv'
<1> USE LiveAssumption DEF LiveInv, LiveTypeOK, NothingBefore, Unfailed, OneLease, OneSession,
        NamesAreKept, ReleasesAreCounted, ReportStays, Calls
<1>1. LiveTypeOK'
  <2>1. /\ UNCHANGED <<spawned, own, session, tried, unreleased, report>>
        /\ probeAt' \in Calls /\ failed' \in BOOLEAN
    BY ONLY DuplicateAcquire, LiveInv
       DEF DuplicateAcquire, LiveInv, LiveTypeOK, FailClosed, ToCall, Calls
  <2>2. /\ toRelease' \subseteq ProbeLeases /\ unresolved' \subseteq ProbeLeases
        /\ toRelease \subseteq toRelease'
    BY ONLY DuplicateAcquire, LiveInv DEF DuplicateAcquire, LiveInv, LiveTypeOK
  <2>3. \/ LoseAcquire
        \/ \E l \in ProbeLeases, aliases \in SUBSET ProbeLeases :
             GatewayGrant(l, NoAnswer, aliases) \/ GatewayGrant(l, l, aliases)
    BY ONLY DuplicateAcquire DEF DuplicateAcquire
  <2>4. /\ leaseAt' \in [ProbeLeases -> {"unused", "held", "gone"}]
        /\ lateAcquire' \in BOOLEAN
        /\ granted' \subseteq ProbeLeases /\ named' \subseteq ProbeLeases
    <3>1. CASE LoseAcquire
      BY ONLY <3>1, LiveInv DEF LoseAcquire, LiveInv, LiveTypeOK
    <3>2. CASE \E l \in ProbeLeases, aliases \in SUBSET ProbeLeases :
                 GatewayGrant(l, NoAnswer, aliases) \/ GatewayGrant(l, l, aliases)
      BY ONLY <3>2, LiveInv, GrantTypes DEF LiveInv
    <3> QED BY ONLY <2>3, <3>1, <3>2
  <2>5. tried' \subseteq toRelease'
    BY ONLY <2>1, <2>2, LiveInv DEF LiveInv, LiveTypeOK
  <2> QED BY ONLY <2>1, <2>2, <2>4, <2>5, LiveInv DEF LiveInv, LiveTypeOK
<1>2. (NothingBefore /\ OneLease /\ OneSession)'
  BY DEF DuplicateAcquire, LoseAcquire, FailClosed, ToCall, GatewayGrant, HeldLeases
<1>3. (NamesAreKept /\ ReleasesAreCounted /\ ReportStays)'
  BY DEF DuplicateAcquire, LoseAcquire, FailClosed, ToCall, GatewayGrant, HeldLeases
<1> QED BY ONLY <1>1, <1>2, <1>3 DEF LiveInv

LEMMA ReadSessionKeepsInv ==
  ASSUME LiveInv, ReadSession
  PROVE  LiveInv'
<1>1. /\ probeAt \in {"sessions_list", "session_status", "sessions_history"}
      /\ \/ probeAt' \in {"session_status", "sessions_history", "cleanup"} /\ failed' = failed
         \/ FailClosed
      /\ UNCHANGED <<gatewayLeases, spawned, own, toRelease, unresolved, session, tried,
                     unreleased, report>>
  BY DEF ReadSession, NextRead, ToCall
<1> USE DEF LiveInv, LiveTypeOK, NothingBefore, Unfailed, OneLease, OneSession,
        NamesAreKept, ReleasesAreCounted, ReportStays, Calls, FailClosed, gatewayLeases
<1>2. LiveTypeOK'
  BY ONLY <1>1, LiveInv
<1>3. NothingBefore'
  BY ONLY <1>1, LiveInv
<1>4. OneLease' /\ OneSession'
  BY ONLY <1>1, LiveInv
<1>5. NamesAreKept' /\ ReleasesAreCounted' /\ ReportStays'
  BY ONLY <1>1, LiveInv
<1> QED BY ONLY <1>2, <1>3, <1>4, <1>5 DEF LiveInv

LEMMA ReleaseLeaseKeepsInv ==
  ASSUME LiveInv, NEW l \in ProbeLeases, ReleaseLease(l)
  PROVE  LiveInv'
<1> USE DEF LiveInv, LiveTypeOK, NothingBefore, Unfailed, OneLease, OneSession,
        NamesAreKept, ReleasesAreCounted, ReportStays, Calls, ReleaseLease, LeftToRelease
<1>1. LiveTypeOK'
  <2>1. leaseAt' \in [ProbeLeases -> {"unused", "held", "gone"}]
    OBVIOUS
  <2>2. tried' \subseteq toRelease' /\ unreleased' \in BOOLEAN
    OBVIOUS
  <2>3. UNCHANGED <<lateAcquire, granted, named, spawned, probeAt, own, toRelease, unresolved,
                    session, failed, report>>
    OBVIOUS
  <2> QED BY ONLY <2>1, <2>2, <2>3, LiveTypeOK DEF LiveTypeOK
<1>2. ReleasesAreCounted'
  OBVIOUS
<1>3. (NothingBefore /\ OneLease /\ OneSession /\ NamesAreKept /\ ReportStays)'
  OBVIOUS
<1> QED BY ONLY <1>1, <1>2, <1>3 DEF LiveInv

LEMMA LiveStep == LiveInv /\ [LiveNext]_liveVars => LiveInv'
<1> SUFFICES ASSUME LiveInv, [LiveNext]_liveVars
             PROVE  LiveInv'
  OBVIOUS
<1> USE LiveAssumption DEF LiveInv, LiveTypeOK, NothingBefore, Unfailed, OneLease, OneSession,
        NamesAreKept, ReleasesAreCounted, ReportStays, Calls
<1>1. ASSUME NEW l \in ProbeLeases, ApplyLate(l)
      PROVE  LiveInv'
  <2> USE <1>1 DEF ApplyLate
  <2>1. LiveTypeOK'
    OBVIOUS
  <2>2. (NothingBefore /\ OneLease)'
    OBVIOUS
  <2>3. (OneSession /\ NamesAreKept)'
    OBVIOUS
  <2>4. (ReleasesAreCounted /\ ReportStays)'
    OBVIOUS
  <2> QED BY ONLY <2>1, <2>2, <2>3, <2>4 DEF LiveInv
<1>2. ASSUME NEW l \in ProbeLeases, Expire(l)
      PROVE  LiveInv'
  BY <1>2 DEF Expire
<1>3. CASE BeginProbe
  BY <1>3 DEF BeginProbe, gatewayLeases
<1>4. CASE LeaseStatus
  BY <1>4 DEF LeaseStatus, FailClosed, ToCall, HeldLeases, gatewayLeases
<1>5. CASE SpawnOnce
  <2> USE <1>5 DEF SpawnOnce, FailClosed, ToCall, gatewayLeases
  <2>1. LiveTypeOK'
    OBVIOUS
  <2>2. (NothingBefore /\ OneLease)'
    OBVIOUS
  <2>3. OneSession'
    OBVIOUS
  <2>4. (NamesAreKept /\ ReleasesAreCounted /\ ReportStays)'
    OBVIOUS
  <2> QED BY ONLY <2>1, <2>2, <2>3, <2>4 DEF LiveInv
<1>6. CASE DuplicateSpawn
  <2> USE <1>6 DEF DuplicateSpawn, FailClosed, ToCall, gatewayLeases
  <2>1. LiveTypeOK'
    OBVIOUS
  <2>2. (NothingBefore /\ OneLease)'
    OBVIOUS
  <2>3. OneSession'
    OBVIOUS
  <2>4. (NamesAreKept /\ ReleasesAreCounted /\ ReportStays)'
    OBVIOUS
  <2> QED BY ONLY <2>1, <2>2, <2>3, <2>4 DEF LiveInv
<1>7. CASE Report
  BY <1>7 DEF Report, LeftToRelease, gatewayLeases
<1>8. CASE UNCHANGED liveVars
  BY <1>8 DEF liveVars, gatewayLeases
<1> QED BY ONLY <1>1, <1>2, <1>3, <1>4, <1>5, <1>6, <1>7, <1>8, LiveInv,
           [LiveNext]_liveVars, AcquireOnceKeepsInv, DuplicateAcquireKeepsInv,
           ReadSessionKeepsInv, ReleaseLeaseKeepsInv DEF LiveNext

\* A pass of openclaw-live-accepted-session-probe.py means that the Gateway
\* gave one lease and one session and that the lease is gone; a named lease
\* is gone, unresolved or not reported released; and where a release is said
\* not to be required nothing was given.  For any leases and sessions, those of an earlier run
\* included, and whatever the answers are and however late they come.
THEOREM LiveReportStaysTrue == LiveSpec => []LiveReportIsTrue
<1>1. LiveSpec => []LiveInv
  BY LiveInitInv, LiveStep, PTL DEF LiveSpec
<1>2. LiveInv => LiveReportIsTrue
  BY DEF LiveInv, LiveTypeOK, ReportStays, LiveReportIsTrue
<1> QED BY <1>1, <1>2, PTL

-----------------------------------------------------------------------------
(* The tool catalog *)

Later(plan, k, task) == \E m \in DOMAIN plan : m > k /\ plan[m] = task

\* What the order of the steps makes sure of, whatever is left of a plan.
WellPlanned(plan) ==
  \A k \in DOMAIN plan :
    /\ plan[k] \in {"bind", "identity", "digest"} <=> Later(plan, k, "catalog")
    /\ plan[k] = "status" => k + 1 \in DOMAIN plan /\ plan[k + 1] = "refusal"
    /\ plan[k] \in {"status", "refusal"} => Later(plan, k, "same_identity")
    /\ plan[k] \in Scans => Later(plan, k, "same_sources")
    /\ plan[k] \in {"catalog", "result", "finalize"} => k = Len(plan)

Ahead(task) == Later(todo, 0, task)

\* A step that this file still has before it.
AheadOf(f, steps) ==
  \E k \in DOMAIN todo : todo[k] \in steps /\ (k = 1 => f \notin looked)

\* Contents are only ever replaced by newer ones.
DigestsAreOldest ==
  /\ identity <= executable /\ \A f \in SourceFiles : digest[f] <= content[f]
  /\ \A e \in ranBy : identity <= e /\ e <= executable
  /\ \A f \in SourceFiles : \A c \in scanned[f] : digest[f] <= c /\ c <= content[f]

NothingBeforeCall ==
  Ahead("catalog") => ranBy = {} /\ \A f \in SourceFiles : scanned[f] = {}

\* Whatever ran or was read is compared with the digests before the result.
ComparedBeforeResult ==
  Ahead("result") =>
    /\ ranBy \subseteq {identity} \/ Ahead("same_identity")
    /\ \A f \in SourceFiles :
         /\ scanned[f] \subseteq {digest[f]} \/ AheadOf(f, {"same_sources"})
         /\ scanned[f] # {} \/ AheadOf(f, Scans)

ResultIsBound ==
  payload \in {"pass", "listed"} =>
    /\ todo \in {<<>>, <<"finalize">>}
    /\ ranBy \subseteq {identity}
    /\ \A f \in SourceFiles : scanned[f] = {digest[f]}

HeadsFollowBinding ==
  /\ binding # 0 => binding \in heads /\ \A h \in heads : binding <= h /\ h <= head
  /\ written # "none" => todo = <<>> /\ heads = {binding}

CatalogInv ==
  /\ CatalogTypeOK /\ WellPlanned(todo)
  /\ DigestsAreOldest /\ NothingBeforeCall /\ ComparedBeforeResult /\ ResultIsBound
  /\ HeadsFollowBinding

LEMMA TailOfPlan ==
  ASSUME NEW plan \in Seq(CatalogSteps), plan # <<>>
  PROVE  /\ Tail(plan) \in Seq(CatalogSteps)
         /\ Len(plan) \in Nat \ {0} /\ DOMAIN plan = 1 .. Len(plan)
         /\ Head(plan) = plan[1]
         /\ Len(Tail(plan)) = Len(plan) - 1 /\ DOMAIN Tail(plan) = 1 .. Len(plan) - 1
         /\ \A k \in 1 .. Len(plan) - 1 : Tail(plan)[k] = plan[k + 1]
  OBVIOUS

LEMMA LaterInTail ==
  ASSUME NEW plan \in Seq(CatalogSteps), plan # <<>>, NEW k \in Nat, NEW task
  PROVE  Later(Tail(plan), k, task) <=> Later(plan, k + 1, task)
<1>1. Later(Tail(plan), k, task) => Later(plan, k + 1, task)
  <2> SUFFICES ASSUME NEW m \in DOMAIN Tail(plan), m > k, Tail(plan)[m] = task
               PROVE  \E n \in DOMAIN plan : n > k + 1 /\ plan[n] = task
    BY DEF Later
  <2> WITNESS m + 1 \in DOMAIN plan
  <2> QED BY TailOfPlan
<1>2. Later(plan, k + 1, task) => Later(Tail(plan), k, task)
  <2> SUFFICES ASSUME NEW m \in DOMAIN plan, m > k + 1, plan[m] = task
               PROVE  \E n \in DOMAIN Tail(plan) : n > k /\ Tail(plan)[n] = task
    BY DEF Later
  <2>1. m - 1 \in DOMAIN Tail(plan)
    BY TailOfPlan
  <2>2. m - 1 > k /\ Tail(plan)[m - 1] = task
    BY <2>1, TailOfPlan
  <2> QED BY <2>1, <2>2
<1> QED BY <1>1, <1>2

LEMMA TailIsPlanned ==
  ASSUME NEW plan \in Seq(CatalogSteps), plan # <<>>, WellPlanned(plan)
  PROVE  WellPlanned(Tail(plan))
<1> SUFFICES ASSUME NEW k \in DOMAIN Tail(plan)
             PROVE  LET rest == Tail(plan)
                    IN  /\ rest[k] \in {"bind", "identity", "digest"} <=> Later(rest, k, "catalog")
                        /\ rest[k] = "status" => k + 1 \in DOMAIN rest /\ rest[k + 1] = "refusal"
                        /\ rest[k] \in {"status", "refusal"} => Later(rest, k, "same_identity")
                        /\ rest[k] \in Scans => Later(rest, k, "same_sources")
                        /\ rest[k] \in {"catalog", "result", "finalize"} => k = Len(rest)
  BY DEF WellPlanned
<1>1. k \in Nat /\ k + 1 \in DOMAIN plan /\ Tail(plan)[k] = plan[k + 1]
  BY TailOfPlan
<1>2. \A task : Later(Tail(plan), k, task) <=> Later(plan, k + 1, task)
  BY <1>1, LaterInTail
<1>3. plan[k + 1] = "status" => k + 1 \in DOMAIN Tail(plan) /\ Tail(plan)[k + 1] = "refusal"
  <2> SUFFICES ASSUME plan[k + 1] = "status"
               PROVE  k + 1 \in DOMAIN Tail(plan) /\ Tail(plan)[k + 1] = "refusal"
    OBVIOUS
  <2>1. k + 1 + 1 \in DOMAIN plan /\ plan[k + 1 + 1] = "refusal"
    BY <1>1 DEF WellPlanned
  <2> QED BY <1>1, <2>1, TailOfPlan
<1>4. plan[k + 1] \in {"catalog", "result", "finalize"} => k = Len(Tail(plan))
  <2>1. plan[k + 1] \in {"catalog", "result", "finalize"} => k + 1 = Len(plan)
    BY <1>1 DEF WellPlanned
  <2> QED BY <1>1, <2>1, TailOfPlan
<1> QED BY <1>1, <1>2, <1>3, <1>4 DEF WellPlanned

\* The plan after a step: nothing new is ahead, and what was ahead still is
\* unless it was this step.
LEMMA StepLeavesPlan ==
  ASSUME todo \in Seq(CatalogSteps), todo # <<>>, WellPlanned(todo), todo' = Tail(todo)
  PROVE  /\ todo' \in Seq(CatalogSteps) /\ WellPlanned(todo')
         /\ \A task : Ahead(task)' => Ahead(task)
         /\ \A task : Ahead(task) /\ ~AtStep(task) => Ahead(task)'
<1>1. \A task : Ahead(task)' <=> Later(todo, 1, task)
  <2> SUFFICES ASSUME NEW task
               PROVE  Ahead(task)' <=> Later(todo, 1, task)
    OBVIOUS
  <2>1. Later(Tail(todo), 0, task) <=> Later(todo, 0 + 1, task)
    BY LaterInTail
  <2> QED BY <2>1 DEF Ahead, Later
<1>2. \A task : Later(todo, 1, task) => Ahead(task)
  BY TailOfPlan DEF Later, Ahead
<1>3. \A task : Ahead(task) /\ ~AtStep(task) => Later(todo, 1, task)
  BY TailOfPlan DEF Later, Ahead, AtStep
<1> QED BY <1>1, <1>2, <1>3, TailIsPlanned, TailOfPlan

\* A step that is over for one file is not over for the others.
LEMMA StepLeavesFile ==
  ASSUME todo \in Seq(CatalogSteps), todo # <<>>, todo' = Tail(todo), looked' = {},
         NEW f, NEW steps, AheadOf(f, steps), Head(todo) \notin steps \/ f \in looked
  PROVE  AheadOf(f, steps)'
<1> PICK k \in DOMAIN todo : todo[k] \in steps /\ (k = 1 => f \notin looked)
  BY DEF AheadOf
<1>1. k # 1
  BY TailOfPlan
<1>2. k - 1 \in DOMAIN todo' /\ todo'[k - 1] = todo[k]
  BY <1>1, TailOfPlan
<1> QED BY <1>2 DEF AheadOf

LEMMA LookLeavesPlan ==
  ASSUME CatalogTypeOK, todo # <<>>, WellPlanned(todo), NEW g \in SourceFiles, LookAt(g)
  PROVE  /\ todo' \in Seq(CatalogSteps) /\ WellPlanned(todo') /\ looked' \subseteq SourceFiles
         /\ \A task : Ahead(task)' => Ahead(task)
         /\ \A task : Ahead(task) /\ ~AtStep(task) => Ahead(task)'
<1>1. CASE StepDone
  BY <1>1, StepLeavesPlan DEF StepDone, CatalogTypeOK
<1>2. CASE looked' = looked \cup {g} /\ UNCHANGED todo
  BY <1>2 DEF CatalogTypeOK, Ahead
<1> QED BY <1>1, <1>2 DEF LookAt

LEMMA LookLeavesFile ==
  ASSUME CatalogTypeOK, todo # <<>>, NEW g \in SourceFiles, LookAt(g),
         NEW f \in SourceFiles, NEW steps, AheadOf(f, steps), Head(todo) \notin steps \/ f # g
  PROVE  AheadOf(f, steps)'
<1>1. CASE looked \cup {g} = SourceFiles
  BY <1>1, StepLeavesFile DEF LookAt, StepDone, CatalogTypeOK
<1>2. CASE looked \cup {g} # SourceFiles
  BY <1>2, TailOfPlan DEF LookAt, AheadOf, CatalogTypeOK
<1> QED BY <1>1, <1>2

LEMMA PlansArePlanned ==
  /\ CaptureSteps \in Seq(CatalogSteps) /\ WellPlanned(CaptureSteps)
  /\ MainSteps \in Seq(CatalogSteps) /\ WellPlanned(MainSteps)
  /\ SplitSteps \in Seq(CatalogSteps) /\ WellPlanned(SplitSteps)
  /\ <<"finalize">> \in Seq(CatalogSteps) /\ WellPlanned(<<"finalize">>)
  /\ <<>> \in Seq(CatalogSteps) /\ WellPlanned(<<>>)
<1>1. ASSUME NEW plan, plan = CaptureSteps
      PROVE  plan \in Seq(CatalogSteps) /\ WellPlanned(plan)
  <2>1. plan \in Seq(CatalogSteps) /\ Len(plan) = 4
    BY <1>1 DEF CaptureSteps, CatalogSteps
  <2>2. /\ plan[1] = "bind" /\ plan[2] = "identity"
        /\ plan[3] = "digest" /\ plan[4] = "catalog"
    BY <1>1 DEF CaptureSteps
  <2>3. \A k \in {1, 2, 3} : Later(plan, k, "catalog")
    BY <2>1, <2>2 DEF Later
  <2>4. ~Later(plan, 4, "catalog")
    BY <2>1, <2>2 DEF Later
  <2> QED BY <2>1, <2>2, <2>3, <2>4 DEF WellPlanned, Scans
<1>2. ASSUME NEW plan, plan = MainSteps
      PROVE  plan \in Seq(CatalogSteps) /\ WellPlanned(plan)
  <2>1. plan \in Seq(CatalogSteps) /\ Len(plan) = 11
    BY <1>2 DEF MainSteps, CatalogSteps
  <2>2. /\ plan[1] = "same_identity" /\ plan[2] = "schemas"
        /\ plan[3] = "names" /\ plan[4] = "same_sources"
        /\ plan[5] = "same_identity" /\ plan[6] = "same_sources"
        /\ plan[7] = "status" /\ plan[8] = "refusal"
        /\ plan[9] = "same_identity" /\ plan[10] = "same_sources"
        /\ plan[11] = "result"
    BY <1>2 DEF MainSteps
  <2>3. \A k \in {2, 3} : Later(plan, k, "same_sources")
    BY <2>1, <2>2 DEF Later
  <2>4. \A k \in {7, 8} : Later(plan, k, "same_identity")
    BY <2>1, <2>2 DEF Later
  <2>5. \A k : ~Later(plan, k, "catalog")
    BY <2>1, <2>2 DEF Later
  <2> QED BY <2>1, <2>2, <2>3, <2>4, <2>5 DEF WellPlanned, Scans
<1>3. ASSUME NEW plan, plan = SplitSteps
      PROVE  plan \in Seq(CatalogSteps) /\ WellPlanned(plan)
  <2>1. plan \in Seq(CatalogSteps) /\ Len(plan) = 8
    BY <1>3 DEF SplitSteps, CatalogSteps
  <2>2. /\ plan[1] = "schemas" /\ plan[2] = "names"
        /\ plan[3] = "same_sources" /\ plan[4] = "status"
        /\ plan[5] = "refusal" /\ plan[6] = "same_sources"
        /\ plan[7] = "same_identity" /\ plan[8] = "result"
    BY <1>3 DEF SplitSteps
  <2>3. \A k \in {1, 2} : Later(plan, k, "same_sources")
    BY <2>1, <2>2 DEF Later
  <2>4. \A k \in {4, 5} : Later(plan, k, "same_identity")
    BY <2>1, <2>2 DEF Later
  <2>5. \A k : ~Later(plan, k, "catalog")
    BY <2>1, <2>2 DEF Later
  <2> QED BY <2>1, <2>2, <2>3, <2>4, <2>5 DEF WellPlanned, Scans
<1>4. ASSUME NEW plan, plan = <<"finalize">> \/ plan = <<>>
      PROVE  plan \in Seq(CatalogSteps) /\ WellPlanned(plan)
  <2>1. CASE plan = <<"finalize">>
    <3>1. plan \in Seq(CatalogSteps) /\ Len(plan) = 1 /\ plan[1] = "finalize"
      BY <2>1 DEF CatalogSteps
    <3>2. \A k : ~Later(plan, k, "catalog")
      BY <3>1 DEF Later
    <3> QED BY <3>1, <3>2 DEF WellPlanned, Scans
  <2>2. CASE plan = <<>>
    BY <2>2 DEF WellPlanned
  <2> QED BY <1>4, <2>1, <2>2
<1> QED BY <1>1, <1>2, <1>3, <1>4

\* What is left before the call and before the result
LEMMA AheadOfStep ==
  ASSUME todo \in Seq(CatalogSteps), WellPlanned(todo), todo # <<>>
  PROVE  /\ Head(todo) \in {"bind", "identity", "digest"} => Ahead("catalog")
         /\ AtStep("catalog") => Ahead("catalog")
         /\ Head(todo) \in {"bind", "identity", "digest", "catalog"} => ~Ahead("result")
         /\ Head(todo) \in {"status", "refusal"} => Ahead("same_identity")
         /\ Head(todo) \in Scans => \E k \in DOMAIN todo : k > 1 /\ todo[k] = "same_sources"
         /\ AtStep("result") => Len(todo) = 1 /\ Ahead("result")
         /\ AtStep("status") => 2 \in DOMAIN todo /\ todo[2] = "refusal"
         /\ ~(Ahead("catalog") /\ Ahead("result"))
         /\ Head(todo) \notin {"bind", "identity", "digest", "catalog"} => ~Ahead("catalog")
<1> USE TailOfPlan
<1>1. 1 \in DOMAIN todo /\ Head(todo) = todo[1]
  OBVIOUS
<1>2. /\ Head(todo) \in {"bind", "identity", "digest"} => Ahead("catalog")
      /\ AtStep("catalog") => Ahead("catalog")
      /\ Head(todo) \in {"status", "refusal"} => Ahead("same_identity")
  BY <1>1 DEF WellPlanned, Later, Ahead, AtStep
<1>3. Head(todo) \in Scans => \E k \in DOMAIN todo : k > 1 /\ todo[k] = "same_sources"
  BY <1>1 DEF WellPlanned, Later
<1>4. ~(Ahead("catalog") /\ Ahead("result"))
  BY DEF WellPlanned, Later, Ahead
<1>5. AtStep("result") => Len(todo) = 1 /\ Ahead("result")
  <2>1. AtStep("result") => Len(todo) = 1
    BY <1>1 DEF WellPlanned, AtStep
  <2>2. AtStep("result") => Ahead("result")
    BY <1>1 DEF AtStep, Later, Ahead
  <2> QED BY <2>1, <2>2
<1>6. AtStep("status") => 2 \in DOMAIN todo /\ todo[2] = "refusal"
  BY <1>1 DEF WellPlanned, AtStep
<1>7. Head(todo) \notin {"bind", "identity", "digest", "catalog"} => ~Ahead("catalog")
  BY <1>1 DEF WellPlanned, Later, Ahead
<1> QED BY ONLY <1>2, <1>3, <1>4, <1>5, <1>6, <1>7, todo # <<>> DEF AtStep

\* Nothing is ahead of the last step but itself.
LEMMA FinalizeAlone ==
  ASSUME todo' = <<"finalize">> \/ todo' = <<>>
  PROVE  /\ todo' \in Seq(CatalogSteps) /\ WellPlanned(todo')
         /\ NothingBeforeCall' /\ ComparedBeforeResult'
<1>1. ~Ahead("catalog")' /\ ~Ahead("result")'
  BY DEF Ahead, Later
<1> QED BY <1>1, PlansArePlanned DEF NothingBeforeCall, ComparedBeforeResult

LEMMA FoundNothingKeepsInv ==
  ASSUME CatalogInv, todo # <<>>, FoundNothing, DigestsAreOldest',
         UNCHANGED <<installed, worktree, binding, split, corroborated, written>>,
         identity' \in FileVersions \cup {0},
         digest' \in [SourceFiles -> FileVersions \cup {0}],
         ranBy' \subseteq FileVersions, scanned' \in [SourceFiles -> SUBSET FileVersions]
  PROVE  CatalogInv'
<1> USE DEF CatalogInv, FoundNothing, worktree, installed
<1>1. CatalogTypeOK'
  BY FinalizeAlone DEF CatalogTypeOK, Payloads
<1>2. ResultIsBound' /\ HeadsFollowBinding'
  BY DEF ResultIsBound, HeadsFollowBinding
<1> QED BY <1>1, <1>2, FinalizeAlone

LEMMA CatalogInitInv == CatalogInit => CatalogInv
<1> SUFFICES ASSUME CatalogInit
             PROVE  CatalogInv
  OBVIOUS
<1> USE CatalogAssumption DEF CatalogInit
<1>1. CatalogTypeOK
  <2>1. 1 \in FileVersions
    BY DEF FileVersions
  <2> QED BY <2>1, PlansArePlanned DEF CatalogTypeOK, Payloads
<1>2. ~Ahead("result")
  BY DEF Ahead, Later, CaptureSteps
<1> QED BY <1>1, <1>2, PlansArePlanned
        DEF CatalogInv, DigestsAreOldest, NothingBeforeCall,
           ComparedBeforeResult, ResultIsBound, HeadsFollowBinding

LEMMA UpgradeKeepsInv ==
  ASSUME CatalogInv, Upgrade
  PROVE  CatalogInv'
<1> USE CatalogAssumption DEF CatalogInv, Upgrade, ReplaceExecutable, ReplaceSource, worktree,
        captured
<1>1. CatalogTypeOK' /\ WellPlanned(todo)'
  BY DEF CatalogTypeOK, FileVersions
<1>2. DigestsAreOldest'
  <2>1. ranBy \subseteq Nat /\ \A f \in SourceFiles : scanned[f] \subseteq Nat
    BY DEF CatalogTypeOK, FileVersions
  <2>2. executable' >= executable /\ \A f \in SourceFiles : content'[f] >= content[f]
    BY DEF CatalogTypeOK, FileVersions
  <2>3. /\ executable \in Nat /\ executable' \in Nat /\ identity \in Nat
        /\ \A f \in SourceFiles : digest[f] \in Nat /\ content[f] \in Nat /\ content'[f] \in Nat
    BY <1>1 DEF CatalogTypeOK, FileVersions
  <2>4. \A e \in ranBy : identity <= e /\ e <= executable'
    BY <2>1, <2>2, <2>3 DEF DigestsAreOldest
  <2>5. ASSUME NEW f \in SourceFiles, NEW c \in scanned[f]
        PROVE  digest[f] <= c /\ c <= content'[f]
    <3>1. c \in Nat /\ digest[f] <= c /\ c <= content[f]
      BY <2>1 DEF DigestsAreOldest
    <3> QED BY <2>2, <2>3, <3>1
  <2>6. identity <= executable' /\ \A f \in SourceFiles : digest[f] <= content'[f]
    BY <2>2, <2>3 DEF DigestsAreOldest
  <2> QED BY <2>4, <2>5, <2>6 DEF DigestsAreOldest
<1>3. NothingBeforeCall' /\ ComparedBeforeResult' /\ ResultIsBound' /\ HeadsFollowBinding'
  BY DEF NothingBeforeCall, ComparedBeforeResult, ResultIsBound, HeadsFollowBinding,
         Ahead, AheadOf
<1> QED BY <1>1, <1>2, <1>3

LEMMA WorktreeKeepsInv ==
  ASSUME CatalogInv, ChangeWorktree
  PROVE  CatalogInv'
<1> USE CatalogAssumption DEF CatalogInv, ChangeWorktree, installed, captured
<1>3. DigestsAreOldest' /\ NothingBeforeCall' /\ ComparedBeforeResult' /\ ResultIsBound'
  BY DEF DigestsAreOldest, NothingBeforeCall, ComparedBeforeResult, ResultIsBound, Ahead,
         AheadOf
<1>1. CASE dirty' = ~dirty /\ UNCHANGED <<head, heads>>
  <2>1. CatalogTypeOK' /\ WellPlanned(todo)'
    BY <1>1 DEF CatalogTypeOK
  <2>2. HeadsFollowBinding'
    BY <1>1 DEF HeadsFollowBinding
  <2> QED BY <2>1, <2>2, <1>3
<1>2. CASE /\ head < MaxVersion /\ dirty' = FALSE /\ head' = head + 1
           /\ heads' = IF binding # 0 /\ todo # <<>> THEN heads \cup {head'} ELSE heads
  <2>1. head \in Nat /\ head' \in FileVersions /\ heads \subseteq Nat /\ binding \in Nat
    BY <1>2 DEF CatalogTypeOK, FileVersions
  <2>2. CatalogTypeOK' /\ WellPlanned(todo)'
    BY <1>2, <2>1 DEF CatalogTypeOK
  <2>3. HeadsFollowBinding'
    BY <1>2, <2>1 DEF HeadsFollowBinding
  <2> QED BY <2>2, <2>3, <1>3
<1> QED BY <1>1, <1>2

LEMMA ResultNotYet ==
  ASSUME CatalogInv, todo # <<>>, ~AtStep("finalize")
  PROVE  payload \notin {"pass", "listed"} /\ written = "none"
<1>1. todo # <<"finalize">>
  BY DEF AtStep
<1> QED BY <1>1 DEF CatalogInv, ResultIsBound, HeadsFollowBinding

\* A step that leaves what was read alone keeps what is ahead of it; what ran
\* meanwhile is compared later.
LEMMA StepKeepsInv ==
  ASSUME CatalogInv, todo # <<>>, StepDone,
         Head(todo) \notin Scans \cup {"same_identity", "same_sources", "result", "finalize"},
         CatalogTypeOK', DigestsAreOldest', HeadsFollowBinding',
         UNCHANGED <<scanned, payload>>,
         UNCHANGED <<ranBy, identity>> \/ Ahead("same_identity") \/ ~Ahead("result"),
         ranBy' = {} \/ ~Ahead("catalog"),
         digest' = digest \/ ~Ahead("result")
  PROVE  CatalogInv'
<1> USE DEF CatalogInv
<1>1. /\ todo \in Seq(CatalogSteps) /\ todo' = Tail(todo) /\ looked' = {}
  BY DEF CatalogTypeOK, StepDone
<1>2. /\ todo' \in Seq(CatalogSteps) /\ WellPlanned(todo')
      /\ \A task : Ahead(task)' => Ahead(task)
      /\ \A task : Ahead(task) /\ ~AtStep(task) => Ahead(task)'
  BY <1>1, StepLeavesPlan
<1>3. NothingBeforeCall'
  BY <1>2 DEF NothingBeforeCall
<1>4. ComparedBeforeResult'
  <2> SUFFICES ASSUME Ahead("result")'
               PROVE  /\ ranBy' \subseteq {identity'} \/ Ahead("same_identity")'
                      /\ \A f \in SourceFiles :
                           /\ scanned'[f] \subseteq {digest'[f]} \/ AheadOf(f, {"same_sources"})'
                           /\ scanned'[f] # {} \/ AheadOf(f, Scans)'
    BY DEF ComparedBeforeResult
  <2>1. Ahead("result") /\ digest' = digest
    BY <1>2
  <2>2. Ahead("same_identity") => Ahead("same_identity")'
    BY <1>2 DEF AtStep
  <2>3. ranBy' \subseteq {identity'} \/ Ahead("same_identity")'
    BY <2>1, <2>2 DEF ComparedBeforeResult
  <2>4. ASSUME NEW f \in SourceFiles
        PROVE  /\ AheadOf(f, {"same_sources"}) => AheadOf(f, {"same_sources"})'
               /\ AheadOf(f, Scans) => AheadOf(f, Scans)'
    BY <1>1, StepLeavesFile
  <2> QED BY <2>1, <2>3, <2>4 DEF ComparedBeforeResult
<1>5. ResultIsBound'
  BY ResultNotYet DEF ResultIsBound, AtStep
<1> QED BY <1>2, <1>3, <1>4, <1>5

LEMMA BindingKeepsInv ==
  ASSUME CatalogInv, CaptureBinding
  PROVE  CatalogInv'
<1> USE DEF CatalogInv, CaptureBinding, installed, captured
<1>1. /\ todo # <<>> /\ Head(todo) = "bind" /\ todo \in Seq(CatalogSteps)
      /\ ~Ahead("result") /\ Ahead("catalog") /\ ranBy = {}
      /\ written = "none"
  BY AheadOfStep, ResultNotYet DEF AtStep, CatalogTypeOK, NothingBeforeCall
<1>2. DigestsAreOldest'
  BY DEF DigestsAreOldest
<1>3. HeadsFollowBinding'
  <2>1. head \in Nat
    BY DEF CatalogTypeOK, FileVersions
  <2> QED BY <1>1, <2>1 DEF HeadsFollowBinding
<1>4. CASE StepDone
  <2>1. CatalogTypeOK'
    BY <1>1, <1>4, TailOfPlan DEF CatalogTypeOK, StepDone, FileVersions
  <2> QED BY <1>1, <1>2, <1>3, <1>4, <2>1, StepKeepsInv DEF Scans
<1>5. CASE todo' = <<>> /\ UNCHANGED <<looked, binding, heads>>
  <2>1. CatalogTypeOK'
    BY <1>5, FinalizeAlone DEF CatalogTypeOK
  <2>2. ResultIsBound'
    BY <1>1, ResultNotYet DEF AtStep, ResultIsBound
  <2> QED BY <1>2, <1>3, <1>5, <2>1, <2>2, FinalizeAlone
<1> QED BY <1>4, <1>5

LEMMA IdentityKeepsInv ==
  ASSUME CatalogInv, SnapshotIdentity
  PROVE  CatalogInv'
<1> USE DEF CatalogInv, SnapshotIdentity, installed, worktree
<1>1. /\ todo # <<>> /\ Head(todo) = "identity" /\ todo \in Seq(CatalogSteps)
      /\ ~Ahead("result") /\ Ahead("catalog") /\ ranBy = {}
  BY AheadOfStep DEF AtStep, CatalogTypeOK, NothingBeforeCall
<1>2. CASE identity' = executable /\ StepDone /\ UNCHANGED payload
  <2>1. CatalogTypeOK'
    BY <1>1, <1>2, TailOfPlan DEF CatalogTypeOK, StepDone
  <2>2. DigestsAreOldest' /\ HeadsFollowBinding'
    <3>1. executable \in Nat /\ \A f \in SourceFiles : scanned[f] = {}
      BY <1>1 DEF CatalogTypeOK, FileVersions, NothingBeforeCall
    <3> QED BY <1>1, <1>2, <3>1, ResultNotYet DEF DigestsAreOldest, HeadsFollowBinding, AtStep
  <2> QED BY <1>1, <1>2, <2>1, <2>2, StepKeepsInv DEF Scans
<1>3. CASE FoundNothing /\ UNCHANGED identity
  BY <1>1, <1>3, FoundNothingKeepsInv DEF DigestsAreOldest, CatalogTypeOK
<1> QED BY <1>2, <1>3

LEMMA DigestKeepsInv ==
  ASSUME CatalogInv, NEW f \in SourceFiles, DigestSource(f)
  PROVE  CatalogInv'
<1> USE DEF CatalogInv, DigestSource, installed, worktree
<1>1. /\ todo # <<>> /\ Head(todo) = "digest" /\ todo \in Seq(CatalogSteps)
      /\ ~Ahead("result") /\ Ahead("catalog")
      /\ ranBy = {} /\ \A g \in SourceFiles : scanned[g] = {}
  BY AheadOfStep DEF AtStep, CatalogTypeOK, NothingBeforeCall
<1>2. DigestsAreOldest'
  <2>1. /\ \A g \in SourceFiles : content[g] \in Nat
        /\ digest \in [SourceFiles -> FileVersions \cup {0}]
    BY DEF CatalogTypeOK, FileVersions
  <2> QED BY <1>1, <2>1 DEF DigestsAreOldest
<1>3. CASE digest' = [digest EXCEPT ![f] = content[f]] /\ LookAt(f) /\ UNCHANGED payload
  <2>1. /\ todo' \in Seq(CatalogSteps) /\ WellPlanned(todo') /\ looked' \subseteq SourceFiles
        /\ \A task : Ahead(task)' => Ahead(task)
    BY <1>1, <1>3, LookLeavesPlan
  <2>2. CatalogTypeOK'
    BY <1>3, <2>1 DEF CatalogTypeOK
  <2>3. NothingBeforeCall' /\ ComparedBeforeResult'
    BY <1>1, <2>1 DEF NothingBeforeCall, ComparedBeforeResult
  <2>4. ResultIsBound' /\ HeadsFollowBinding'
    BY <1>1, <1>3, ResultNotYet DEF ResultIsBound, HeadsFollowBinding, AtStep
  <2> QED BY <1>2, <2>1, <2>2, <2>3, <2>4
<1>4. CASE FoundNothing /\ UNCHANGED digest
  BY <1>1, <1>2, <1>4, FoundNothingKeepsInv DEF CatalogTypeOK
<1> QED BY <1>3, <1>4

LEMMA CallKeepsInv ==
  ASSUME CatalogInv, CallCatalog
  PROVE  CatalogInv'
<1> USE DEF CatalogInv, CallCatalog, installed, worktree, captured
<1>1. /\ todo # <<>> /\ Head(todo) = "catalog" /\ todo \in Seq(CatalogSteps)
      /\ ranBy' \subseteq {executable} /\ \A f \in SourceFiles : scanned[f] = {}
  BY AheadOfStep DEF AtStep, CatalogTypeOK, NothingBeforeCall
<1>2. ASSUME NEW plan \in {MainSteps, SplitSteps}, todo' = plan
      PROVE  /\ todo' \in Seq(CatalogSteps) /\ WellPlanned(todo') /\ ~Ahead("catalog")'
             /\ Ahead("same_identity")'
             /\ \A f \in SourceFiles : AheadOf(f, Scans)'
  <2>1. plan \in Seq(CatalogSteps) /\ WellPlanned(plan)
    BY PlansArePlanned
  <2>2. ~Later(plan, 0, "catalog") /\ Later(plan, 0, "same_identity")
    BY DEF Later, MainSteps, SplitSteps
  <2>3. \E k \in DOMAIN plan : plan[k] \in Scans
    BY DEF MainSteps, SplitSteps, Scans
  <2> QED BY <1>2, <2>1, <2>2, <2>3 DEF Ahead, AheadOf, Later
<1>3. DigestsAreOldest'
  <2>1. identity <= executable /\ executable <= executable
    BY DEF DigestsAreOldest, CatalogTypeOK, FileVersions
  <2> QED BY <1>1, <2>1 DEF DigestsAreOldest
<1>4. HeadsFollowBinding' /\ ResultIsBound'
  BY <1>1, ResultNotYet DEF ResultIsBound, HeadsFollowBinding, AtStep
<1> QED BY <1>1, <1>2, <1>3, <1>4 DEF CatalogTypeOK, NothingBeforeCall, ComparedBeforeResult

\* Comparing the executable with the first one settles what ran meanwhile.
LEMMA RequireIdentityKeepsInv ==
  ASSUME CatalogInv, RequireIdentity
  PROVE  CatalogInv'
<1> USE DEF CatalogInv, RequireIdentity, installed, worktree, captured
<1>1. /\ todo # <<>> /\ Head(todo) = "same_identity" /\ todo \in Seq(CatalogSteps)
  BY DEF AtStep, CatalogTypeOK
<1>2. DigestsAreOldest'
  BY DEF DigestsAreOldest
<1>3. CASE executable = identity /\ StepDone /\ UNCHANGED payload
  <2>1. /\ todo' \in Seq(CatalogSteps) /\ WellPlanned(todo') /\ looked' = {}
        /\ \A task : Ahead(task)' => Ahead(task)
    BY <1>1, <1>3, StepLeavesPlan DEF StepDone
  <2>2. CatalogTypeOK'
    BY <1>3, <2>1 DEF CatalogTypeOK
  <2>3. ranBy \subseteq {identity}
    <3> SUFFICES ASSUME NEW e \in ranBy
                 PROVE  e = identity
      OBVIOUS
    <3>1. e \in Nat /\ identity \in Nat /\ identity <= e /\ e <= executable
      BY DEF DigestsAreOldest, CatalogTypeOK, FileVersions
    <3> QED BY <1>3, <3>1
  <2>4. ASSUME NEW f \in SourceFiles
        PROVE  /\ AheadOf(f, {"same_sources"}) => AheadOf(f, {"same_sources"})'
               /\ AheadOf(f, Scans) => AheadOf(f, Scans)'
    BY <1>1, <1>3, StepLeavesFile DEF StepDone, Scans
  <2>5. NothingBeforeCall' /\ ComparedBeforeResult'
    BY <2>1, <2>3, <2>4 DEF NothingBeforeCall, ComparedBeforeResult
  <2>6. ResultIsBound' /\ HeadsFollowBinding'
    BY <1>1, <1>3, ResultNotYet DEF ResultIsBound, HeadsFollowBinding, AtStep
  <2> QED BY <1>2, <2>1, <2>2, <2>5, <2>6
<1>4. CASE FoundNothing
  BY <1>1, <1>2, <1>4, FoundNothingKeepsInv DEF CatalogTypeOK
<1> QED BY <1>3, <1>4

\* What a scan reads is compared later, and what was compared before stays.
LEMMA ScanKeepsInv ==
  ASSUME CatalogInv, NEW f \in SourceFiles, ScanSource(f)
  PROVE  CatalogInv'
<1> USE DEF CatalogInv, ScanSource, installed, worktree, captured
<1>1. /\ todo # <<>> /\ Head(todo) \in Scans /\ todo \in Seq(CatalogSteps)
      /\ ~Ahead("catalog")
  <2>1. todo # <<>> /\ Head(todo) \in Scans /\ todo \in Seq(CatalogSteps)
    BY DEF AtStep, CatalogTypeOK
  <2> QED BY <2>1, AheadOfStep DEF Scans
<1>2. CASE /\ scanned' = [scanned EXCEPT ![f] = @ \cup {content[f]}]
           /\ LookAt(f) /\ UNCHANGED payload
  <2>1. /\ todo' \in Seq(CatalogSteps) /\ WellPlanned(todo') /\ looked' \subseteq SourceFiles
        /\ \A task : Ahead(task)' => Ahead(task)
        /\ \A task : Ahead(task) /\ ~AtStep(task) => Ahead(task)'
    BY <1>1, <1>2, LookLeavesPlan
  <2>2. CatalogTypeOK'
    BY <1>2, <2>1 DEF CatalogTypeOK
  <2>3. DigestsAreOldest'
    <3>1. content[f] \in Nat /\ digest[f] <= content[f] /\ content[f] <= content[f]
      BY DEF DigestsAreOldest, CatalogTypeOK, FileVersions
    <3>2. scanned'[f] = scanned[f] \cup {content[f]}
      BY <1>2 DEF CatalogTypeOK
    <3>3. \A g \in SourceFiles \ {f} : scanned'[g] = scanned[g]
      BY <1>2 DEF CatalogTypeOK
    <3>4. \A g \in SourceFiles : \A c \in scanned'[g] : digest[g] <= c /\ c <= content[g]
      BY <3>1, <3>2, <3>3 DEF DigestsAreOldest
    <3> QED BY <3>4 DEF DigestsAreOldest
  <2>4. AheadOf(f, {"same_sources"}) /\ Head(todo) \notin {"same_sources"}
    BY <1>1, AheadOfStep DEF AheadOf, Scans
  <2>5. \A g \in SourceFiles : AheadOf(g, {"same_sources"}) => AheadOf(g, {"same_sources"})'
    BY <1>1, <1>2, <2>4, LookLeavesFile
  <2>6. \A g \in SourceFiles \ {f} : AheadOf(g, Scans) => AheadOf(g, Scans)'
    BY <1>1, <1>2, LookLeavesFile
  <2>7. scanned'[f] # {} /\ \A g \in SourceFiles \ {f} : scanned'[g] = scanned[g]
    BY <1>2 DEF CatalogTypeOK
  <2>8. Ahead("same_identity") => Ahead("same_identity")'
    BY <1>1, <2>1 DEF AtStep, Scans
  <2>9. ComparedBeforeResult'
    BY <2>1, <2>4, <2>5, <2>6, <2>7, <2>8 DEF ComparedBeforeResult
  <2>10. NothingBeforeCall'
    BY <1>1, <2>1 DEF NothingBeforeCall
  <2>11. ResultIsBound' /\ HeadsFollowBinding'
    BY <1>1, <1>2, ResultNotYet DEF ResultIsBound, HeadsFollowBinding, AtStep, Scans
  <2> QED BY <2>1, <2>2, <2>3, <2>9, <2>10, <2>11
<1>3. CASE FoundNothing /\ UNCHANGED scanned
  BY <1>1, <1>3, FoundNothingKeepsInv DEF CatalogTypeOK, DigestsAreOldest
<1> QED BY <1>2, <1>3

\* Comparing a source with its digest settles what was read of it.
LEMMA RequireSourceKeepsInv ==
  ASSUME CatalogInv, NEW f \in SourceFiles, RequireSource(f)
  PROVE  CatalogInv'
<1> USE DEF CatalogInv, RequireSource, installed, worktree, captured
<1>1. /\ todo # <<>> /\ Head(todo) = "same_sources" /\ todo \in Seq(CatalogSteps)
  BY DEF AtStep, CatalogTypeOK
<1>2. DigestsAreOldest'
  BY DEF DigestsAreOldest
<1>3. CASE content[f] = digest[f] /\ LookAt(f) /\ UNCHANGED payload
  <2>1. /\ todo' \in Seq(CatalogSteps) /\ WellPlanned(todo') /\ looked' \subseteq SourceFiles
        /\ \A task : Ahead(task)' => Ahead(task)
        /\ \A task : Ahead(task) /\ ~AtStep(task) => Ahead(task)'
    BY <1>1, <1>3, LookLeavesPlan
  <2>2. CatalogTypeOK'
    BY <1>3, <2>1 DEF CatalogTypeOK
  <2>3. scanned[f] \subseteq {digest[f]}
    <3> SUFFICES ASSUME NEW c \in scanned[f]
                 PROVE  c = digest[f]
      OBVIOUS
    <3>1. c \in Nat /\ digest[f] \in Nat /\ digest[f] <= c /\ c <= content[f]
      BY DEF DigestsAreOldest, CatalogTypeOK, FileVersions
    <3> QED BY <1>3, <3>1
  <2>4. \A g \in SourceFiles \ {f} :
          AheadOf(g, {"same_sources"}) => AheadOf(g, {"same_sources"})'
    BY <1>1, <1>3, LookLeavesFile
  <2>5. \A g \in SourceFiles : AheadOf(g, Scans) => AheadOf(g, Scans)'
    BY <1>1, <1>3, LookLeavesFile DEF Scans
  <2>6. Ahead("same_identity") => Ahead("same_identity")'
    BY <1>1, <2>1 DEF AtStep
  <2>7. NothingBeforeCall' /\ ComparedBeforeResult'
    BY <2>1, <2>3, <2>4, <2>5, <2>6 DEF NothingBeforeCall, ComparedBeforeResult
  <2>8. ResultIsBound' /\ HeadsFollowBinding'
    BY <1>1, <1>3, ResultNotYet DEF ResultIsBound, HeadsFollowBinding, AtStep
  <2> QED BY <1>2, <2>1, <2>2, <2>7, <2>8
<1>4. CASE FoundNothing
  BY <1>1, <1>2, <1>4, FoundNothingKeepsInv DEF CatalogTypeOK
<1> QED BY <1>3, <1>4

\* Skipping the status calls skips nothing else.
LEMMA SkipLeavesPlan ==
  ASSUME todo \in Seq(CatalogSteps), WellPlanned(todo), todo # <<>>,
         Head(todo) \in {"status", "refusal"}, StepDone \/ PastStatus
  PROVE  /\ todo' \in Seq(CatalogSteps) /\ WellPlanned(todo') /\ looked' = {}
         /\ \A task : Ahead(task)' => Ahead(task)
         /\ Ahead("same_identity") => Ahead("same_identity")'
         /\ \A f : AheadOf(f, {"same_sources"}) => AheadOf(f, {"same_sources"})'
         /\ \A f : AheadOf(f, Scans) => AheadOf(f, Scans)'
<1>1. CASE todo' = Tail(todo) /\ looked' = {}
  <2>1. \A f : AheadOf(f, {"same_sources"}) => AheadOf(f, {"same_sources"})'
    BY <1>1, StepLeavesFile
  <2>2. \A f : AheadOf(f, Scans) => AheadOf(f, Scans)'
    BY <1>1, StepLeavesFile DEF Scans
  <2> QED BY <1>1, <2>1, <2>2, StepLeavesPlan DEF AtStep
<1>2. CASE AtStep("status") /\ todo' = Tail(Tail(todo)) /\ looked' = {}
  <2>1. 2 \in DOMAIN todo /\ todo[2] = "refusal" /\ todo[1] = "status"
    BY <1>2, AheadOfStep, TailOfPlan DEF AtStep
  <2>2. Tail(todo) \in Seq(CatalogSteps) /\ Tail(todo) # <<>>
    <3>1. Tail(todo) \in Seq(CatalogSteps) /\ Len(Tail(todo)) # 0
      BY <2>1, TailOfPlan
    <3>2. Len(<<>>) = 0
      OBVIOUS
    <3>3. Tail(todo) = <<>> => Len(Tail(todo)) = Len(<<>>)
      OBVIOUS
    <3> QED BY ONLY <3>1, <3>2, <3>3
  <2>3. todo' \in Seq(CatalogSteps) /\ WellPlanned(todo')
    BY <1>2, <2>2, TailIsPlanned, TailOfPlan
  <2>4. ASSUME NEW task
        PROVE  Ahead(task)' <=> Later(todo, 2, task)
    <3>1. Later(Tail(Tail(todo)), 0, task) <=> Later(Tail(todo), 0 + 1, task)
      BY <2>2, LaterInTail
    <3>2. Later(Tail(todo), 1, task) <=> Later(todo, 1 + 1, task)
      BY LaterInTail
    <3> QED BY <1>2, <3>1, <3>2 DEF Ahead, Later
  <2>5. \A task : Later(todo, 2, task) => Ahead(task)
    BY TailOfPlan DEF Later, Ahead
  <2>6. Ahead("same_identity") => Later(todo, 2, "same_identity")
    BY <2>1, TailOfPlan DEF Later, Ahead
  <2>7. ASSUME NEW k \in DOMAIN todo, k # 1, k # 2
        PROVE  k - 2 \in DOMAIN todo' /\ todo'[k - 2] = todo[k]
    <3>1. k - 1 \in DOMAIN Tail(todo) /\ k - 1 # 1 /\ Tail(todo)[k - 1] = todo[k]
      BY <2>7, TailOfPlan
    <3>2. /\ (k - 1) - 1 \in DOMAIN Tail(Tail(todo))
          /\ Tail(Tail(todo))[(k - 1) - 1] = Tail(todo)[k - 1]
      <4>1. /\ DOMAIN Tail(todo) = 1 .. Len(Tail(todo)) /\ Len(Tail(todo)) \in Nat
            /\ DOMAIN Tail(Tail(todo)) = 1 .. Len(Tail(todo)) - 1
            /\ \A n \in 1 .. Len(Tail(todo)) - 1 : Tail(Tail(todo))[n] = Tail(todo)[n + 1]
        BY ONLY <2>2, TailOfPlan
      <4>2. k - 1 \in 2 .. Len(Tail(todo))
        BY ONLY <3>1, <4>1
      <4> DEFINE n == (k - 1) - 1
      <4>3. n \in 1 .. Len(Tail(todo)) - 1 /\ n + 1 = k - 1
        BY ONLY <4>1, <4>2
      <4> QED BY ONLY <4>1, <4>3
    <3>3. k - 2 = (k - 1) - 1
      BY TailOfPlan
    <3> QED BY <1>2, <3>1, <3>2, <3>3
  <2>8. \A f : AheadOf(f, {"same_sources"}) => AheadOf(f, {"same_sources"})'
    BY <1>2, <2>1, <2>7 DEF AheadOf
  <2>9. \A f : AheadOf(f, Scans) => AheadOf(f, Scans)'
    BY <1>2, <2>1, <2>7 DEF AheadOf, Scans
  <2> QED BY <1>2, <2>3, <2>4, <2>5, <2>6, <2>8, <2>9
<1> QED BY <1>1, <1>2 DEF StepDone, PastStatus

\* A status call may run another executable: it is compared later.
LEMMA StatusStepKeepsInv ==
  ASSUME CatalogInv, todo # <<>>, Head(todo) \in {"status", "refusal"},
         StepDone \/ PastStatus, RunExecutable \/ UNCHANGED ranBy, corroborated' \in BOOLEAN,
         UNCHANGED <<installed, worktree, binding, captured, scanned, split, payload, written>>
  PROVE  CatalogInv'
<1> USE DEF CatalogInv, installed, worktree, captured
<1>1. /\ todo' \in Seq(CatalogSteps) /\ WellPlanned(todo') /\ looked' = {}
      /\ \A task : Ahead(task)' => Ahead(task)
      /\ Ahead("same_identity") => Ahead("same_identity")'
      /\ \A f : AheadOf(f, {"same_sources"}) => AheadOf(f, {"same_sources"})'
      /\ \A f : AheadOf(f, Scans) => AheadOf(f, Scans)'
  BY SkipLeavesPlan DEF CatalogTypeOK
<1>2. Ahead("same_identity") /\ ~Ahead("catalog")
  BY AheadOfStep DEF CatalogTypeOK
<1>3. CatalogTypeOK'
  BY <1>1 DEF CatalogTypeOK, RunExecutable
<1>4. DigestsAreOldest'
  <2>1. identity <= executable /\ executable <= executable
    BY DEF DigestsAreOldest, CatalogTypeOK, FileVersions
  <2> QED BY <2>1 DEF DigestsAreOldest, RunExecutable
<1>5. NothingBeforeCall' /\ ComparedBeforeResult'
  BY <1>1, <1>2 DEF NothingBeforeCall, ComparedBeforeResult
<1>6. ResultIsBound' /\ HeadsFollowBinding'
  BY ResultNotYet DEF ResultIsBound, HeadsFollowBinding, AtStep
<1> QED BY <1>1, <1>3, <1>4, <1>5, <1>6

LEMMA StatusKeepsInv ==
  ASSUME CatalogInv, CallStatus \/ CallRefused
  PROVE  CatalogInv'
<1>1. /\ todo # <<>> /\ Head(todo) \in {"status", "refusal"}
      /\ UNCHANGED <<installed, worktree, binding, captured, scanned, split, written>>
      /\ corroborated \in BOOLEAN
  BY DEF CallStatus, CallRefused, AtStep, CatalogInv, CatalogTypeOK
<1>2. CASE /\ StepDone \/ PastStatus
           /\ RunExecutable \/ UNCHANGED ranBy
           /\ UNCHANGED payload /\ corroborated' \in BOOLEAN
  BY <1>1, <1>2, StatusStepKeepsInv
<1>3. CASE /\ RunExecutable \/ UNCHANGED ranBy
           /\ FoundNothing /\ UNCHANGED corroborated
  <2>1. DigestsAreOldest'
    <3>1. identity <= executable /\ executable <= executable
      BY DEF CatalogInv, DigestsAreOldest, CatalogTypeOK, FileVersions
    <3> QED BY <1>1, <1>3, <3>1
            DEF CatalogInv, DigestsAreOldest, RunExecutable, installed, captured
  <2>2. /\ ranBy' \subseteq FileVersions /\ identity' \in FileVersions \cup {0}
        /\ digest' \in [SourceFiles -> FileVersions \cup {0}]
        /\ scanned' \in [SourceFiles -> SUBSET FileVersions]
    BY <1>1, <1>3 DEF CatalogInv, CatalogTypeOK, RunExecutable, captured
  <2> QED BY <1>1, <1>3, <2>1, <2>2, FoundNothingKeepsInv
<1> QED BY <1>1, <1>2, <1>3 DEF CallStatus, CallRefused, StatusFails

\* With nothing ahead of the result, all of it has been compared.
LEMMA ResultKeepsInv ==
  ASSUME CatalogInv, MakeCatalog
  PROVE  CatalogInv'
<1> USE DEF CatalogInv, MakeCatalog, installed, worktree, captured
<1>1. /\ todo # <<>> /\ todo \in Seq(CatalogSteps) /\ Len(todo) = 1 /\ todo[1] = "result"
      /\ Ahead("result") /\ todo' = <<"finalize">>
  BY AheadOfStep, TailOfPlan DEF AtStep, CatalogTypeOK
<1>2. ~Ahead("same_identity")
  BY <1>1 DEF Ahead, Later
<1>3. \A f \in SourceFiles : ~AheadOf(f, {"same_sources"}) /\ ~AheadOf(f, Scans)
  BY <1>1 DEF AheadOf, Scans
<1>4. ranBy \subseteq {identity} /\ \A f \in SourceFiles : scanned[f] = {digest[f]}
  BY <1>1, <1>2, <1>3 DEF ComparedBeforeResult
<1>5. ResultIsBound'
  BY <1>1, <1>4 DEF ResultIsBound
<1>6. CatalogTypeOK'
  BY <1>1, FinalizeAlone DEF CatalogTypeOK, Payloads
<1>7. DigestsAreOldest' /\ HeadsFollowBinding'
  BY <1>1, ResultNotYet DEF DigestsAreOldest, HeadsFollowBinding, AtStep
<1> QED BY <1>1, <1>5, <1>6, <1>7, FinalizeAlone

LEMMA FinalizeKeepsInv ==
  ASSUME CatalogInv, Finalize
  PROVE  CatalogInv'
<1> USE DEF CatalogInv, Finalize, installed, worktree, captured
<1>1. CatalogTypeOK'
  BY FinalizeAlone DEF CatalogTypeOK, Payloads
<1>2. HeadsFollowBinding'
  <2>1. head \in Nat /\ heads \subseteq Nat
    BY DEF CatalogTypeOK, FileVersions
  <2>2. binding # 0 /\ head = binding => heads = {binding}
    <3>1. binding # 0 /\ head = binding => binding \in heads /\ \A h \in heads : h = binding
      BY <2>1 DEF HeadsFollowBinding
    <3> QED BY <3>1
  <2> QED BY <2>2 DEF HeadsFollowBinding
<1>3. DigestsAreOldest' /\ ResultIsBound'
  BY DEF DigestsAreOldest, ResultIsBound
<1> QED BY <1>1, <1>2, <1>3, FinalizeAlone

LEMMA CatalogStep == CatalogInv /\ [CatalogNext]_catalogVars => CatalogInv'
<1>1. CatalogInv /\ UNCHANGED catalogVars => CatalogInv'
  BY DEF CatalogInv, catalogVars, installed, worktree, captured, CatalogTypeOK, WellPlanned,
         Later, Ahead, AheadOf, DigestsAreOldest, NothingBeforeCall, ComparedBeforeResult,
         ResultIsBound, HeadsFollowBinding
<1> QED BY <1>1, UpgradeKeepsInv, WorktreeKeepsInv, BindingKeepsInv, IdentityKeepsInv,
           CallKeepsInv, RequireIdentityKeepsInv, StatusKeepsInv, ResultKeepsInv,
           FinalizeKeepsInv, DigestKeepsInv, ScanKeepsInv, RequireSourceKeepsInv
        DEF CatalogNext

\* A catalog of openclaw-tool-capability-preflight.py that lists sources was
\* read from exactly the files whose digests it names, its calls were made
\* with the executable it names, and evidence names the only head there was
\* since the binding: for any sources and however often each is replaced.
THEOREM CatalogStaysBound == CatalogSpec => []CatalogIsBound
<1>1. CatalogSpec => []CatalogInv
  BY CatalogInitInv, CatalogStep, PTL DEF CatalogSpec
<1>2. CatalogInv => CatalogIsBound
  BY DEF CatalogInv, ResultIsBound, HeadsFollowBinding, CatalogIsBound
<1> QED BY <1>1, <1>2, PTL
-----------------------------------------------------------------------------
(* The soak monitor *)

\* The samples of the core pass one after the other, from the start on, and
\* the last of them decides its status.
Chained(r, s) == r.pass /\ Follows(s, r, Interval, 2 * Interval)

CoreIsChained ==
  core # NoReceipt =>
    /\ started # NoReceipt
    /\ Samples # <<>>
    /\ Follows(Samples[1], started, 0, Interval)
    /\ \A i \in 2 .. Len(Samples) : Chained(Samples[i - 1], Samples[i])
    /\ core.status = StatusWith(Latest)

\* What a step of the monitor stands on when the process reaches it.
StepsAgree ==
  /\ pc \in {"first_sample", "first_receipt"} => core = NoReceipt /\ started # NoReceipt
  /\ pc = "first_journal" => core # NoReceipt /\ sample # NoReceipt /\ Samples = <<sample>>
  /\ pc \in {"sample", "journal", "receipt"} =>
       core # NoReceipt /\ core.status = "in_progress"
  /\ pc \in {"sample", "journal", "receipt", "first_receipt"} => sample # NoReceipt
  /\ pc \in {"first_receipt", "journal", "receipt"} => MayAppend(sample)

\* Nothing is written after the envelope says complete that it stands on.
CompleteIsFinal ==
  envelope = "complete" =>
    /\ core # NoReceipt /\ core.status = "complete"
    /\ JournalAgrees /\ snapshots = Len(Samples)

SoakInv == SoakTypeOK /\ CoreIsChained /\ StepsAgree /\ CompleteIsFinal

LEMMA SoakInitInv == SoakInit => SoakInv
<1> SUFFICES ASSUME SoakInit
             PROVE  SoakInv
  OBVIOUS
<1>1. SoakTypeOK
  <2>1. 0 \in Readings /\ <<>> \in Seq(Sample)
    BY SoakAssumption DEF Readings
  <2> QED BY <2>1 DEF SoakInit, SoakTypeOK
<1>2. CoreIsChained /\ StepsAgree /\ CompleteIsFinal
  BY DEF SoakInit, CoreIsChained, StepsAgree, CompleteIsFinal
<1> QED BY <1>1, <1>2 DEF SoakInv

LEMMA SamplesType ==
  ASSUME SoakTypeOK
  PROVE  /\ Samples \in Seq(Sample)
         /\ Samples # <<>> => Latest \in Sample /\ Len(Samples) \in Nat \ {0}
  BY DEF SoakTypeOK, Samples, Latest, SoakReceipt

\* Steps that leave the core, its journal and the start alone.
LEMMA QuietStepKeepsInv ==
  ASSUME SoakInv, SoakTypeOK', UNCHANGED <<core, journal, snapshots, started>>,
         envelope' = "complete" => envelope = "complete" \/ Supported("complete"),
         pc' \notin {"first_sample", "first_receipt", "first_journal",
                     "sample", "journal", "receipt"}
           \/ UNCHANGED <<pc, sample>>
  PROVE  SoakInv'
<1> USE DEF SoakInv
<1>1. Samples' = Samples /\ (Samples # <<>> => Latest' = Latest)
  BY DEF Samples, Latest
<1>2. CoreIsChained'
  BY <1>1 DEF CoreIsChained, Follows, Chained, StatusWith, Past
<1>3. StepsAgree'
  BY <1>1 DEF StepsAgree, MayAppend, WellSpaced, StatusWith, Past, Follows
<1>4. CompleteIsFinal'
  <2> SUFFICES ASSUME envelope' = "complete"
               PROVE  /\ core # NoReceipt /\ core.status = "complete"
                      /\ JournalAgrees /\ snapshots = Len(Samples)
    BY <1>1 DEF CompleteIsFinal, JournalAgrees
  <2>1. CASE envelope = "complete"
    BY <2>1 DEF CompleteIsFinal
  <2>2. CASE Supported("complete")
    BY <2>2, SamplesType DEF Supported, SnapshotsAgree, SoakTypeOK
  <2> QED BY <2>1, <2>2
<1> QED BY <1>2, <1>3, <1>4

\* A sample that may be appended continues the chain, and the core's status is
\* the one it gives.
LEMMA AppendKeepsChain ==
  ASSUME SoakInv, SoakTypeOK', sample \in Sample, started \in Reading, MayAppend(sample),
         WriteCore, core # NoReceipt => core.status = "in_progress",
         started' = started
  PROVE  CoreIsChained' /\ core' # NoReceipt /\ Samples' = Append(Samples, sample)
<1> USE DEF SoakInv
<1> DEFINE n == Len(Samples)
<1>1. Samples \in Seq(Sample) /\ n \in Nat
  BY SamplesType
<1>2. core' # NoReceipt /\ Samples' = Append(Samples, sample)
      /\ core'.status = StatusWith(sample)
  <2>1. StatusWith(sample) \in {"in_progress", "complete", "failed"}
    BY DEF StatusWith
  <2>2. core' \in SoakReceipt
    BY <2>1, <1>1 DEF WriteCore, SoakReceipt
  <2> QED BY <2>2, SoakAssumption DEF WriteCore, Samples
<1>3. /\ Len(Samples') = n + 1 /\ Samples'[n + 1] = sample
      /\ \A i \in 1 .. n : Samples'[i] = Samples[i]
  BY <1>1, <1>2
<1>4. Latest' = sample /\ Samples' # <<>>
  BY <1>1, <1>3 DEF Latest
<1>5. (core = NoReceipt => Samples = <<>>) /\ (core # NoReceipt => Samples # <<>>)
  BY DEF Samples, CoreIsChained
<1>6. Follows(Samples'[1], started, 0, Interval)
  <2>1. CASE core = NoReceipt
    BY <2>1, <1>1, <1>3, <1>5 DEF MayAppend, WellSpaced
  <2>2. CASE core # NoReceipt
    <3>1. n >= 1 /\ Samples'[1] = Samples[1]
      BY <2>2, <1>1, <1>3, <1>5
    <3> QED BY <2>2, <3>1 DEF CoreIsChained
  <2> QED BY <2>1, <2>2
<1>7. ASSUME NEW i \in 2 .. Len(Samples')
      PROVE  Chained(Samples'[i - 1], Samples'[i])
  <2>1. CASE i <= n
    <3>1. Samples'[i - 1] = Samples[i - 1] /\ Samples'[i] = Samples[i]
      BY <2>1, <1>1, <1>3
    <3>2. core # NoReceipt /\ i \in 2 .. Len(Samples)
      BY <2>1, <1>1, <1>3, <1>5
    <3> QED BY <3>1, <3>2 DEF CoreIsChained
  <2>2. CASE i = n + 1
    <3>1. n >= 1 /\ Samples # <<>> /\ core # NoReceipt
      BY <2>2, <1>1, <1>5
    <3>2. Samples'[i - 1] = Latest /\ Samples'[i] = sample
      BY <2>2, <3>1, <1>1, <1>3 DEF Latest
    <3>3. Latest.pass
      BY <3>1 DEF CoreIsChained, StatusWith
    <3> QED BY <3>1, <3>2, <3>3 DEF Chained, MayAppend, WellSpaced
  <2> QED BY <2>1, <2>2, <1>1, <1>3
<1>8. started' # NoReceipt /\ core'.status = StatusWith(Latest)'
  BY <1>2, <1>4, SoakAssumption DEF StatusWith, Past
<1> QED BY <1>2, <1>4, <1>6, <1>7, <1>8 DEF CoreIsChained, Follows, Chained
LEMMA StartKeepsInv ==
  ASSUME SoakInv, NEW c \in Reading, Start(c)
  PROVE  SoakInv'
<1> USE DEF SoakInv
<1>1. core = NoReceipt /\ Samples = <<>>
  BY DEF Start, CoreIsChained, Samples
<1>2. SoakTypeOK'
  BY DEF Start, Read, SoakTypeOK, Reading
<1>3. core' = NoReceipt /\ started' # NoReceipt /\ pc' = "first_sample"
      /\ envelope' = envelope
  BY <1>1, SoakAssumption DEF Start
<1>4. CoreIsChained' /\ StepsAgree'
  BY <1>3 DEF CoreIsChained, StepsAgree
<1>5. CompleteIsFinal'
  BY <1>1, <1>3 DEF CompleteIsFinal
<1> QED BY <1>2, <1>4, <1>5

LEMMA TakenSample ==
  ASSUME SoakTypeOK, NEW c \in Reading, NEW passed \in BOOLEAN, NEW snapped \in BOOLEAN,
         TakeSample(c, passed, snapped)
  PROVE  sample' \in Sample /\ sample' # NoReceipt /\ snapshots' \in Nat /\ uptime' \in Readings
<1>1. sample' \in Sample
  BY DEF TakeSample, Sample, Reading
<1>2. snapshots' \in Nat /\ uptime' \in Readings
  BY SamplesType DEF TakeSample, SoakTypeOK, Read, Reading
<1> QED BY <1>1, <1>2, SoakAssumption

LEMMA FirstSampleKeepsInv ==
  ASSUME SoakInv, NEW c \in Reading, NEW passed \in BOOLEAN, NEW snapped \in BOOLEAN,
         FirstSample(c, passed, snapped)
  PROVE  SoakInv'
<1> USE DEF SoakInv
<1>1. core = NoReceipt /\ started # NoReceipt /\ envelope # "complete"
  BY DEF FirstSample, StepsAgree, CompleteIsFinal
<1>2. SoakTypeOK' /\ sample' # NoReceipt
  BY TakenSample DEF FirstSample, SoakTypeOK
<1>3. /\ core' = NoReceipt /\ started' # NoReceipt /\ envelope' # "complete"
      /\ pc' \in {"first_receipt", "off"}
  BY <1>1 DEF FirstSample
<1>4. pc' = "first_receipt" => MayAppend(sample)'
  <2>1. MayAppend(sample)' <=> MayAppend(sample')
    BY DEF FirstSample, MayAppend, WellSpaced, Follows, StatusWith, Past, Samples, Latest
  <2> QED BY <2>1 DEF FirstSample
<1> QED BY <1>2, <1>3, <1>4 DEF CoreIsChained, StepsAgree, CompleteIsFinal

LEMMA FirstReceiptKeepsInv ==
  ASSUME SoakInv, FirstReceipt
  PROVE  SoakInv'
<1> USE DEF SoakInv
<1>1. /\ core = NoReceipt /\ started \in Reading /\ sample \in Sample /\ MayAppend(sample)
      /\ envelope # "complete"
  BY DEF FirstReceipt, StepsAgree, SoakTypeOK, CompleteIsFinal
<1>2. core' \in SoakReceipt
  BY <1>1, SamplesType DEF FirstReceipt, WriteCore, SoakReceipt, StatusWith
<1>3. SoakTypeOK'
  BY <1>2 DEF FirstReceipt, SoakTypeOK
<1>4. CoreIsChained' /\ core' # NoReceipt /\ Samples' = Append(Samples, sample)
  BY <1>1, <1>3, AppendKeepsChain DEF FirstReceipt
<1>5. Samples' = <<sample>> /\ sample' = sample /\ sample # NoReceipt
  BY <1>1, <1>4, SoakAssumption DEF FirstReceipt, Samples
<1>6. StepsAgree'
  BY <1>4, <1>5 DEF FirstReceipt, StepsAgree
<1>7. CompleteIsFinal'
  BY <1>1 DEF FirstReceipt, CompleteIsFinal
<1> QED BY <1>3, <1>4, <1>6, <1>7

LEMMA FirstJournalKeepsInv ==
  ASSUME SoakInv, FirstJournal
  PROVE  SoakInv'
<1> USE DEF SoakInv
<1>1. core # NoReceipt /\ sample \in Sample /\ Samples = <<sample>>
  BY DEF FirstJournal, StepsAgree, SoakTypeOK
<1>2. /\ pc' \in {"first_sample_pass", "resume", "failed_closed"}
      /\ journal' = <<sample>> /\ sample' = NoReceipt
      /\ UNCHANGED <<uptime, core, snapshots, signed, envelope, stopRequest, started, seen>>
  BY DEF FirstJournal
<1>3. SoakTypeOK'
  BY <1>1, <1>2 DEF SoakTypeOK, Verdicts
<1>4. Samples' = Samples /\ Latest' = Latest
  BY <1>2 DEF Samples, Latest
<1>5. CoreIsChained'
  BY <1>2, <1>4 DEF CoreIsChained, Follows, Chained, StatusWith, Past
<1>6. StepsAgree'
  BY <1>2 DEF StepsAgree
<1>7. CompleteIsFinal'
  BY <1>1, <1>2, <1>4 DEF CompleteIsFinal, JournalAgrees
<1> QED BY <1>3, <1>5, <1>6, <1>7

LEMMA NextSampleKeepsInv ==
  ASSUME SoakInv, NEW c \in Reading, NEW passed \in BOOLEAN, NEW snapped \in BOOLEAN,
         NextSample(c, passed, snapped)
  PROVE  SoakInv'
<1> USE DEF SoakInv
<1>1. core # NoReceipt /\ core.status = "in_progress" /\ envelope # "complete"
  BY DEF NextSample, StepsAgree, CompleteIsFinal
<1>2. SoakTypeOK' /\ sample' # NoReceipt
  BY TakenSample DEF NextSample, SoakTypeOK, Verdicts
<1>3. /\ core' = core /\ started' = started /\ envelope' = envelope
      /\ pc' \in {"journal", "failed_closed"}
  BY DEF NextSample
<1>4. Samples' = Samples /\ Latest' = Latest
  BY <1>3 DEF Samples, Latest
<1>5. pc' = "journal" => MayAppend(sample)'
  <2>1. MayAppend(sample)' <=> MayAppend(sample')
    BY <1>3, <1>4 DEF MayAppend, WellSpaced, Follows, StatusWith, Past
  <2> QED BY <2>1 DEF NextSample
<1>6. CoreIsChained'
  BY <1>3, <1>4 DEF CoreIsChained, Follows, Chained, StatusWith, Past
<1>7. StepsAgree' /\ CompleteIsFinal'
  BY <1>1, <1>2, <1>3, <1>5 DEF StepsAgree, CompleteIsFinal
<1> QED BY <1>2, <1>6, <1>7

LEMMA WriteJournalKeepsInv ==
  ASSUME SoakInv, WriteJournal
  PROVE  SoakInv'
<1> USE DEF SoakInv
<1>1. /\ core # NoReceipt /\ core.status = "in_progress" /\ envelope # "complete"
      /\ sample \in Sample /\ sample # NoReceipt /\ MayAppend(sample)
  BY DEF WriteJournal, StepsAgree, CompleteIsFinal, SoakTypeOK
<1>2. SoakTypeOK'
  BY <1>1 DEF WriteJournal, SoakTypeOK
<1>3. /\ core' = core /\ started' = started /\ envelope' = envelope /\ sample' = sample
      /\ pc' = "receipt"
  BY DEF WriteJournal
<1>4. Samples' = Samples /\ Latest' = Latest
  BY <1>3 DEF Samples, Latest
<1>5. MayAppend(sample)'
  BY <1>1, <1>3, <1>4 DEF MayAppend, WellSpaced, Follows, StatusWith, Past
<1>6. CoreIsChained'
  BY <1>3, <1>4 DEF CoreIsChained, Follows, Chained, StatusWith, Past
<1>7. StepsAgree' /\ CompleteIsFinal'
  BY <1>1, <1>3, <1>5 DEF StepsAgree, CompleteIsFinal
<1> QED BY <1>2, <1>6, <1>7

LEMMA NextReceiptKeepsInv ==
  ASSUME SoakInv, NextReceipt
  PROVE  SoakInv'
<1> USE DEF SoakInv
<1>1. /\ core # NoReceipt /\ core.status = "in_progress" /\ envelope # "complete"
      /\ started \in Reading /\ sample \in Sample /\ MayAppend(sample)
  BY DEF NextReceipt, StepsAgree, CompleteIsFinal, SoakTypeOK, CoreIsChained
<1>2. core' \in SoakReceipt
  BY <1>1, SamplesType DEF NextReceipt, WriteCore, SoakReceipt, StatusWith
<1>3. pc' \in {"failed_closed", "sign", "running"}
  BY DEF NextReceipt
<1>4. SoakTypeOK'
  BY <1>2, <1>3 DEF NextReceipt, SoakTypeOK, Verdicts
<1>5. CoreIsChained'
  BY <1>1, <1>4, AppendKeepsChain DEF NextReceipt
<1>6. StepsAgree' /\ CompleteIsFinal'
  BY <1>1, <1>3 DEF NextReceipt, StepsAgree, CompleteIsFinal
<1> QED BY <1>4, <1>5, <1>6

LEMMA CheckKeepsInv ==
  ASSUME SoakInv, NEW c \in Reading, Check(c)
  PROVE  SoakInv'
<1> USE DEF SoakInv
<1>1. /\ UNCHANGED <<core, journal, snapshots, signed, envelope, stopRequest, started, seen>>
      /\ uptime' \in Readings
  BY DEF Check, soakFiles, Read, Reading
<1>2. CASE pc' = Verdict(c) /\ Verdict(c) # "none" /\ UNCHANGED sample
  <2>1. Verdict(c) \in Verdicts
    BY <1>2 DEF Verdict, Verdicts
  <2>2. SoakTypeOK'
    BY <1>1, <1>2, <2>1 DEF SoakTypeOK
  <2> QED BY <1>1, <1>2, <2>1, <2>2, QuietStepKeepsInv DEF Verdicts
<1>3. CASE /\ Verdict(c) = "none" /\ pc' = "sample"
           /\ sample' = [wall |-> c.wall, mono |-> c.mono, pass |-> FALSE]
  <2>1. sample' \in Sample
    BY <1>3 DEF Reading, Sample
  <2>2. SoakTypeOK' /\ sample' # NoReceipt
    BY <1>1, <1>3, <2>1, SoakAssumption DEF SoakTypeOK
  <2>3. core # NoReceipt /\ core.status = "in_progress"
    BY <1>3 DEF Verdict, SoakTypeOK, SoakReceipt
  <2>4. Samples' = Samples /\ Latest' = Latest
    BY <1>1 DEF Samples, Latest
  <2>5. CoreIsChained'
    BY <1>1, <2>4 DEF CoreIsChained, Follows, Chained, StatusWith, Past
  <2>6. StepsAgree'
    BY <1>1, <1>3, <2>2, <2>3 DEF StepsAgree
  <2>7. CompleteIsFinal'
    BY <1>1, <2>4 DEF CompleteIsFinal, JournalAgrees
  <2> QED BY <2>2, <2>5, <2>6, <2>7
<1> QED BY <1>2, <1>3 DEF Check

\* Whoever writes that the soak is complete has checked it.
LEMMA EnvelopeStepKeepsInv ==
  ASSUME SoakInv, WriteVerdict \/ Signal \/ (\E reading \in Readings : WriteStatus(reading))
                    \/ RollBackSoak
  PROVE  SoakInv'
<1> USE DEF SoakInv
<1>1. CASE WriteVerdict
  <2>1. /\ envelope' \in Verdicts \cup {envelope} /\ pc' \in {"check", "exit"}
        /\ envelope' = "complete" => envelope = "complete" \/ Supported("complete")
    BY <1>1 DEF WriteVerdict, Verdicts
  <2>2. SoakTypeOK'
    BY <1>1, <2>1 DEF WriteVerdict, SoakTypeOK
  <2> QED BY <1>1, <2>1, <2>2, QuietStepKeepsInv DEF WriteVerdict
<1>2. CASE Signal
  <2>1. SoakTypeOK' /\ (envelope' = "complete" => envelope = "complete")
    BY <1>2 DEF Signal, SoakTypeOK, Verdicts
  <2> QED BY <1>2, <2>1, QuietStepKeepsInv DEF Signal
<1>3. ASSUME NEW reading \in Readings, WriteStatus(reading)
      PROVE  SoakInv'
  <2>1. SoakTypeOK'
    BY <1>3 DEF WriteStatus, SoakTypeOK
  <2>2. envelope' = "complete" => envelope = "complete" \/ Supported("complete")
    BY <1>3 DEF WriteStatus, StatusWrites
  <2> QED BY <1>3, <2>1, <2>2, QuietStepKeepsInv DEF WriteStatus
<1>4. CASE RollBackSoak
  <2>1. SoakTypeOK'
    BY <1>4 DEF RollBackSoak, SoakTypeOK
  <2> QED BY <1>4, <2>1, QuietStepKeepsInv DEF RollBackSoak
<1> QED BY <1>1, <1>2, <1>3, <1>4

LEMMA OtherSoakStepKeepsInv ==
  ASSUME SoakInv, \/ Run \/ Resume \/ Sign \/ Die \/ Reboot \/ RequestStop \/ ReadStatus
                  \/ UNCHANGED soakVars
  PROVE  SoakInv'
<1> USE DEF SoakInv
<1>1. /\ UNCHANGED <<core, journal, snapshots, started, envelope>>
      /\ \/ pc' \in {"off", "resume", "running", "failed_closed", "complete"}
         \/ UNCHANGED <<pc, sample>>
  BY DEF Run, Resume, Enter, Sign, Die, Reboot, RequestStop, ReadStatus, soakVars, soakFiles
<1>2. SoakTypeOK'
  <2>1. 0 \in Readings
    BY SoakAssumption DEF Readings
  <2>2. CASE Run \/ Resume \/ Sign \/ UNCHANGED soakVars
    <3>1. CASE Run \/ Resume
      BY <3>1 DEF Run, Resume, Enter, soakFiles, SoakTypeOK, Verdicts
    <3>2. CASE Sign
      BY <3>2 DEF Sign, SoakTypeOK, Verdicts
    <3>3. CASE UNCHANGED soakVars
      BY <3>3 DEF soakVars, soakFiles, SoakTypeOK
    <3> QED BY <2>2, <3>1, <3>2, <3>3
  <2>3. CASE Die \/ Reboot \/ RequestStop \/ ReadStatus
    BY <2>1, <2>3 DEF Die, Reboot, RequestStop, ReadStatus, soakFiles, SoakTypeOK
  <2> QED BY <2>2, <2>3
<1> QED BY <1>1, <1>2, QuietStepKeepsInv

LEMMA SoakStep == SoakInv /\ [SoakNext]_soakVars => SoakInv'
  BY StartKeepsInv, FirstSampleKeepsInv, FirstReceiptKeepsInv, FirstJournalKeepsInv,
     CheckKeepsInv, NextSampleKeepsInv, WriteJournalKeepsInv, NextReceiptKeepsInv,
     EnvelopeStepKeepsInv, OtherSoakStepKeepsInv
  DEF SoakNext

\* The chain covers the duration: it begins within an interval of the start,
\* and its last sample is past the duration.
LEMMA CompleteCovers == SoakInv => CompleteIsEarned
<1> SUFFICES ASSUME SoakInv, envelope = "complete"
             PROVE  /\ journal = core.samples /\ snapshots = Len(journal)
                    /\ \A i \in DOMAIN journal : journal[i].pass
                    /\ \A i \in 2 .. Len(journal) :
                         /\ journal[i].wall - journal[i - 1].wall \in 0 .. 2 * Interval
                         /\ journal[i].mono - journal[i - 1].mono \in 0 .. 2 * Interval
                    /\ journal[Len(journal)].mono - journal[1].mono >= Duration - Interval
  BY DEF CompleteIsEarned
<1> USE DEF SoakInv
<1> DEFINE n == Len(Samples)
<1>1. /\ core # NoReceipt /\ core.status = "complete" /\ started \in Reading
      /\ journal = Samples /\ snapshots = n /\ Samples = core.samples
  BY DEF CompleteIsFinal, JournalAgrees, Samples, CoreIsChained, SoakTypeOK
<1>2. /\ Samples \in Seq(Sample) /\ n \in Nat \ {0} /\ Latest = Samples[n]
      /\ \A i \in 1 .. n : Samples[i] \in Sample
  BY <1>1, SamplesType DEF CoreIsChained, Latest
<1>3. Samples[n].pass /\ Past(Samples[n], started, Duration)
  BY <1>1, <1>2 DEF CoreIsChained, StatusWith
<1>4. ASSUME NEW i \in 2 .. n
      PROVE  /\ Samples[i - 1].pass
             /\ Samples[i].wall - Samples[i - 1].wall \in 0 .. 2 * Interval
             /\ Samples[i].mono - Samples[i - 1].mono \in 0 .. 2 * Interval
  <2>1. Chained(Samples[i - 1], Samples[i])
    BY <1>1 DEF CoreIsChained
  <2>2. Samples[i] \in Sample /\ Samples[i - 1] \in Sample
    BY <1>2
  <2> QED BY <2>1, <2>2, SoakAssumption DEF Chained, Follows, Sample, Readings
<1>5. ASSUME NEW i \in 1 .. n
      PROVE  Samples[i].pass
  <2>1. CASE i = n
    BY <2>1, <1>3
  <2>2. CASE i < n
    <3>1. i + 1 \in 2 .. n /\ (i + 1) - 1 = i
      BY <2>2, <1>2
    <3> QED BY <3>1, <1>4
  <2> QED BY <2>1, <2>2, <1>2
<1>6. Samples[n].mono - Samples[1].mono >= Duration - Interval
  <2>1. Follows(Samples[1], started, 0, Interval) /\ Samples[1] \in Sample /\ Samples[n] \in Sample
    BY <1>1, <1>2 DEF CoreIsChained
  <2>2. Samples[1].mono \in Int /\ Samples[n].mono \in Int /\ started.mono \in Int
    BY <2>1, <1>1, SoakAssumption DEF Sample, Reading, Readings
  <2>3. Samples[1].mono - started.mono <= Interval
    BY <2>1, <2>2, SoakAssumption DEF Follows
  <2>4. Samples[n].mono >= started.mono + Duration
    BY <1>3 DEF Past
  <2> QED BY <2>2, <2>3, <2>4, SoakAssumption
<1>7. DOMAIN Samples = 1 .. n
  BY <1>2
<1>8. journal = Samples /\ core.samples = Samples /\ snapshots = Len(Samples)
  BY <1>1
<1> HIDE DEF SoakInv
<1> QED BY <1>4, <1>5, <1>6, <1>7, <1>8

\* A soak that heartbeat-shadow-soak-monitor.py reports complete was earned,
\* for any interval, duration and clocks: however often the process is killed
\* and run again between its writes, and whatever `stop`, `status` and
\* `rollback` write beside it.
THEOREM CompleteStaysEarned == SoakSpec => []CompleteIsEarned
<1>1. SoakSpec => []SoakInv
  BY SoakInitInv, SoakStep, PTL DEF SoakSpec
<1> QED BY <1>1, CompleteCovers, PTL
-----------------------------------------------------------------------------
(* The legacy import: numbers *)

\* A set of naturals that a non-member would have a least one of is all of Nat.
LEMMA NaturalsInductive ==
  ASSUME NEW S, 0 \in S, \A n \in Nat : n \in S => n + 1 \in S
  PROVE  Nat \subseteq S
<1> SUFFICES ASSUME Nat \ S # {}
             PROVE  FALSE
  OBVIOUS
<1> DEFINE R == OpToRel(<, Nat)
<1>1. IsWellFoundedOn(R, Nat) /\ R = {p \in Nat \X Nat : p[1] < p[2]}
  BY NatLessThanWellFounded DEF OpToRel
<1> HIDE DEF R
<1>2. PICK n \in Nat \ S : \A m \in Nat \ S : ~(<<m, n>> \in R)
  BY <1>1, WFMin
<1>3. n # 0 /\ n - 1 \in Nat /\ (n - 1) + 1 = n /\ <<n - 1, n>> \in R
  BY <1>1
<1>4. n - 1 \in S
  BY <1>2, <1>3
<1> QED BY <1>2, <1>3, <1>4

\* f starts with a and goes on with 10 f[n - 1] + g[n], up to n = l.
Decimal(f, l, a, g) == f = [n \in 0 .. l |-> IF n = 0 THEN a ELSE 10 * f[n - 1] + g[n]]

LEMMA DecimalExists ==
  ASSUME NEW l \in Nat, NEW a, NEW g
  PROVE  \E f : Decimal(f, l, a, g)
<1> DEFINE N == {n \in Nat : \E f : Decimal(f, n, a, g)}
<1>1. 0 \in N
  <2> DEFINE z == [n \in 0 .. 0 |-> a]
  <2>1. Decimal(z, 0, a, g)
    BY DEF Decimal
  <2> HIDE DEF z
  <2> QED BY <2>1
<1>2. ASSUME NEW n \in Nat, n \in N
      PROVE  n + 1 \in N
  <2>1. PICK f : Decimal(f, n, a, g)
    BY <1>2
  <2> DEFINE h == [m \in 0 .. n + 1 |-> IF m = 0 THEN a ELSE 10 * f[m - 1] + g[m]]
  <2>2. \A m \in 0 .. n : h[m] = f[m]
    BY <2>1 DEF Decimal
  <2>3. \A m \in 0 .. n + 1 : m # 0 => m - 1 \in 0 .. n
    OBVIOUS
  <2>4. Decimal(h, n + 1, a, g)
    BY <2>2, <2>3 DEF Decimal
  <2> HIDE DEF h
  <2> QED BY <2>4
<1>3. Nat \subseteq N
  <2> HIDE DEF N
  <2> QED BY <1>1, <1>2, NaturalsInductive
<1> QED BY <1>3

LEMMA DecimalType ==
  ASSUME NEW l \in Nat, NEW a \in Nat, NEW g, \A n \in 1 .. l : g[n] \in Nat,
         NEW f, Decimal(f, l, a, g)
  PROVE  /\ \A n \in 0 .. l : f[n] \in Nat
         /\ f[0] = a
         /\ \A n \in 1 .. l : f[n] = 10 * f[n - 1] + g[n]
<1>1. f[0] = a /\ \A n \in 1 .. l : f[n] = 10 * f[n - 1] + g[n]
  BY DEF Decimal
<1> DEFINE N == {n \in Nat : n <= l => f[n] \in Nat}
<1>2. 0 \in N
  BY <1>1
<1>3. ASSUME NEW n \in Nat, n \in N
      PROVE  n + 1 \in N
  <2> SUFFICES ASSUME n + 1 <= l
               PROVE  f[n + 1] \in Nat
    OBVIOUS
  <2>1. n + 1 \in 1 .. l /\ (n + 1) - 1 = n /\ f[n] \in Nat
    BY <1>3
  <2> QED BY <1>1, <2>1
<1>4. Nat \subseteq N
  <2> HIDE DEF N
  <2> QED BY <1>2, <1>3, NaturalsInductive
<1>5. \A n \in 0 .. l : f[n] \in Nat
  BY <1>4
<1> QED BY <1>1, <1>5

\* The functions that the model computes with.
LEMMA SpelledIs ==
  ASSUME NEW digits \in Seq(0 .. 9)
  PROVE  /\ Spelled(digits)[0] = 0
         /\ \A n \in 0 .. Len(digits) : Spelled(digits)[n] \in Nat
         /\ \A n \in 1 .. Len(digits) :
              Spelled(digits)[n] = 10 * Spelled(digits)[n - 1] + digits[n]
<1> DEFINE f == CHOOSE f : Decimal(f, Len(digits), 0, digits)
<1>1. Decimal(f, Len(digits), 0, digits)
  BY DecimalExists
<1>2. Spelled(digits) = f
  BY Zenon DEF Spelled, Decimal
<1> HIDE DEF f
<1>3. Len(digits) \in Nat /\ \A n \in 1 .. Len(digits) : digits[n] \in Nat
  OBVIOUS
<1> QED BY <1>1, <1>2, <1>3, DecimalType

LEMMA TenToIs ==
  ASSUME NEW l \in Nat
  PROVE  \E f : /\ TenTo(l) = f[l] /\ f[0] = 1
                /\ \A n \in 0 .. l : f[n] \in Nat
                /\ \A n \in 1 .. l : f[n] = 10 * f[n - 1]
<1> DEFINE Power(f) == f = [n \in 0 .. l |-> IF n = 0 THEN 1 ELSE 10 * f[n - 1]]
           g == [n \in 1 .. l |-> 0]
<1>1. PICK h : Decimal(h, l, 1, g)
  BY DecimalExists
<1>2. /\ \A n \in 0 .. l : h[n] \in Nat
      /\ h[0] = 1
      /\ \A n \in 1 .. l : h[n] = 10 * h[n - 1]
  <2>1. \A n \in 1 .. l : g[n] = 0
    OBVIOUS
  <2> HIDE DEF g
  <2>2. /\ \A n \in 0 .. l : h[n] \in Nat
        /\ h[0] = 1
        /\ \A n \in 1 .. l : h[n] = 10 * h[n - 1] + g[n]
    BY <1>1, <2>1, DecimalType
  <2>3. ASSUME NEW n \in 1 .. l
        PROVE  h[n] = 10 * h[n - 1]
    <3>1. n - 1 \in 0 .. l
      OBVIOUS
    <3> QED BY <2>1, <2>2, <3>1
  <2> QED BY <2>2, <2>3
<1> DEFINE k == [n \in 0 .. l |-> h[n]]
<1>3. Power(k)
  <2>1. \A n \in 0 .. l : k[n] = IF n = 0 THEN 1 ELSE 10 * k[n - 1]
    BY <1>2
  <2> QED BY <2>1
<1> DEFINE f == CHOOSE f : Power(f)
<1>4. Power(f)
  <2> HIDE DEF Power, k
  <2> QED BY <1>3
<1>5. TenTo(l) = f[l]
  BY Zenon DEF TenTo
<1> HIDE DEF f
<1>6. f[0] = 1 /\ \A n \in 1 .. l : f[n] = 10 * f[n - 1]
  BY <1>4
<1> DEFINE N == {n \in Nat : n <= l => f[n] \in Nat}
<1>7. 0 \in N
  BY <1>6
<1>8. ASSUME NEW n \in Nat, n \in N
      PROVE  n + 1 \in N
  <2> SUFFICES ASSUME n + 1 <= l
               PROVE  f[n + 1] \in Nat
    OBVIOUS
  <2>1. n + 1 \in 1 .. l /\ (n + 1) - 1 = n /\ f[n] \in Nat
    BY <1>8
  <2> QED BY <1>6, <2>1
<1>9. Nat \subseteq N
  <2> HIDE DEF N
  <2> QED BY <1>7, <1>8, NaturalsInductive
<1>10. \A n \in 0 .. l : f[n] \in Nat
  BY <1>9
<1> QED BY <1>5, <1>6, <1>10

\* Digits that end in zeros spell their front, moved by so many places.
LEMMA ZerosMove ==
  ASSUME NEW digits \in Seq(0 .. 9), NEW z \in 1 .. Len(digits), TrailingZeros(digits, z)
  PROVE  Coefficient(digits) = Spelled(digits)[Len(digits) - z] * TenTo(z)
<1> DEFINE n == Len(digits)
           s == Spelled(digits)
           a == s[n - z]
<1>1. /\ n \in Nat /\ z \in Nat /\ z <= n
      /\ \A k \in 0 .. n : s[k] \in Nat
      /\ \A k \in 1 .. n : s[k] = 10 * s[k - 1] + digits[k]
      /\ \A k \in n - z + 1 .. n : digits[k] = 0
  BY SpelledIs DEF TrailingZeros
<1>2. PICK f : /\ TenTo(z) = f[z] /\ f[0] = 1
               /\ \A k \in 0 .. z : f[k] \in Nat
               /\ \A k \in 1 .. z : f[k] = 10 * f[k - 1]
  BY <1>1, TenToIs
<1>3. a \in Nat
  BY <1>1
<1> HIDE DEF n, s, a
<1> DEFINE N == {k \in Nat : k <= z => s[n - z + k] = a * f[k]}
<1>4. 0 \in N
  <2>1. s[n - z + 0] = a /\ a * f[0] = a
    BY <1>1, <1>2, <1>3 DEF a
  <2> QED BY <2>1
<1>5. ASSUME NEW k \in Nat, k \in N
      PROVE  k + 1 \in N
  <2> SUFFICES ASSUME k + 1 <= z
               PROVE  s[n - z + (k + 1)] = a * f[k + 1]
    OBVIOUS
  <2>1. /\ n - z + (k + 1) \in 1 .. n /\ n - z + (k + 1) \in n - z + 1 .. n
        /\ (n - z + (k + 1)) - 1 = n - z + k /\ n - z + k \in 0 .. n
    BY <1>1
  <2>2. s[n - z + (k + 1)] = 10 * s[n - z + k]
    <3>1. /\ s[n - z + (k + 1)] = 10 * s[n - z + k] + digits[n - z + (k + 1)]
          /\ digits[n - z + (k + 1)] = 0 /\ s[n - z + k] \in Nat
      BY <1>1, <2>1
    <3> QED BY <3>1
  <2>3. s[n - z + k] = a * f[k] /\ f[k] \in Nat /\ f[k + 1] = 10 * f[k]
    <3>1. k \in 0 .. z /\ k + 1 \in 1 .. z /\ (k + 1) - 1 = k
      BY <1>1
    <3> QED BY <1>2, <1>5, <3>1
  <2>4. \A b, c \in Nat : 10 * (b * c) = b * (10 * c)
    OBVIOUS
  <2> QED BY <1>3, <2>2, <2>3, <2>4
<1>6. z \in N
  <2>1. Nat \subseteq N
    <3> HIDE DEF N
    <3> QED BY <1>4, <1>5, NaturalsInductive
  <2> QED BY <2>1, <1>1
<1>7. s[n] = a * f[z]
  <2>1. n - z + z = n
    BY <1>1
  <2> QED BY <1>6, <1>1, <2>1
<1> QED BY <1>2, <1>7 DEF n, s, a, Coefficient

LEMMA TenToType ==
  ASSUME NEW l \in Nat
  PROVE  TenTo(l) \in Nat
  BY TenToIs

LEMMA TenToZero == TenTo(0) = 1
  BY TenToIs

\* Money that is not refused is converted exactly, and fits.
LEMMA MicrousdIsExact ==
  ASSUME NEW row \in LegacyRows, Microusd(row) # -1
  PROVE  Microusd(row) \in 0 .. MaxMicrousd /\ IsExactly(row, Microusd(row))
<1>0. ~row.minus
  BY DEF Microusd
<1> DEFINE digits == row.digits
           zeros == -(row.exponent + 6)
           up == IF row.exponent > -6 THEN row.exponent + 6 ELSE 0
           down == IF row.exponent < -6 THEN -(row.exponent + 6) ELSE 0
           c == Coefficient(digits)
<1>1. /\ digits \in Seq(0 .. 9) /\ row.exponent \in Int /\ Len(digits) \in Nat
      /\ MaxMicrousd \in Nat
  BY LegacyAssumption
<1>2. up \in Nat /\ down \in Nat /\ zeros \in Int
  BY <1>1
<1>3. c \in Nat
  BY <1>1, SpelledIs DEF Coefficient
<1>4. TenTo(up) \in Nat /\ TenTo(down) \in Nat
  BY <1>2, TenToType
<1>5. CASE c = 0
  <2>1. Microusd(row) = 0
    BY <1>0, <1>5 DEF Microusd
  <2>2. c * TenTo(up) = 0 * TenTo(down)
    <3> HIDE DEF c, up, down
    <3> QED BY <1>4, <1>5
  <2> QED BY <2>1, <2>2, <1>0, <1>1 DEF IsExactly
<1>6. CASE c # 0 /\ zeros <= 0
  <2> DEFINE value == c * TenTo(-zeros)
  <2>1. Microusd(row) = value /\ ~(value > MaxMicrousd)
    <3>1. ~(zeros > 0)
      BY <1>6, <1>2
    <3> QED BY Zenon, <1>0, <1>6, <3>1 DEF Microusd
  <2>2. -zeros = up /\ down = 0
    BY <1>6, <1>1
  <2>3. value \in Nat /\ c * TenTo(up) = value * TenTo(down)
    <3>1. \A a, b \in Nat : a * b \in Nat /\ a * b = (a * b) * 1
      OBVIOUS
    <3>2. value = c * TenTo(up) /\ TenTo(down) = 1
      BY <2>2, TenToZero
    <3> HIDE DEF value, c, up, down
    <3> QED BY <1>3, <1>4, <3>1, <3>2
  <2> HIDE DEF value
  <2> QED BY <2>1, <2>3, <1>0, <1>1 DEF IsExactly
<1>7. CASE c # 0 /\ zeros > 0
  <2> DEFINE value == Spelled(digits)[Len(digits) - zeros]
  <2>1. TrailingZeros(digits, zeros) /\ Microusd(row) = value /\ ~(value > MaxMicrousd)
    <3>1. ~(zeros <= 0)
      BY <1>7, <1>2
    <3> QED BY Zenon, <1>0, <1>7, <3>1 DEF Microusd
  <2>2. zeros \in 1 .. Len(digits)
    <3>1. zeros <= Len(digits)
      <4> SUFFICES ASSUME zeros > Len(digits)
                   PROVE  FALSE
        BY <1>1, <1>2
      <4>1. Len(digits) - zeros + 1 \in Len(digits) - zeros + 1 .. Len(digits)
        BY <1>1, <1>2, <1>7
      <4>2. Len(digits) - zeros + 1 > 0
        BY <2>1, <4>1 DEF TrailingZeros
      <4> QED BY <4>2, <1>1, <1>2
    <3> QED BY <3>1, <1>2, <1>7
  <2>3. c = value * TenTo(zeros)
    BY <1>1, <2>1, <2>2, ZerosMove
  <2>4. value \in Nat
    <3>1. Len(digits) - zeros \in 0 .. Len(digits)
      BY <1>1, <2>2
    <3> QED BY <1>1, <3>1, SpelledIs
  <2>5. zeros = down /\ TenTo(up) = 1
    <3>1. up = 0 /\ zeros = down
      BY <1>7, <1>1
    <3> QED BY <3>1, TenToZero
  <2>6. c * TenTo(up) = value * TenTo(down)
    <3> HIDE DEF value, c, up, down
    <3> QED BY <1>3, <2>3, <2>5
  <2> HIDE DEF value
  <2> QED BY <2>1, <2>4, <2>6, <1>0, <1>1 DEF IsExactly
<1> QED BY <1>2, <1>5, <1>6, <1>7

\* Powers of ten, one by one.
LEMMA TenToNext ==
  ASSUME NEW l \in Nat
  PROVE  TenTo(l + 1) = 10 * TenTo(l)
<1>1. PICK f : /\ TenTo(l) = f[l] /\ f[0] = 1
               /\ \A n \in 0 .. l : f[n] \in Nat
               /\ \A n \in 1 .. l : f[n] = 10 * f[n - 1]
  BY TenToIs
<1>2. PICK g : /\ TenTo(l + 1) = g[l + 1] /\ g[0] = 1
               /\ \A n \in 0 .. l + 1 : g[n] \in Nat
               /\ \A n \in 1 .. l + 1 : g[n] = 10 * g[n - 1]
  BY l + 1 \in Nat, TenToIs
<1> DEFINE N == {n \in Nat : n <= l => f[n] = g[n]}
<1>3. 0 \in N
  BY <1>1, <1>2
<1>4. ASSUME NEW n \in Nat, n \in N
      PROVE  n + 1 \in N
  <2> SUFFICES ASSUME n + 1 <= l
               PROVE  f[n + 1] = g[n + 1]
    OBVIOUS
  <2>1. /\ n + 1 \in 1 .. l /\ n + 1 \in 1 .. l + 1 /\ (n + 1) - 1 = n
        /\ f[n] = g[n]
    BY <1>4
  <2>2. f[n + 1] = 10 * f[n]
    BY ONLY <1>1, <2>1
  <2>3. g[n + 1] = 10 * g[n]
    BY ONLY <1>2, <2>1
  <2> QED BY ONLY <2>1, <2>2, <2>3
<1>5. f[l] = g[l]
  <2>1. Nat \subseteq N
    <3> HIDE DEF N
    <3> QED BY ONLY <1>3, <1>4, NaturalsInductive
  <2> QED BY <2>1
<1>6. l + 1 \in 1 .. l + 1 /\ (l + 1) - 1 = l
  OBVIOUS
<1>7. g[l + 1] = 10 * g[l]
  BY ONLY <1>2, <1>6
<1> QED BY ONLY <1>1, <1>2, <1>5, <1>7

LEMMA TenToSum ==
  ASSUME NEW a \in Nat, NEW b \in Nat
  PROVE  TenTo(a + b) = TenTo(a) * TenTo(b) /\ TenTo(b) >= 1
<1> DEFINE N == {n \in Nat : TenTo(a + n) = TenTo(a) * TenTo(n) /\ TenTo(n) >= 1}
<1>1. 0 \in N
  <2>1. TenTo(a) \in Nat /\ TenTo(0) = 1 /\ a + 0 = a
    BY TenToType, TenToZero
  <2> QED BY <2>1
<1>2. ASSUME NEW n \in Nat, n \in N
      PROVE  n + 1 \in N
  <2>1. TenTo(a) \in Nat /\ TenTo(n) \in Nat
    BY ONLY a \in Nat, n \in Nat, TenToType
  <2>2. TenTo(a + n) = TenTo(a) * TenTo(n) /\ TenTo(n) >= 1
    BY <1>2
  <2>3. TenTo(n + 1) = 10 * TenTo(n) /\ TenTo(a + (n + 1)) = 10 * TenTo(a + n)
    <3>1. a + n \in Nat /\ a + (n + 1) = (a + n) + 1
      OBVIOUS
    <3> QED BY ONLY <3>1, n \in Nat, TenToNext
  <2>4. \A x, y \in Nat : 10 * (x * y) = x * (10 * y)
    OBVIOUS
  <2>5. TenTo(a + (n + 1)) = TenTo(a) * TenTo(n + 1)
    BY ONLY <2>1, <2>2, <2>3, <2>4
  <2>6. TenTo(n + 1) >= 1
    BY ONLY <2>1, <2>2, <2>3
  <2> QED BY <2>5, <2>6
<1>3. b \in N
  <2>1. Nat \subseteq N
    <3> HIDE DEF N
    <3> QED BY ONLY <1>1, <1>2, NaturalsInductive
  <2> QED BY <2>1
<1> QED BY <1>3

LEMMA TenToGrows ==
  ASSUME NEW a \in Nat, NEW b \in Nat, a <= b
  PROVE  TenTo(a) <= TenTo(b)
<1>1. b - a \in Nat /\ a + (b - a) = b
  OBVIOUS
<1>2. TenTo(b) = TenTo(a) * TenTo(b - a) /\ TenTo(b - a) >= 1
  BY ONLY <1>1, a \in Nat, TenToSum
<1>3. TenTo(a) \in Nat /\ TenTo(b - a) \in Nat
  BY ONLY <1>1, a \in Nat, TenToType
<1>4. \A x, y \in Nat : y >= 1 => x <= x * y
  OBVIOUS
<1> QED BY ONLY <1>2, <1>3, <1>4

\* Digits without a leading zero spell a number of that many digits.
LEMMA SpelledIsLong ==
  ASSUME NEW digits \in Seq(0 .. 9), Len(digits) # 0, digits[1] # 0
  PROVE  Coefficient(digits) >= TenTo(Len(digits) - 1)
<1> DEFINE len == Len(digits)
           s == Spelled(digits)
<1>1. /\ len \in Nat \ {0} /\ digits[1] \in 1 .. 9
      /\ \A n \in 1 .. len : digits[n] \in 0 .. 9
  OBVIOUS
<1>2. /\ s[0] = 0
      /\ \A n \in 0 .. len : s[n] \in Nat
      /\ \A n \in 1 .. len : s[n] = 10 * s[n - 1] + digits[n]
  BY ONLY digits \in Seq(0 .. 9), SpelledIs
<1>3. Coefficient(digits) = s[len]
  BY DEF Coefficient
<1> HIDE DEF len, s
<1> DEFINE N == {n \in Nat : n + 1 <= len => s[n + 1] >= TenTo(n)}
<1>4. 0 \in N
  <2>1. s[1] = 10 * s[0] + digits[1]
    <3>1. 1 \in 1 .. len /\ 1 - 1 = 0
      BY ONLY <1>1
    <3> QED BY ONLY <1>2, <3>1
  <2>2. s[0 + 1] >= TenTo(0)
    BY ONLY <1>1, <1>2, <2>1, TenToZero
  <2> QED BY <2>2
<1>5. ASSUME NEW n \in Nat, n \in N
      PROVE  n + 1 \in N
  <2> SUFFICES ASSUME (n + 1) + 1 <= len
               PROVE  s[(n + 1) + 1] >= TenTo(n + 1)
    OBVIOUS
  <2>1. /\ (n + 1) + 1 \in 1 .. len /\ ((n + 1) + 1) - 1 = n + 1
        /\ n + 1 \in 0 .. len /\ n + 1 <= len
    BY ONLY <1>1, n \in Nat, (n + 1) + 1 <= len
  <2>2. s[n + 1] >= TenTo(n) /\ s[n + 1] \in Nat
    BY <1>2, <1>5, <2>1
  <2>3. s[(n + 1) + 1] = 10 * s[n + 1] + digits[(n + 1) + 1]
    BY ONLY <1>2, <2>1
  <2>4. TenTo(n + 1) = 10 * TenTo(n) /\ TenTo(n) \in Nat
    BY ONLY n \in Nat, TenToNext, TenToType
  <2>5. digits[(n + 1) + 1] \in 0 .. 9
    BY ONLY <1>1, <2>1
  <2>6. \A w, x, y \in Nat : \A e \in 0 .. 9 : x >= w /\ y = 10 * x + e => y >= 10 * w
    OBVIOUS
  <2>7. s[(n + 1) + 1] \in Nat
    <3>1. (n + 1) + 1 \in 0 .. len
      BY ONLY <2>1, <1>1
    <3> QED BY ONLY <1>2, <3>1
  <2>8. s[(n + 1) + 1] >= 10 * TenTo(n)
    BY ONLY Zenon, <2>2, <2>3, <2>4, <2>5, <2>6, <2>7
  <2> QED BY ONLY <2>4, <2>8
<1>6. len - 1 \in N
  <2>1. Nat \subseteq N
    <3> HIDE DEF N
    <3> QED BY ONLY <1>4, <1>5, NaturalsInductive
  <2> QED BY <1>1, <2>1
<1>7. s[len] >= TenTo(len - 1)
  <2>1. (len - 1) + 1 = len
    BY ONLY <1>1
  <2> QED BY <1>1, <1>6, <2>1
<1> QED BY ONLY <1>3, <1>7 DEF len

\* A multiple of a power of ten ends in that many zeros.
LEMMA MultipleEndsInZeros ==
  ASSUME NEW digits \in Seq(0 .. 9), NEW z \in Nat, NEW a \in Nat,
         Coefficient(digits) # 0, Coefficient(digits) = a * TenTo(z)
  PROVE  z <= Len(digits) /\ TrailingZeros(digits, z) /\ Spelled(digits)[Len(digits) - z] = a
<1> DEFINE len == Len(digits)
           s == Spelled(digits)
<1>1. len \in Nat /\ \A n \in 1 .. len : digits[n] \in 0 .. 9
  OBVIOUS
<1>2. /\ s[0] = 0
      /\ \A n \in 0 .. len : s[n] \in Nat
      /\ \A n \in 1 .. len : s[n] = 10 * s[n - 1] + digits[n]
  BY ONLY digits \in Seq(0 .. 9), SpelledIs
<1>3. s[len] = a * TenTo(z)
  BY DEF Coefficient
<1>4. a >= 1
  <2>1. TenTo(z) \in Nat
    BY ONLY z \in Nat, TenToType
  <2>2. \A x \in Nat : 0 * x = 0
    OBVIOUS
  <2>3. a # 0
    BY ONLY <2>1, <2>2, Coefficient(digits) # 0, Coefficient(digits) = a * TenTo(z)
  <2> QED BY ONLY <2>3, a \in Nat
<1> HIDE DEF len, s
<1> DEFINE Ends(k) == /\ k <= len /\ s[len - k] = a * TenTo(z - k)
                      /\ \A n \in len - k + 1 .. len : digits[n] = 0
           N == {k \in Nat : k <= z => Ends(k)}
<1>5. 0 \in N
  <2>1. len - 0 = len /\ z - 0 = z /\ len - 0 + 1 .. len = {}
    BY ONLY <1>1, z \in Nat
  <2> QED BY <1>1, <1>3, <2>1
<1>6. ASSUME NEW k \in Nat, k \in N
      PROVE  k + 1 \in N
  <2> SUFFICES ASSUME k + 1 <= z
               PROVE  Ends(k + 1)
    OBVIOUS
  <2>1. Ends(k)
    BY ONLY <1>6, k \in Nat, k + 1 <= z, z \in Nat
  <2> DEFINE p == a * TenTo(z - (k + 1))
  <2>2. p \in Nat /\ p >= 1 /\ s[len - k] = 10 * p
    <3>1. z - (k + 1) \in Nat /\ (z - (k + 1)) + 1 = z - k
      BY ONLY k \in Nat, z \in Nat, k + 1 <= z
    <3>2. TenTo(z - k) = 10 * TenTo(z - (k + 1))
      BY ONLY <3>1, TenToNext
    <3>3. TenTo(z - (k + 1)) \in Nat /\ TenTo(z - (k + 1)) >= 1
      BY ONLY <3>1, TenToType, TenToSum
    <3>4. \A x, y \in Nat : x * y \in Nat /\ x * (10 * y) = 10 * (x * y)
      OBVIOUS
    <3>5. \A x, y \in Nat : x >= 1 /\ y >= 1 => x * y >= 1
      OBVIOUS
    <3> QED BY ONLY <1>4, <2>1, <3>2, <3>3, <3>4, <3>5, a \in Nat
  <2> HIDE DEF p
  <2>3. k + 1 <= len
    <3>1. len - k # 0
      BY ONLY <1>2, <2>2
    <3> QED BY ONLY <1>1, <2>1, <3>1, k \in Nat
  <2>4. /\ len - k \in 1 .. len /\ len - (k + 1) \in 0 .. len
        /\ (len - k) - 1 = len - (k + 1)
    BY ONLY <1>1, <2>3, k \in Nat
  <2>5. s[len - k] = 10 * s[len - (k + 1)] + digits[len - k]
    BY ONLY <1>2, <2>4
  <2>6. s[len - (k + 1)] \in Nat /\ digits[len - k] \in 0 .. 9
    BY ONLY <1>1, <1>2, <2>4
  <2>7. s[len - (k + 1)] = p /\ digits[len - k] = 0
    <3>1. \A x, y \in Nat, e \in 0 .. 9 : 10 * x = 10 * y + e => y = x /\ e = 0
      OBVIOUS
    <3>2. 10 * p = 10 * s[len - (k + 1)] + digits[len - k]
      BY ONLY <2>2, <2>5
    <3> QED BY ONLY <2>2, <2>6, <3>1, <3>2
  <2>8. \A n \in len - (k + 1) + 1 .. len : n = len - k \/ n \in len - k + 1 .. len
    BY ONLY <1>1, k \in Nat
  <2>9. \A n \in len - (k + 1) + 1 .. len : digits[n] = 0
    BY ONLY <2>1, <2>7, <2>8
  <2> QED BY ONLY <2>3, <2>7, <2>9 DEF p
<1>7. Ends(z)
  <2>1. Nat \subseteq N
    <3> HIDE DEF N
    <3> QED BY ONLY <1>5, <1>6, NaturalsInductive
  <2> QED BY <2>1
<1>8. s[len - z] = a
  <2>1. z - z = 0 /\ a * 1 = a
    BY ONLY z \in Nat, a \in Nat
  <2> QED BY ONLY <1>7, <2>1, TenToZero
<1>9. \A n \in len - z + 1 .. len : n > 0 /\ digits[n] = 0
  BY ONLY <1>1, <1>7, z \in Nat
<1> QED BY ONLY <1>7, <1>8, <1>9 DEF TrailingZeros, len, s

\* What can be scaled down from a long number is long.
LEMMA QuotientIsLong ==
  ASSUME NEW a \in Nat, NEW z \in Nat, NEW k \in Nat, a * TenTo(z) >= TenTo(k + z)
  PROVE  a >= TenTo(k)
<1>1. TenTo(k + z) = TenTo(k) * TenTo(z) /\ TenTo(z) >= 1
  BY TenToSum
<1>2. TenTo(k) \in Nat /\ TenTo(z) \in Nat
  BY TenToType
<1>3. \A x, y, w \in Nat : y >= 1 /\ x < w => x * y < w * y
  OBVIOUS
<1>4. ~(a < TenTo(k))
  <2> SUFFICES ASSUME a < TenTo(k)
               PROVE  FALSE
    OBVIOUS
  <2>1. a * TenTo(z) < TenTo(k) * TenTo(z)
    BY ONLY <1>1, <1>2, <1>3, a \in Nat, a < TenTo(k)
  <2>2. a * TenTo(z) \in Nat /\ TenTo(k) * TenTo(z) \in Nat
    BY ONLY <1>2, a \in Nat
  <2> QED BY ONLY <1>1, <2>1, <2>2, a * TenTo(z) >= TenTo(k + z)
<1> QED BY ONLY <1>2, <1>4, a \in Nat

\* Money is refused only when no amount within the limit is its exact value.
LEMMA RefusalIsRight ==
  ASSUME NEW row \in LegacyRows, Coefficient(row.digits) # 0 => row.digits[1] # 0,
         NEW amount \in 0 .. MaxMicrousd, IsExactly(row, amount)
  PROVE  Microusd(row) # -1
<1>0. ~row.minus
  BY DEF IsExactly
<1> DEFINE digits == row.digits
           len == Len(digits)
           zeros == -(row.exponent + 6)
           c == Coefficient(digits)
<1>1. /\ digits \in Seq(0 .. 9) /\ row.exponent \in Int /\ len \in Nat
      /\ MaxMicrousd \in Nat /\ MaxAdjusted \in Nat
      /\ MaxMicrousd < TenTo(MaxAdjusted + 1)
  BY LegacyAssumption
<1>2. c \in Nat /\ amount \in Nat /\ amount <= MaxMicrousd /\ zeros \in Int
  <2>1. c \in Nat
    <3>1. len \in 0 .. len
      BY ONLY <1>1
    <3> QED BY ONLY <1>1, <3>1, SpelledIs DEF Coefficient
  <2> QED BY ONLY <1>1, <2>1, amount \in 0 .. MaxMicrousd
<1>3. CASE c = 0
  BY <1>0, <1>3 DEF Microusd
<1>4. ASSUME c # 0
      PROVE  len # 0 /\ c >= TenTo(len - 1) /\ TenTo(len - 1) \in Nat
  <2>1. len # 0
    <3>1. Spelled(digits)[0] = 0
      BY ONLY <1>1, SpelledIs
    <3> QED BY ONLY <1>4, <3>1 DEF Coefficient
  <2>2. digits[1] # 0
    BY ONLY <1>4, Coefficient(row.digits) # 0 => row.digits[1] # 0
  <2>3. len - 1 \in Nat
    BY ONLY <1>1, <2>1
  <2> QED BY ONLY <1>1, <2>1, <2>2, <2>3, SpelledIsLong, TenToType
<1>5. ASSUME NEW k \in Nat, k > MaxAdjusted, amount >= TenTo(k)
      PROVE  FALSE
  <2>1. MaxAdjusted + 1 \in Nat /\ MaxAdjusted + 1 <= k
    BY ONLY <1>1, <1>5
  <2>2. TenTo(MaxAdjusted + 1) <= TenTo(k)
    BY ONLY <2>1, k \in Nat, TenToGrows
  <2>3. TenTo(MaxAdjusted + 1) \in Nat /\ TenTo(k) \in Nat
    BY ONLY <2>1, k \in Nat, TenToType
  <2> QED BY ONLY <1>1, <1>2, <1>5, <2>2, <2>3
<1>6. CASE c # 0 /\ zeros <= 0
  <2>1. -zeros \in Nat /\ -zeros = row.exponent + 6
    BY ONLY <1>1, <1>6
  <2>2. c * TenTo(-zeros) = amount
    <3>1. /\ (IF row.exponent > -6 THEN row.exponent + 6 ELSE 0) = -zeros
          /\ (IF row.exponent < -6 THEN -(row.exponent + 6) ELSE 0) = 0
      BY ONLY <1>1, <1>6
    <3>2. c * TenTo(-zeros) = amount * TenTo(0)
      BY ONLY <3>1, IsExactly(row, amount) DEF IsExactly
    <3>3. amount * 1 = amount
      BY ONLY <1>2
    <3> QED BY ONLY <3>2, <3>3, TenToZero
  <2>3. ~(len - 1 + row.exponent + 6 > MaxAdjusted)
    <3> SUFFICES ASSUME len - 1 + row.exponent + 6 > MaxAdjusted
                 PROVE  FALSE
      OBVIOUS
    <3> DEFINE k == (len - 1) + (-zeros)
    <3>1. k \in Nat /\ k > MaxAdjusted /\ len - 1 \in Nat
      <4>1. len - 1 \in Nat
        BY ONLY <1>1, <1>4, <1>6
      <4>2. k = (len - 1) + (row.exponent + 6) /\ row.exponent + 6 \in Nat
        BY ONLY <2>1
      <4>3. k = len - 1 + row.exponent + 6 /\ k \in Nat
        BY ONLY <1>1, <4>1, <4>2
      <4> HIDE DEF k
      <4> QED BY ONLY <4>1, <4>3, len - 1 + row.exponent + 6 > MaxAdjusted
    <3>2. TenTo(k) = TenTo(len - 1) * TenTo(-zeros)
      BY ONLY <2>1, <3>1, TenToSum
    <3>3. TenTo(len - 1) \in Nat /\ TenTo(-zeros) \in Nat /\ c >= TenTo(len - 1)
      BY ONLY <1>4, <1>6, <2>1, TenToType
    <3>4. \A x, y, w \in Nat : x >= y => x * w >= y * w
      OBVIOUS
    <3>5. amount >= TenTo(k)
      BY ONLY <1>2, <2>2, <3>2, <3>3, <3>4
    <3> HIDE DEF k
    <3> QED BY ONLY <1>5, <3>1, <3>5
  <2>4. ~(zeros > 0) /\ ~(c * TenTo(-zeros) > MaxMicrousd)
    BY ONLY <1>1, <1>2, <1>6, <2>2
  <2>5. Microusd(row) = c * TenTo(-zeros)
    BY ONLY Zenon, <1>0, <1>6, <2>3, <2>4 DEF Microusd
  <2> QED BY ONLY <1>2, <2>2, <2>5
<1>7. CASE c # 0 /\ zeros > 0
  <2>1. zeros \in Nat /\ ~(zeros <= 0)
    BY ONLY <1>2, <1>7
  <2>2. c = amount * TenTo(zeros)
    <3>1. /\ (IF row.exponent > -6 THEN row.exponent + 6 ELSE 0) = 0
          /\ (IF row.exponent < -6 THEN -(row.exponent + 6) ELSE 0) = zeros
      BY ONLY <1>1, <1>7
    <3>2. c * TenTo(0) = amount * TenTo(zeros)
      BY ONLY <3>1, IsExactly(row, amount) DEF IsExactly
    <3>3. c * 1 = c
      BY ONLY <1>2
    <3> QED BY ONLY <3>2, <3>3, TenToZero
  <2>3. /\ zeros <= len /\ TrailingZeros(digits, zeros)
        /\ Spelled(digits)[len - zeros] = amount
    <3>1. Coefficient(digits) # 0 /\ Coefficient(digits) = amount * TenTo(zeros)
      BY ONLY <1>7, <2>2
    <3> HIDE DEF digits, zeros
    <3> QED BY ONLY Zenon, <1>1, <1>2, <2>1, <3>1, MultipleEndsInZeros DEF len
  <2>4. ~(len - 1 + row.exponent + 6 > MaxAdjusted)
    <3> SUFFICES ASSUME len - 1 + row.exponent + 6 > MaxAdjusted
                 PROVE  FALSE
      OBVIOUS
    <3> DEFINE k == (len - 1) - zeros
    <3>1. k \in Nat /\ k > MaxAdjusted /\ k + zeros = len - 1
      <4>1. k = len - 1 + row.exponent + 6 /\ k \in Int
        BY ONLY <1>1
      <4>2. k > MaxAdjusted /\ MaxAdjusted \in Nat
        BY ONLY <1>1, <4>1, len - 1 + row.exponent + 6 > MaxAdjusted
      <4>3. k + zeros = len - 1
        BY ONLY <1>1, <2>1
      <4> HIDE DEF k
      <4> QED BY ONLY <4>1, <4>2, <4>3
    <3>2. amount * TenTo(zeros) >= TenTo(k + zeros)
      BY ONLY <1>4, <1>7, <2>2, <3>1
    <3>3. amount >= TenTo(k)
      BY ONLY <1>2, <2>1, <3>1, <3>2, QuotientIsLong
    <3> HIDE DEF k
    <3> QED BY ONLY <1>5, <3>1, <3>3
  <2>5. ~(amount > MaxMicrousd)
    BY ONLY <1>1, <1>2
  <2>6. Microusd(row) = Spelled(digits)[len - zeros]
    BY ONLY Zenon, <1>0, <1>7, <2>1, <2>3, <2>4, <2>5 DEF Microusd
  <2> QED BY ONLY <1>2, <2>3, <2>6
<1> QED BY ONLY <1>2, <1>3, <1>6, <1>7

\* _decimal_to_integral_microusd of legacy_import.py converts every decimal
\* that is a whole number of microusd within the limit, to that number, and
\* refuses every other and any sign: for all digits, exponents and limits.  The digits
\* of a decimal do not begin with a zero unless all of them are zeros.
THEOREM MoneyIsConverted ==
  ASSUME NEW row \in LegacyRows, Coefficient(row.digits) # 0 => row.digits[1] # 0
  PROVE  IF \E amount \in 0 .. MaxMicrousd : IsExactly(row, amount)
         THEN Microusd(row) \in 0 .. MaxMicrousd /\ IsExactly(row, Microusd(row))
         ELSE Microusd(row) = -1
<1>1. CASE Microusd(row) = -1
  BY <1>1, RefusalIsRight
<1>2. CASE Microusd(row) # -1
  BY <1>2, MicrousdIsExact
<1> QED BY ONLY <1>1, <1>2

-----------------------------------------------------------------------------
(* The legacy import: batches *)

\* The rows that a batch has brought in.
BroughtIn(b) == {p[2] : p \in {q \in promotions : q[1] = b}}

PromotedWhole ==
  \A b \in Batches :
    BroughtIn(b) = IF batches[b] # NoImport /\ batches[b].status = "promoted"
                   THEN batches[b].rows ELSE {}

PromotionsAreSettled ==
  \A p \in promotions :
    Microusd(p[2]) # -1 /\ settlements[p[2].key] = Microusd(p[2])

OneRowPerKey == \A p, q \in promotions : p[2].key = q[2].key => p[2] = q[2]

PromotingReadWell ==
  \A i \in Importers : Importing(i, "promote") => ReadsWell(imports[i].rows)

LegacyInv ==
  /\ LegacyTypeOK
  /\ PromotedWhole /\ PromotionsAreSettled /\ OneRowPerKey /\ PromotingReadWell

LEMMA LegacyInitInv == LegacyInit => LegacyInv
  BY DEF LegacyInit, LegacyInv, LegacyTypeOK, PromotedWhole, BroughtIn,
         PromotionsAreSettled, OneRowPerKey, PromotingReadWell, Importing

\* Steps that write no settlement and promote nothing.
LEMMA NoPromotionKeepsInv ==
  ASSUME LegacyInv, LegacyTypeOK', UNCHANGED <<settlements, promotions>>,
         \A b \in Batches : \/ batches'[b] = batches[b]
                            \/ batches[b] = NoImport /\ batches'[b].status = "quarantined",
         PromotingReadWell'
  PROVE  LegacyInv'
<1> USE DEF LegacyInv
<1>1. PromotedWhole'
  BY DEF PromotedWhole, BroughtIn
<1>2. PromotionsAreSettled' /\ OneRowPerKey'
  BY DEF PromotionsAreSettled, OneRowPerKey
<1> QED BY <1>1, <1>2

LEMMA ReadSourceKeepsInv ==
  ASSUME LegacyInv, NEW i \in Importers, NEW b \in Batches, NEW rows \in Sources,
         ReadSource(i, b, rows)
  PROVE  LegacyInv'
<1> USE DEF LegacyInv, ReadSource
<1> DEFINE new == [batch |-> b, rows |-> rows,
                   stage |-> IF ReadsWell(rows) THEN "promote" ELSE "quarantine"]
<1>1. new \in Import
  BY DEF Import
<1>2. LegacyTypeOK'
  BY <1>1 DEF LegacyTypeOK
<1>3. imports'[i] = new /\ \A j \in Importers : j # i => imports'[j] = imports[j]
  BY DEF LegacyTypeOK
<1>4. PromotingReadWell'
  BY <1>3 DEF PromotingReadWell, Importing, ReadsWell
<1> QED BY <1>2, <1>4, NoPromotionKeepsInv

\* An importer that stops promoting leaves the others as they are.
LEMMA OtherImportersReadWell ==
  ASSUME LegacyInv, NEW i \in Importers, imports' \in [Importers -> Import \cup {NoImport}],
         \A j \in Importers : j # i => imports'[j] = imports[j],
         imports'[i] = NoImport \/ imports'[i].stage = "quarantine"
  PROVE  PromotingReadWell'
  BY DEF LegacyInv, PromotingReadWell, Importing, ReadsWell

LEMMA LeavingKeepsInv ==
  ASSUME LegacyInv, NEW i \in Importers,
         PromotionFails(i) \/ RecordQuarantine(i) \/ LeaveImport(i)
  PROVE  LegacyInv'
<1> USE DEF LegacyInv, LegacyTypeOK
<1>1. imports[i] # NoImport /\ imports[i] \in Import
  BY DEF PromotionFails, RecordQuarantine, LeaveImport, Importing
<1>2. /\ imports' \in [Importers -> Import \cup {NoImport}]
      /\ \A j \in Importers : j # i => imports'[j] = imports[j]
      /\ imports'[i] = NoImport \/ imports'[i].stage = "quarantine"
      /\ UNCHANGED <<settlements, promotions>>
  BY <1>1 DEF PromotionFails, RecordQuarantine, LeaveImport, EndImport, Import
<1>3. PromotingReadWell'
  BY <1>2, OtherImportersReadWell
<1>4. CASE UNCHANGED batches
  BY <1>2, <1>3, <1>4, NoPromotionKeepsInv
<1>5. CASE RecordQuarantine(i)
  <2>1. [rows |-> imports[i].rows, status |-> "quarantined"] \in Batch
    BY <1>1 DEF Import, Batch
  <2>2. /\ batches' \in [Batches -> Batch \cup {NoImport}]
        /\ \A b \in Batches : \/ batches'[b] = batches[b]
                              \/ batches[b] = NoImport /\ batches'[b].status = "quarantined"
    BY <1>5, <2>1 DEF RecordQuarantine
  <2> QED BY <1>2, <1>3, <2>2, NoPromotionKeepsInv
<1> QED BY <1>4, <1>5 DEF PromotionFails, LeaveImport

LEMMA SettleAtRuntimeKeepsInv ==
  ASSUME LegacyInv, NEW k \in Keys, NEW amount \in {0, MaxMicrousd},
         SettleAtRuntime(k, amount)
  PROVE  LegacyInv'
<1> USE DEF LegacyInv, SettleAtRuntime
<1>1. LegacyTypeOK'
  BY LegacyAssumption DEF LegacyTypeOK
<1>2. PromotionsAreSettled'
  <2> SUFFICES ASSUME NEW p \in promotions
               PROVE  Microusd(p[2]) # -1 /\ settlements'[p[2].key] = Microusd(p[2])
    BY DEF PromotionsAreSettled
  <2>1. p[2] \in LegacyRows /\ Microusd(p[2]) # -1 /\ settlements[p[2].key] = Microusd(p[2])
    BY DEF PromotionsAreSettled, LegacyTypeOK
  <2>2. Microusd(p[2]) \in Nat
    BY <2>1, MicrousdIsExact, LegacyAssumption
  <2>3. p[2].key # k
    BY <2>1, <2>2, LegacyAssumption
  <2> QED BY <2>1, <2>3 DEF LegacyTypeOK
<1>3. PromotedWhole' /\ OneRowPerKey' /\ PromotingReadWell'
  BY DEF PromotedWhole, BroughtIn, OneRowPerKey, PromotingReadWell, Importing, ReadsWell
<1> QED BY <1>1, <1>2, <1>3

\* The rows of a batch are promoted together, and a settlement that was there
\* keeps its amount.
LEMMA PromoteRowsKeepsInv ==
  ASSUME LegacyInv, NEW i \in Importers, PromoteRows(i)
  PROVE  LegacyInv'
<1> USE DEF LegacyInv
<1> DEFINE b == imports[i].batch
           rows == imports[i].rows
           Row(k) == CHOOSE row \in rows : row.key = k
<1>1. /\ b \in Batches /\ rows \in SUBSET LegacyRows /\ rows \in Sources
      /\ batches[b] = NoImport
      /\ promotions' = promotions \cup ({b} \X rows)
      /\ batches' = [batches EXCEPT ![b] = [rows |-> rows, status |-> "promoted"]]
      /\ imports' = [imports EXCEPT ![i] = NoImport]
  BY DEF PromoteRows, LegacyTypeOK, Importing, Import, Sources, EndImport
<1>2. /\ settlements' = [k \in Keys |->
           IF \E row \in rows : row.key = k THEN Microusd(Row(k)) ELSE settlements[k]]
      /\ SamePayload(rows)
  BY DEF PromoteRows
<1>3. ReadsWell(rows)
  BY DEF PromoteRows, PromotingReadWell
<1>4. [rows |-> rows, status |-> "promoted"] \in Batch
  BY <1>1 DEF Batch
<1> HIDE DEF b, rows
<1>5. ASSUME NEW row \in rows
      PROVE  /\ row \in LegacyRows /\ row.key \in Keys /\ Row(row.key) = row
             /\ Microusd(row) # -1 /\ settlements'[row.key] = Microusd(row)
  <2>1. row \in LegacyRows /\ row.key \in Keys
    BY <1>1 DEF Keys
  <2>2. Row(row.key) \in rows /\ Row(row.key).key = row.key
    OBVIOUS
  <2>3. Row(row.key) = row /\ Microusd(row) # -1
    BY <2>2, <1>3 DEF ReadsWell
  <2> HIDE DEF Row
  <2> QED BY <1>2, <2>1, <2>3
<1>6. LegacyTypeOK'
  <2>1. settlements' \in [Keys -> 0 .. MaxMicrousd \cup {Unsettled}]
    <3> SUFFICES ASSUME NEW k \in Keys
                 PROVE  settlements'[k] \in 0 .. MaxMicrousd \cup {Unsettled}
      BY <1>2
    <3>1. CASE \E row \in rows : row.key = k
      BY <3>1, <1>5, MicrousdIsExact
    <3>2. CASE ~ \E row \in rows : row.key = k
      BY <3>2, <1>2 DEF LegacyTypeOK
    <3> QED BY <3>1, <3>2
  <2>2. promotions' \subseteq Batches \X LegacyRows
    BY <1>1 DEF LegacyTypeOK
  <2> QED BY <1>1, <1>4, <2>1, <2>2 DEF LegacyTypeOK
<1>7. PromotedWhole'
  <2> SUFFICES ASSUME NEW c \in Batches
               PROVE  BroughtIn(c)' = IF batches'[c] # NoImport /\ batches'[c].status = "promoted"
                                      THEN batches'[c].rows ELSE {}
    BY DEF PromotedWhole
  <2>1. CASE c # b
    <3>1. BroughtIn(c)' = BroughtIn(c) /\ batches'[c] = batches[c]
      BY <2>1, <1>1 DEF BroughtIn, LegacyTypeOK
    <3> QED BY <3>1 DEF PromotedWhole
  <2>2. CASE c = b
    <3>1. BroughtIn(c) = {}
      BY <2>2, <1>1 DEF PromotedWhole
    <3>2. {q \in promotions : q[1] = c} = {}
      BY <3>1 DEF BroughtIn
    <3>3. {q \in promotions' : q[1] = c} = {c} \X rows
      BY <2>2, <3>2, <1>1
    <3>4. BroughtIn(c)' = {p[2] : p \in {c} \X rows}
      BY <3>3 DEF BroughtIn
    <3>5. BroughtIn(c)' = rows
      <4>1. \A row \in rows : <<c, row>> \in {c} \X rows /\ <<c, row>>[2] = row
        OBVIOUS
      <4> QED BY <3>4, <4>1
    <3>6. batches'[c] = [rows |-> rows, status |-> "promoted"] /\ batches'[c] # NoImport
      BY <2>2, <1>1, <1>4, LegacyAssumption DEF LegacyTypeOK
    <3> QED BY <3>5, <3>6
  <2> QED BY <2>1, <2>2
<1>8. PromotionsAreSettled'
  <2> SUFFICES ASSUME NEW p \in promotions'
               PROVE  Microusd(p[2]) # -1 /\ settlements'[p[2].key] = Microusd(p[2])
    BY DEF PromotionsAreSettled
  <2>1. CASE p[2] \in rows
    BY <2>1, <1>5
  <2>2. CASE p \in promotions /\ \E row \in rows : row.key = p[2].key
    <3>1. p[2] \in rows
      BY <2>2, <1>2 DEF SamePayload
    <3> QED BY <3>1, <1>5
  <2>3. CASE p \in promotions /\ ~ \E row \in rows : row.key = p[2].key
    <3>1. p[2].key \in Keys
      BY <2>3 DEF LegacyTypeOK, Keys
    <3> QED BY <2>3, <3>1, <1>2 DEF PromotionsAreSettled
  <2> QED BY <2>1, <2>2, <2>3, <1>1
<1>9. OneRowPerKey'
  <2> SUFFICES ASSUME NEW p \in promotions', NEW q \in promotions', p[2].key = q[2].key
               PROVE  p[2] = q[2]
    BY DEF OneRowPerKey
  <2>1. /\ p \in promotions \/ p[2] \in rows
        /\ q \in promotions \/ q[2] \in rows
    BY <1>1
  <2> QED BY <2>1, <1>2, <1>3 DEF SamePayload, ReadsWell, OneRowPerKey
<1>10. PromotingReadWell'
  BY <1>1, OtherImportersReadWell DEF LegacyTypeOK
<1> QED BY <1>6, <1>7, <1>8, <1>9, <1>10

LEMMA LegacyStep == LegacyInv /\ [LegacyNext]_legacyVars => LegacyInv'
<1>1. LegacyInv /\ UNCHANGED legacyVars => LegacyInv'
  BY DEF legacyVars, LegacyInv, LegacyTypeOK, PromotedWhole, BroughtIn,
         PromotionsAreSettled, OneRowPerKey, PromotingReadWell, Importing, ReadsWell
<1> QED BY <1>1, ReadSourceKeepsInv, PromoteRowsKeepsInv, LeavingKeepsInv,
           SettleAtRuntimeKeepsInv DEF LegacyNext

\* Whatever imports overlap, fail, die and are repeated, legacy_import.py
\* brings a batch in as a whole or not at all, converts the money of its rows
\* exactly, and explains no settlement by two raw rows: for any rows with any
\* decimal digits and exponents.
THEOREM ImportStaysExact == LegacySpec => []ImportIsExact
<1>1. LegacySpec => []LegacyInv
  BY LegacyInitInv, LegacyStep, PTL DEF LegacySpec
<1>2. ASSUME LegacyInv
      PROVE  ImportIsExact
  <2>1. ASSUME NEW p \in promotions
        PROVE  IsExactly(p[2], settlements[p[2].key])
    BY <1>2, MicrousdIsExact DEF LegacyInv, PromotionsAreSettled, LegacyTypeOK
  <2> QED BY <1>2, <2>1
          DEF ImportIsExact, LegacyInv, PromotedWhole, BroughtIn, OneRowPerKey
<1> QED BY <1>1, <1>2, PTL
-----------------------------------------------------------------------------
(* The parts together: types *)

\* The types of the forced rollback are inductive with the ids its calls have.
CallsHaveIds == \A p \in Rollbacks : step[p] # "idle" => rid[p] \in RollbackIds

RollbackTypes == RollbackTypeOK /\ CallsHaveIds

LEMMA RollbackTypesInit == RollbackInit => RollbackTypes
  BY RollbackAssumption
  DEF RollbackInit, RollbackTypes, RollbackTypeOK, Steps, Databases, CallsHaveIds

LEMMA RollbackTypesStep == RollbackTypes /\ [RollbackNext]_rollbackVars => RollbackTypes'
<1> SUFFICES ASSUME RollbackTypes, [RollbackNext]_rollbackVars
             PROVE  RollbackTypes'
  OBVIOUS
<1> USE DEF RollbackTypes, RollbackTypeOK, CallsHaveIds, Steps, To,
            diskVars, databaseVars, reportVars, processVars
<1>1. ASSUME NEW p \in Rollbacks, NEW i \in RollbackIds, Begin(p, i)
      PROVE  RollbackTypes'
  BY <1>1 DEF Begin
<1>2. ASSUME NEW p \in Rollbacks, NEW from \in Steps \ {"idle"}, NEW next \in Steps,
             \/ RemoveSource(p, from, next) \/ RestoreDatabase(p, from, next)
             \/ RestoreSidecar(p, from, next) \/ UnlinkIntent(p, from, next)
      PROVE  RollbackTypes'
  BY <1>2 DEF RemoveSource, RestoreDatabase, RestoreSidecar, UnlinkIntent
<1>3. ASSUME NEW p \in Rollbacks, Forward(p)
      PROVE  RollbackTypes'
  <2>1. CASE Lock(p) \/ AuditView(p) \/ Intend(p) \/ Move(p)
    BY <2>1 DEF Lock, AuditView, Intend, Move
  <2>2. CASE MoveSidecar(p) \/ MoveSidecarFails(p) \/ Guard(p)
    BY <2>2 DEF MoveSidecar, MoveSidecarFails, Guard
  <2>3. CASE WriteReceipt(p) \/ BindReceipt(p) \/ SignReceipt(p)
    BY <2>3 DEF WriteReceipt, BindReceipt, SignReceipt
  <2>4. CASE Raise(p)
    BY <2>4 DEF Raise
  <2> QED BY <1>3, <2>1, <2>2, <2>3, <2>4 DEF Forward
<1>4. ASSUME NEW p \in Rollbacks,
             \/ ReleaseGuard(p) \/ ReleaseFails(p) \/ Confirm(p) \/ Undo(p)
             \/ GiveUp(p) \/ Reread(p) \/ ReportRolledBack(p) \/ Return(p)
      PROVE  RollbackTypes'
  <2>1. CASE ReleaseGuard(p) \/ ReleaseFails(p) \/ Confirm(p) \/ Undo(p)
    BY <2>1 DEF ReleaseGuard, ReleaseFails, Confirm, Undo
  <2>2. CASE GiveUp(p) \/ Reread(p) \/ ReportRolledBack(p) \/ Return(p)
    BY <2>2 DEF GiveUp, Reread, ReportRolledBack, Return, Unlock
  <2> QED BY ONLY <1>4, <2>1, <2>2
<1>5. CASE Create \/ Log
  BY <1>5, RollbackAssumption DEF Create, Log, Databases
<1>6. CASE UNCHANGED rollbackVars
  BY <1>6 DEF rollbackVars
<1>7. ASSUME NEW p \in Rollbacks, Unguard(p) \/ Finish(p) \/ Crash(p)
      PROVE  RollbackTypes'
  BY <1>2, <1>4, <1>7 DEF Unguard, Finish, Crash
<1> QED BY <1>1, <1>3, <1>5, <1>6, <1>7 DEF RollbackNext

\* The part that takes steps keeps its invariant.
PartInv ==
  /\ part \in Parts
  /\ part = "canary" => CanaryRowsInv
  /\ part = "rollback" => RollbackTypes
  /\ part = "attestation" => AttestationInv
  /\ part = "adapter" => OwnershipInv
  /\ part = "trust" => TrustInv
  /\ part = "migrations" => MigrationInv
  /\ part = "legacy" => LegacyInv
  /\ part = "soak" => SoakInv
  /\ part = "live" => LiveInv
  /\ part = "catalog" => CatalogInv
  /\ part = "metadata" => MetadataInv

LEMMA PartInitInv == ControlInit => PartInv
  BY CanaryRowsInit, RollbackTypesInit, AttestationInitInv, AdapterInitInv, TrustInitInv,
     MigrationInitInv, LegacyInitInv, SoakInitInv, LiveInitInv, CatalogInitInv,
     MetadataInitInv
  DEF ControlInit, PartInv

LEMMA PartStep == PartInv /\ [ControlNext]_<<part, partVars>> => PartInv'
<1>1. ASSUME PartInv, ControlNext
      PROVE  PartInv'
  BY <1>1, CanaryRowsStep, RollbackTypesStep, AttestationStep, OwnershipStep, TrustInvStep,
     MigrationStep, LegacyStep, SoakStep, LiveStep, CatalogStep, MetadataStep
  DEF ControlNext, PartInv
<1>2. ASSUME PartInv, UNCHANGED <<part, partVars>>
      PROVE  PartInv'
  BY <1>2, CanaryRowsStep, RollbackTypesStep, AttestationStep, OwnershipStep, TrustInvStep,
     MigrationStep, LegacyStep, SoakStep, LiveStep, CatalogStep, MetadataStep
  DEF partVars, PartInv
<1> QED BY <1>1, <1>2

\* Every part keeps its types, whichever of them takes steps: for any values
\* of the constants that satisfy the parts' assumptions.
THEOREM PartsKeepTypes == ControlSpec => []ControlTypeOK
<1>1. PartInv => ControlTypeOK
  BY DEF PartInv, Parts, ControlTypeOK, CanaryRowsInv, RollbackTypes, AttestationInv,
         OwnershipInv, TrustInv, MigrationInv, LegacyInv, SoakInv, LiveInv, CatalogInv,
         MetadataInv
<1> QED BY <1>1, PartInitInv, PartStep, PTL DEF ControlSpec
-----------------------------------------------------------------------------
(* The parts together: every one of them behaves as its own specification *)

LEMMA EachPartSteps ==
  ASSUME [ControlNext]_<<part, partVars>>
  PROVE  /\ [CanaryNext]_canaryPart
         /\ [RollbackNext]_rollbackVars
         /\ [AttestationNext]_attestationVars
         /\ [AdapterNext]_adapterVars
         /\ [TrustNext]_trustVars
         /\ [MigrationNext]_migrationVars
         /\ [LegacyNext]_legacyVars
         /\ [SoakNext]_soakVars
         /\ [LiveNext]_liveVars
         /\ [CatalogNext]_catalogVars
         /\ [MetadataNext]_metadataVars
<1>1. CASE UNCHANGED <<part, partVars>>
  BY <1>1 DEF partVars
<1>2. CASE ControlNext
  <2>1. [CanaryNext]_canaryPart
    BY <1>2 DEF ControlNext, Keeps
  <2>2. [RollbackNext]_rollbackVars
    BY <1>2 DEF ControlNext, Keeps
  <2>3. [AttestationNext]_attestationVars
    BY <1>2 DEF ControlNext, Keeps
  <2>4. [AdapterNext]_adapterVars
    BY <1>2 DEF ControlNext, Keeps
  <2>5. [TrustNext]_trustVars
    BY <1>2 DEF ControlNext, Keeps
  <2>6. [MigrationNext]_migrationVars
    BY <1>2 DEF ControlNext, Keeps
  <2>7. [LegacyNext]_legacyVars
    BY <1>2 DEF ControlNext, Keeps
  <2>8. [SoakNext]_soakVars
    BY <1>2 DEF ControlNext, Keeps
  <2>9. [LiveNext]_liveVars
    BY <1>2 DEF ControlNext, Keeps
  <2>10. [CatalogNext]_catalogVars
    BY <1>2 DEF ControlNext, Keeps
  <2>11. [MetadataNext]_metadataVars
    BY <1>2 DEF ControlNext, Keeps
  <2> QED BY <2>1, <2>2, <2>3, <2>4, <2>5, <2>6, <2>7, <2>8, <2>9, <2>10, <2>11
<1> QED BY <1>1, <1>2

\* A behaviour of the parts together is one of every part's specification, so
\* that what is proved of a part holds of it here.
THEOREM PartsAreThemselves ==
  ControlSpec =>
    /\ CanarySpec
    /\ RollbackSpec
    /\ AttestationSpec
    /\ AdapterSpec
    /\ TrustSpec
    /\ MigrationSpec
    /\ LegacySpec
    /\ SoakSpec
    /\ LiveSpec
    /\ CatalogSpec
    /\ MetadataSpec
<1>1. ControlInit =>
        /\ CanaryInit
        /\ RollbackInit
        /\ AttestationInit
        /\ AdapterInit
        /\ TrustInit
        /\ MigrationInit
        /\ LegacyInit
        /\ SoakInit
        /\ LiveInit
        /\ CatalogInit
        /\ MetadataInit
  BY DEF ControlInit
<1> QED BY <1>1, EachPartSteps, PTL
       DEF ControlSpec, CanarySpec, RollbackSpec, AttestationSpec, AdapterSpec, TrustSpec,
           MigrationSpec, LegacySpec, SoakSpec, LiveSpec, CatalogSpec, MetadataSpec
=============================================================================
