---------------------------- MODULE MetadataProbe ----------------------------
(***************************************************************************)
(* MetadataDispatchProbe: what the probe remembers of the answers of an    *)
(* adapter that may answer anything, and which answers it returns.  A      *)
(* refused answer raises and changes nothing, so only the calls that       *)
(* return are steps.  An intent is its idempotency key and the metadata of *)
(* its owner; metadata in an answer is that of some intent, or none.       *)
(***************************************************************************)
CONSTANTS
  IntentKeys,     \* idempotency keys, of acquires, releases and spawns
  IntentOwners,
  FoundLeases,
  FoundSessions,
  Unknown         \* no entry, no metadata, no identity

Intents == [key : IntentKeys, owner : IntentOwners]
ReleaseIntents == [key : IntentKeys, owner : IntentOwners, lease : FoundLeases]
LeaseMetadata == [intent : Intents, lease : FoundLeases]
SessionEntries == [intent : Intents, session : FoundSessions]

ASSUME IntentAssumption ==
  Unknown \notin Intents \cup FoundLeases \cup FoundSessions \cup ReleaseIntents
                   \cup LeaseMetadata \cup SessionEntries

VARIABLES
  leaseByKey,       \* _lease_by_acquire_key
  leaseIntent,      \* _lease_by_gateway_id
  releaseByKey,     \* _release_by_key: the lease is that of the intent
  sessionByKey,     \* _session_by_spawn_key
  sessionIntent,    \* _session_intent_by_key
  leaseAnswers,     \* every <<intent, lease>> an acquire or a status returned
  releaseAnswers,   \* every release that returned
  sessionAnswers    \* every <<intent, session>> a spawn or a read returned

leaseBooks == <<leaseByKey, leaseIntent, leaseAnswers>>
releaseBooks == <<releaseByKey, releaseAnswers>>
sessionBooks == <<sessionByKey, sessionIntent, sessionAnswers>>
metadataVars == <<leaseBooks, releaseBooks, sessionBooks>>

MetadataTypeOK ==
  /\ leaseByKey \in [IntentKeys -> LeaseMetadata \cup {Unknown}]
  /\ leaseIntent \in [FoundLeases -> Intents \cup {Unknown}]
  /\ releaseByKey \in [IntentKeys -> ReleaseIntents \cup {Unknown}]
  /\ sessionByKey \in [IntentKeys -> SessionEntries \cup {Unknown}]
  /\ sessionIntent \in [FoundSessions -> Intents \cup {Unknown}]
  /\ leaseAnswers \subseteq Intents \X FoundLeases
  /\ releaseAnswers \subseteq ReleaseIntents
  /\ sessionAnswers \subseteq Intents \X FoundSessions

MetadataInit ==
  /\ leaseByKey = [k \in IntentKeys |-> Unknown]
  /\ leaseIntent = [l \in FoundLeases |-> Unknown]
  /\ releaseByKey = [k \in IntentKeys |-> Unknown]
  /\ sessionByKey = [k \in IntentKeys |-> Unknown]
  /\ sessionIntent = [s \in FoundSessions |-> Unknown]
  /\ leaseAnswers = {} /\ releaseAnswers = {} /\ sessionAnswers = {}

-----------------------------------------------------------------------------
(* Observations *)

\* The normalized and the raw metadata of an answer, and its contract version.
Observed(metadata) ==
  [normalized : metadata \cup {Unknown}, raw : metadata \cup {Unknown}, versioned : BOOLEAN]

\* validate_metadata_observation and its variants for leases
Echoes(local, observation) ==
  /\ observation.versioned
  /\ observation.normalized = local
  /\ observation.raw = local

\* An answer about a session: its metadata, whether the raw metadata and the
\* version agree with it, the identity that external_id and session_key name
\* and the one that spawn_request_session_key names.
SessionObservations ==
  [normalized : Intents \cup {Unknown}, agrees : BOOLEAN,
   named : FoundSessions \cup {Unknown}, requested : FoundSessions \cup {Unknown}]

\* _validate_session_observation
IsSessionOf(intent, session, observation) ==
  /\ observation.normalized = intent /\ observation.agrees
  /\ observation.named = session /\ observation.requested = session

-----------------------------------------------------------------------------
(* Leases *)

\* An intent is new at its key or was there before, with the same identity.
Replays(book, key, entry) == book[key] \in {entry, Unknown}

AcquireIntent(i) ==
  \E observation \in Observed(LeaseMetadata), l \in FoundLeases :
    LET entry == [intent |-> i, lease |-> l]
    IN  /\ Echoes(entry, observation)
        /\ Replays(leaseByKey, i.key, entry)
        /\ leaseIntent[l] \in {i, Unknown}
        /\ leaseByKey' = [leaseByKey EXCEPT ![i.key] = entry]
        /\ leaseIntent' = [leaseIntent EXCEPT ![l] = i]
        /\ leaseAnswers' = leaseAnswers \cup {<<i, l>>}
        /\ UNCHANGED <<releaseBooks, sessionBooks>>

StatusOfLease(i, l) ==
  /\ leaseIntent[l] = i
  /\ \E observation \in Observed(LeaseMetadata) :
       Echoes([intent |-> i, lease |-> l], observation)
  /\ leaseAnswers' = leaseAnswers \cup {<<i, l>>}
  /\ UNCHANGED <<leaseByKey, leaseIntent, releaseBooks, sessionBooks>>

\* The owner of the release must be that of the acquire; the keys differ.
ReleaseIntent(r) ==
  /\ Replays(releaseByKey, r.key, r)
  /\ leaseIntent[r.lease] # Unknown
  /\ leaseIntent[r.lease].owner = r.owner
  /\ \E observation \in Observed(ReleaseIntents) : Echoes(r, observation)
  /\ releaseByKey' = [releaseByKey EXCEPT ![r.key] = r]
  /\ releaseAnswers' = releaseAnswers \cup {r}
  /\ UNCHANGED <<leaseBooks, sessionBooks>>

-----------------------------------------------------------------------------
(* Sessions *)

AnswerSession(i, s) == sessionAnswers' = sessionAnswers \cup {<<i, s>>}

\* Mutant: a session that another intent spawned is taken over.
SpawnAnySession(i) ==
  \E observation \in SessionObservations, s \in FoundSessions :
    LET entry == [intent |-> i, session |-> s]
    IN  /\ IsSessionOf(i, s, observation)
        /\ Replays(sessionByKey, i.key, entry)
        /\ sessionByKey' = [sessionByKey EXCEPT ![i.key] = entry]
        /\ sessionIntent' = [sessionIntent EXCEPT ![s] = i]
        /\ AnswerSession(i, s)
        /\ UNCHANGED <<leaseBooks, releaseBooks>>

SpawnIntent(i) ==
  \E observation \in SessionObservations, s \in FoundSessions :
    LET entry == [intent |-> i, session |-> s]
    IN  /\ IsSessionOf(i, s, observation)
        /\ Replays(sessionByKey, i.key, entry)
        /\ sessionIntent[s] \in {i, Unknown}
        /\ sessionByKey' = [sessionByKey EXCEPT ![i.key] = entry]
        /\ sessionIntent' = [sessionIntent EXCEPT ![s] = i]
        /\ AnswerSession(i, s)
        /\ UNCHANGED <<leaseBooks, releaseBooks>>

\* status_session and result_session
ReadIntent(i, s) ==
  /\ sessionIntent[s] = i
  /\ \E observation \in SessionObservations : IsSessionOf(i, s, observation)
  /\ AnswerSession(i, s)
  /\ UNCHANGED <<leaseBooks, releaseBooks, sessionByKey, sessionIntent>>

\* Items that name the session or carry the metadata of its intent.
MatchesIn(listed, i, s) ==
  {k \in DOMAIN listed : listed[k].named = s \/ listed[k].normalized = i}

ListIntent(i, s) ==
  /\ sessionIntent[s] = i
  /\ \E first, second \in SessionObservations :
       \E listed \in {<<first>>, <<first, second>>} :
         \E k \in MatchesIn(listed, i, s) :
           /\ MatchesIn(listed, i, s) = {k}
           /\ IsSessionOf(i, s, listed[k])
  /\ AnswerSession(i, s)
  /\ UNCHANGED <<leaseBooks, releaseBooks, sessionByKey, sessionIntent>>

MetadataNext ==
  \/ \E i \in Intents :
       \/ AcquireIntent(i) \/ SpawnIntent(i)
       \/ \E l \in FoundLeases : StatusOfLease(i, l)
       \/ \E s \in FoundSessions : ReadIntent(i, s) \/ ListIntent(i, s)
  \/ \E r \in ReleaseIntents : ReleaseIntent(r)

MetadataSpec == MetadataInit /\ [][MetadataNext]_metadataVars

-----------------------------------------------------------------------------
(* Properties *)

\* Whatever the adapter answers, and whatever is replayed: a key is one
\* intent and one identity, an identity belongs to one intent, and a lease is
\* released only for the owner that acquired it.
IdentitiesAreStable ==
  /\ \A a, b \in leaseAnswers : a[1].key = b[1].key \/ a[2] = b[2] => a = b
  /\ \A a, b \in sessionAnswers : a[1].key = b[1].key \/ a[2] = b[2] => a = b
  /\ \A a, b \in releaseAnswers : a.key = b.key => a = b
  /\ \A r \in releaseAnswers : \E a \in leaseAnswers :
       a[1].owner = r.owner /\ a[2] = r.lease
=============================================================================
