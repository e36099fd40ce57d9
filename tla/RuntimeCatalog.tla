--------------------------- MODULE RuntimeCatalog ---------------------------
(***************************************************************************)
(* openclaw-tool-capability-preflight.py against an installed OpenClaw     *)
(* that may be replaced, file by file, while the preflight looks at it.    *)
(* Files only ever get new contents: a content that comes back unnoticed   *)
(* between two looks is beyond any comparison of digests.  The executable  *)
(* stands for itself and its package file; what the sources declare is not *)
(* interpreted.  A missing file, an unreadable one and one more are other  *)
(* contents.                                                               *)
(***************************************************************************)
EXTENDS Naturals, Sequences

CONSTANTS
  SourceFiles,   \* the installed runtime sources
  MaxVersion     \* bound: contents of each file, and heads of the worktree

ASSUME CatalogAssumption == MaxVersion \in Nat \ {0}

VARIABLES
  executable, content,   \* contents that are installed
  head, dirty,          \* the worktree of the preflight
  binding,              \* head in the evidence binding, 0 without evidence
  heads,                \* heads since the binding was captured
  identity, digest,     \* the digests of executable and sources
  ranBy,                \* executables that ran the calls
  scanned,              \* contents of the sources that the scan read
  todo, looked,         \* the next steps; files this step has read
  split,                \* tools.catalog failed
  corroborated,         \* both status calls were answered as they must be
  payload, written      \* what was found, what is in the evidence file

installed == <<executable, content>>
worktree == <<head, dirty, heads>>
captured == <<identity, digest>>
catalogVars == <<installed, worktree, binding, captured, ranBy, scanned, todo, looked,
                 split, corroborated, payload, written>>

FileVersions == 1 .. MaxVersion
Payloads == {"none", "pass", "listed", "unlisted"}
CatalogSteps == {"bind", "identity", "digest", "catalog", "same_identity", "same_sources",
          "schemas", "names", "status", "refusal", "result", "finalize"}

CatalogTypeOK ==
  /\ executable \in FileVersions /\ content \in [SourceFiles -> FileVersions]
  /\ head \in FileVersions /\ dirty \in BOOLEAN
  /\ binding \in FileVersions \cup {0} /\ heads \subseteq FileVersions
  /\ identity \in FileVersions \cup {0}
  /\ digest \in [SourceFiles -> FileVersions \cup {0}]
  /\ ranBy \subseteq FileVersions /\ scanned \in [SourceFiles -> SUBSET FileVersions]
  /\ todo \in Seq(CatalogSteps) /\ looked \subseteq SourceFiles
  /\ split \in BOOLEAN /\ corroborated \in BOOLEAN
  /\ payload \in Payloads /\ written \in Payloads

\* The steps up to the call, those after it, and those after it failed.
CaptureSteps == <<"bind", "identity", "digest", "catalog">>
MainSteps == <<"same_identity", "schemas", "names", "same_sources", "same_identity",
               "same_sources", "status", "refusal", "same_identity", "same_sources",
               "result">>

\* Mutant: the executable of the status call is not looked at again.
SplitUnverified == <<"schemas", "names", "same_sources", "status", "refusal",
                     "same_sources", "result">>

SplitSteps == <<"schemas", "names", "same_sources", "status", "refusal", "same_sources",
                "same_identity", "result">>

CatalogInit ==
  /\ executable = 1 /\ content = [f \in SourceFiles |-> 1]
  /\ head = 1 /\ dirty \in BOOLEAN
  /\ binding = 0 /\ heads = {}
  /\ identity = 0 /\ digest = [f \in SourceFiles |-> 0]
  /\ ranBy = {} /\ scanned = [f \in SourceFiles |-> {}]
  /\ todo = CaptureSteps /\ looked = {}
  /\ split = FALSE /\ corroborated = FALSE /\ payload = "none" /\ written = "none"

-----------------------------------------------------------------------------
(* Others *)

ReplaceExecutable ==
  /\ executable < MaxVersion
  /\ executable' = executable + 1
  /\ UNCHANGED content

ReplaceSource(f) ==
  /\ content[f] < MaxVersion
  /\ content' = [content EXCEPT ![f] = @ + 1]
  /\ UNCHANGED executable

Upgrade ==
  /\ ReplaceExecutable \/ \E f \in SourceFiles : ReplaceSource(f)
  /\ UNCHANGED <<worktree, binding, captured, ranBy, scanned, todo, looked, split,
                 corroborated, payload, written>>

\* The worktree is edited, put back, or committed.
ChangeWorktree ==
  /\ \/ dirty' = ~dirty /\ UNCHANGED <<head, heads>>
     \/ /\ dirty /\ head < MaxVersion
        /\ dirty' = FALSE
        /\ head' = head + 1
        /\ heads' = IF binding # 0 /\ todo # <<>> THEN heads \cup {head'} ELSE heads
  /\ UNCHANGED <<installed, binding, captured, ranBy, scanned, todo, looked, split,
                 corroborated, payload, written>>

-----------------------------------------------------------------------------
(* The preflight *)

AtStep(step) == todo # <<>> /\ Head(todo) = step

StepDone == todo' = Tail(todo) /\ looked' = {}

\* A catalog without the sources, or SystemExit.
FoundNothing ==
  /\ todo' = <<"finalize">> /\ looked' = {}
  /\ payload' = "unlisted"

\* _capture_evidence_binding, with --write-evidence
CaptureBinding ==
  /\ AtStep("bind")
  /\ \/ UNCHANGED <<binding, heads>> /\ StepDone
     \/ ~dirty /\ binding' = head /\ heads' = {head} /\ StepDone
     \/ dirty /\ todo' = <<>> /\ UNCHANGED <<looked, binding, heads>>
  /\ UNCHANGED <<installed, head, dirty, captured, ranBy, scanned, split,
                 corroborated, payload, written>>

\* _runtime_identity_snapshot: root and executable are resolved and belong together
SnapshotIdentity ==
  /\ AtStep("identity")
  /\ \/ identity' = executable /\ StepDone /\ UNCHANGED payload
     \/ FoundNothing /\ UNCHANGED identity
  /\ UNCHANGED <<installed, worktree, binding, digest, ranBy, scanned, split,
                 corroborated, written>>

LookAt(f) ==
  IF looked \cup {f} = SourceFiles THEN StepDone
  ELSE looked' = looked \cup {f} /\ UNCHANGED todo

\* _runtime_source_digest_snapshot, one file after the other
DigestSource(f) ==
  /\ AtStep("digest") /\ f \notin looked
  /\ \/ digest' = [digest EXCEPT ![f] = content[f]] /\ LookAt(f) /\ UNCHANGED payload
     \/ FoundNothing /\ UNCHANGED digest
  /\ UNCHANGED <<installed, worktree, binding, identity, ranBy, scanned, split,
                 corroborated, written>>

\* _run_gateway_tools_catalog; a call that cannot start ran nothing
CallCatalog ==
  /\ AtStep("catalog")
  /\ ranBy' \in {ranBy, ranBy \cup {executable}}
  /\ \/ todo' = MainSteps /\ split' = FALSE /\ ranBy' # {}
     \/ todo' = SplitSteps /\ split' = TRUE
  /\ looked' = {}
  /\ UNCHANGED <<installed, worktree, binding, captured, scanned, payload,
                 written, corroborated>>

\* _require_runtime_identity_unchanged_after_catalog; after it the first time
\* the catalog may turn out to be no valid one
RequireIdentity ==
  /\ AtStep("same_identity")
  /\ \/ executable = identity /\ StepDone /\ UNCHANGED payload
     \/ FoundNothing
  /\ UNCHANGED <<installed, worktree, binding, captured, ranBy, scanned, split,
                 corroborated, written>>

\* The _extract functions read the schemas, _declared_core_names the names.
Scans == {"schemas", "names"}

\* _scan_runtime_source_contract
ScanSource(f) ==
  /\ \E scan \in Scans : AtStep(scan)
  /\ f \notin looked
  /\ \/ /\ scanned' = [scanned EXCEPT ![f] = @ \cup {content[f]}]
        /\ LookAt(f) /\ UNCHANGED payload
     \/ FoundNothing /\ UNCHANGED scanned
  /\ UNCHANGED <<installed, worktree, binding, captured, ranBy, split,
                 corroborated, written>>

\* _require_runtime_sources_unchanged_after_scan reads all and compares then:
\* the first difference decides.
RequireSource(f) ==
  /\ AtStep("same_sources") /\ f \notin looked
  /\ \/ content[f] = digest[f] /\ LookAt(f) /\ UNCHANGED payload
     \/ FoundNothing
  /\ UNCHANGED <<installed, worktree, binding, captured, ranBy, scanned, split,
                 corroborated, written>>

RunExecutable == ranBy' = ranBy \cup {executable}

\* The calls that are left of the two are skipped.
PastStatus ==
  /\ todo' = IF AtStep("status") THEN Tail(Tail(todo)) ELSE Tail(todo)
  /\ looked' = {}

\* A status call that fails ends the preflight unless tools.catalog has failed.
StatusFails ==
  /\ RunExecutable \/ UNCHANGED ranBy
  /\ IF split THEN PastStatus /\ UNCHANGED payload ELSE FoundNothing
  /\ UNCHANGED corroborated

\* _gateway_status_for_source_bound_names: not declared or skipped, or called
CallStatus ==
  /\ AtStep("status")
  /\ \/ PastStatus /\ UNCHANGED <<payload, ranBy, corroborated>>
     \/ RunExecutable /\ StepDone /\ UNCHANGED <<payload, corroborated>>
     \/ StatusFails
  /\ UNCHANGED <<installed, worktree, binding, captured, scanned, split, written>>

\* The same call with parameters must be refused.
CallRefused ==
  /\ AtStep("refusal")
  /\ \/ RunExecutable /\ StepDone /\ UNCHANGED payload /\ corroborated' = TRUE
     \/ StatusFails
  /\ UNCHANGED <<installed, worktree, binding, captured, scanned, split, written>>

\* assert_preflighted_runtime_authority also looks at what the catalog says.
Corroborates == ~split /\ corroborated

\* The catalog with its sources
MakeCatalog ==
  /\ AtStep("result")
  /\ payload' \in IF Corroborates THEN {"pass", "listed"} ELSE {"listed"}
  /\ todo' = <<"finalize">> /\ UNCHANGED looked
  /\ UNCHANGED <<installed, worktree, binding, captured, ranBy, scanned, split,
                 corroborated, written>>

\* _require_same_evidence_binding before _write_evidence
Finalize ==
  /\ AtStep("finalize")
  /\ written' = IF binding # 0 /\ ~dirty /\ head = binding THEN payload ELSE "none"
  /\ todo' = <<>> /\ UNCHANGED looked
  /\ UNCHANGED <<installed, worktree, binding, captured, ranBy, scanned, split,
                 corroborated, payload>>

CatalogNext ==
  \/ Upgrade \/ ChangeWorktree
  \/ CaptureBinding \/ SnapshotIdentity \/ CallCatalog \/ RequireIdentity
  \/ CallStatus \/ CallRefused
  \/ MakeCatalog \/ Finalize
  \/ \E f \in SourceFiles : DigestSource(f) \/ ScanSource(f) \/ RequireSource(f)

CatalogSpec == CatalogInit /\ [][CatalogNext]_catalogVars

-----------------------------------------------------------------------------
(* Properties *)

\* A catalog that lists sources was read from exactly these, and every call
\* was made with the executable it names, whatever was replaced meanwhile;
\* what is written names the only head there was since the binding.
CatalogIsBound ==
  /\ payload \in {"pass", "listed"} =>
       /\ ranBy \subseteq {identity}
       /\ \A f \in SourceFiles : scanned[f] = {digest[f]}
  /\ written # "none" => heads = {binding}
=============================================================================
