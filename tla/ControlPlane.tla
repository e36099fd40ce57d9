---------------------------- MODULE ControlPlane ----------------------------
(***************************************************************************)
(* The components that share no state with each other, one at a time: the  *)
(* first state chooses a part, and only that part takes steps.  The others *)
(* stay in their initial states, so a behaviour of this specification is   *)
(* a behaviour of one part's specification.                                *)
(***************************************************************************)
EXTENDS DbCanary, ForcedRollback, RuntimeAttestation, AdapterOwnership,
        TrustChain, MigrationRuns, LegacyImport, SoakMonitor, LiveProbe,
        RuntimeCatalog, MetadataProbe

VARIABLE part   \* the part that takes steps

Parts == {"canary", "rollback", "attestation", "adapter", "trust",
          "migrations", "legacy", "soak", "live", "catalog", "metadata"}

partVars == <<canaryPart, rollbackVars, attestationVars, adapterVars, trustVars,
              migrationVars, legacyVars, soakVars, liveVars, catalogVars, metadataVars>>

\* Types of the part that takes steps.
ControlTypeOK ==
  CASE part = "canary" -> CanaryTypeOK
    [] part = "rollback" -> RollbackTypeOK
    [] part = "attestation" -> AttestationTypeOK
    [] part = "adapter" -> AdapterTypeOK
    [] part = "trust" -> TrustTypeOK
    [] part = "migrations" -> MigrationTypeOK
    [] part = "legacy" -> LegacyTypeOK
    [] part = "soak" -> SoakTypeOK
    [] part = "live" -> LiveTypeOK
    [] part = "catalog" -> CatalogTypeOK
    [] part = "metadata" -> MetadataTypeOK

ControlInit ==
  /\ part \in Parts
  /\ CanaryInit /\ RollbackInit /\ AttestationInit /\ AdapterInit
  /\ TrustInit /\ MigrationInit /\ LegacyInit /\ SoakInit
  /\ LiveInit /\ CatalogInit /\ MetadataInit

\* A part that does not take steps keeps its state.
Keeps(name, vars) == IF part = name THEN TRUE ELSE UNCHANGED vars

ControlNext ==
  /\ part' = part
  /\ \/ part = "canary" /\ CanaryNext
     \/ part = "rollback" /\ RollbackNext
     \/ part = "attestation" /\ AttestationNext
     \/ part = "adapter" /\ AdapterNext
     \/ part = "trust" /\ TrustNext
     \/ part = "migrations" /\ MigrationNext
     \/ part = "legacy" /\ LegacyNext
     \/ part = "soak" /\ SoakNext
     \/ part = "live" /\ LiveNext
     \/ part = "catalog" /\ CatalogNext
     \/ part = "metadata" /\ MetadataNext
  /\ Keeps("canary", canaryPart)
  /\ Keeps("rollback", rollbackVars)
  /\ Keeps("attestation", attestationVars)
  /\ Keeps("adapter", adapterVars)
  /\ Keeps("trust", trustVars)
  /\ Keeps("migrations", migrationVars)
  /\ Keeps("legacy", legacyVars)
  /\ Keeps("soak", soakVars)
  /\ Keeps("live", liveVars)
  /\ Keeps("catalog", catalogVars)
  /\ Keeps("metadata", metadataVars)

ControlSpec == ControlInit /\ [][ControlNext]_<<part, partVars>>
=============================================================================
