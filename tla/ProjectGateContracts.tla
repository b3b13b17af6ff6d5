------------------------- MODULE ProjectGateContracts -------------------------
(***************************************************************************)
(* The contracts of Project Gate that this repository holds copies of, and *)
(* the manifest of its own pipeline.  An export is validated against the   *)
(* copies, so they are compared first: each copy has a lock file that      *)
(* repeats its digest, and both are compared with a constant of the code.  *)
(***************************************************************************)
EXTENDS Naturals, Sequences

Pinned == "pinned"   \* the digest of a contract at the commit the code names
NoLock == [constants |-> FALSE, canonical |-> "none", vendored |-> "none"]

\* A contract is its copy's digest and its lock: whether the lock's constant fields are
\* what they must be, and the digests it gives for the original and for the copy.
LockDiagnostics(contract) ==
  IF contract.lock = NoLock THEN {"lock_missing"}
  ELSE IF contract.copy = "none" THEN {"copy_missing"}
  ELSE {d \in {"constants", "canonical_digest", "declared_digest", "copy_bytes"} :
          \/ d = "constants" /\ ~contract.lock.constants
          \/ d = "canonical_digest" /\ contract.lock.canonical # Pinned
          \/ d = "declared_digest" /\ contract.lock.vendored # contract.copy
          \/ d = "copy_bytes" /\ contract.copy # Pinned}

\* The lock of the other contract is compared as a whole.
BundleLockValid(contract) ==
  /\ contract.lock = [constants |-> TRUE, canonical |-> Pinned, vendored |-> Pinned]
  /\ contract.copy = Pinned

\* The stages of the pipeline, for the fields that are compared.
PipelineDiagnostics(stages) ==
  {d \in {"too_few", "output_required", "duplicate_id", "duplicate_ordinal", "order",
          "export_not_final"} :
     \/ d = "too_few" /\ Len(stages) < 8
     \/ d = "output_required" /\ \E i \in DOMAIN stages : stages[i].mandatory /\ ~stages[i].outputs
     \/ /\ d = "duplicate_id"
        /\ \E i, j \in DOMAIN stages : i # j /\ stages[i].id = stages[j].id
     \/ /\ d = "duplicate_ordinal"
        /\ \E i, j \in DOMAIN stages : i # j /\ stages[i].ordinal = stages[j].ordinal
     \/ d = "order" /\ \E i, j \in DOMAIN stages : i < j /\ stages[i].ordinal > stages[j].ordinal
     \/ d = "export_not_final" /\ (stages = <<>> \/ stages[Len(stages)].id # "project_gate_export")}

ContractsAccepted(contracts) ==
  /\ LockDiagnostics(contracts.export) = {}
  /\ BundleLockValid(contracts.bundle)
  /\ PipelineDiagnostics(contracts.pipeline) = {}
==============================================================================
