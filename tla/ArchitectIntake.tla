---------------------------- MODULE ArchitectIntake ----------------------------
(***************************************************************************)
(* The validator of an Architect-stage intake, and the comparison of an    *)
(* intake with the source bundle its transition was derived from.  What    *)
(* the schema fixes to a constant (the transition's identity, the source   *)
(* contract, the negative boundary assertions) is not part of an intake    *)
(* here: conforms says that it is as the schema wants it.  A digest is the *)
(* bundle it is of.                                                        *)
(***************************************************************************)
EXTENDS PcvpCarrier

NoCarrier == [stage |-> "none"]
Absent == "absent"

Supported == {"1.0.0", "1.1.0"}
Architect == "EV4-Architect-Repo"
SourceContract == "ev4-architect-stage-payload@1.0.0"
AcceptedCommit == "b0651668"

Derived == "deterministic_derived_metadata"
Projection == "deterministic_structural_projection"
Direct == "direct_evidence_copy"

\* The trace row each field of the transition must have, with its derivation rule.
TransitionTrace ==
  [executed |-> [class |-> Derived, rule |-> "A2C-01"],
   transition_id |-> [class |-> Derived, rule |-> "A2C-01"],
   transition_version |-> [class |-> Derived, rule |-> "A2C-01"],
   producer_repository |-> [class |-> Derived, rule |-> "A2C-01"],
   source_bundle_id |-> [class |-> Direct, rule |-> Absent],
   source_bundle_hash |-> [class |-> Derived, rule |-> "A2C-02"]]

Deterministic == {"sort_by_id", "sort_by_source_path_then_target_path"}

\* A row names its rule exactly when it is derived; the schema says so, and so do the rules below.
IntakeSchemaValid(in) ==
  in.conforms /\ \A i \in DOMAIN in.trace : in.trace[i].class = Derived <=> in.trace[i].rule # Absent

RowsFor(in, target) == {i \in DOMAIN in.trace : in.trace[i].target = target}

\* Mutant: rows of one target are counted as one.
TransitionTraceErrorsByTarget(in) ==
  {r \in {"trace_missing", "trace_class", "trace_rule"} :
     \E target \in DOMAIN TransitionTrace :
       LET rows == RowsFor(in, target) IN
       \/ r = "trace_missing" /\ rows = {}
       \/ r = "trace_class" /\ rows # {} /\ \A i \in rows : in.trace[i].class # TransitionTrace[target].class
       \/ r = "trace_rule" /\ rows # {} /\ \A i \in rows : in.trace[i].rule # TransitionTrace[target].rule}

\* Every field of the transition has one row, of the class and with the rule it must have.
TransitionTraceErrors(in) ==
  {r \in {"trace_missing", "trace_duplicate", "trace_class", "trace_rule"} :
     \E target \in DOMAIN TransitionTrace :
       LET rows == RowsFor(in, target) IN
       \/ r = "trace_missing" /\ rows = {}
       \/ \E i, j \in rows : r = "trace_duplicate" /\ i # j
       \/ \E i \in rows :
            /\ rows = {i}
            /\ \/ r = "trace_class" /\ in.trace[i].class # TransitionTrace[target].class
               \/ r = "trace_rule" /\ in.trace[i].rule # TransitionTrace[target].rule}

TransitionErrors(in) ==
  (IF in.bundle # in.refBundle THEN {"bundle_trace"} ELSE {}) \cup TransitionTraceErrors(in)

SemanticErrors(in) ==
  {r \in {"forbidden", "legacy_source", "approved_structure", "decision_evidence", "structure_evidence",
          "evidence_upgraded", "duplicate_trace", "undocumented_rule", "rule_missing", "unordered"} :
     \/ r = "forbidden" /\ in.forbidden
     \/ r = "legacy_source" /\ in.legacyRef
     \/ r = "approved_structure" /\ in.approved \notin Ids(in.nodes)
     \/ r = "decision_evidence" /\ ~(in.decisionRefs \subseteq Ids(in.register))
     \/ r = "structure_evidence"
          /\ \E i \in DOMAIN in.nodes : ~(in.nodes[i].refs \subseteq Ids(in.register))
     \/ r = "evidence_upgraded"
          /\ \E i \in DOMAIN in.register : in.register[i].state = "validated"
               /\ in.register[i].class \in {"unresolved_unknown", "synthetic_fixture"}
     \/ r = "duplicate_trace"
          /\ \E i, j \in DOMAIN in.trace :
               i # j /\ in.trace[i].source = in.trace[j].source /\ in.trace[i].target = in.trace[j].target
     \/ \E i \in DOMAIN in.trace :
          LET row == in.trace[i] IN
          \/ r = "undocumented_rule" /\ row.class # Derived /\ row.rule # Absent
          \/ r = "rule_missing" /\ row.class = Derived /\ row.rule = Absent
          \/ r = "unordered" /\ row.class = Projection /\ row.order \notin Deterministic}
  \cup (IF in.version = "1.1.0" THEN TransitionErrors(in) ELSE {})

\* Errors make an intake invalid whatever it declares.
Verdict(in, failed) ==
  IF failed THEN "invalid"
  ELSE IF in.status = "insufficient_evidence" THEN "insufficient_evidence" ELSE "valid"

\* The carrier is looked at only when the intake is of a known version and fits its schema.
Inspected(in) == in.version \in Supported /\ IntakeSchemaValid(in) /\ in.carrier # NoCarrier

\* The verdict when there is no carrier to look at.
PlainVerdict(in) ==
  Verdict(in, in.version \notin Supported \/ ~IntakeSchemaValid(in) \/ SemanticErrors(in) # {})

---------------------------------------------------------------------------
(* The bundle beside the intake.                                           *)

Commits(in, b) == {in.commit, AcceptedCommit, b.commit}

BindingConflicts(in, b) ==
  {r \in {"id", "hash", "repository", "contract", "stage", "commit", "reference"} :
     \/ r = "id" /\ b.id # in.bundle
     \/ r = "hash" /\ b # in.hash
     \/ r = "repository" /\ b.repositories # {Architect}
     \/ r = "contract" /\ b.contracts # {SourceContract}
     \/ r = "stage" /\ b.stage # "architect"
     \/ r = "commit" /\ Absent \notin Commits(in, b) /\ Commits(in, b) # {AcceptedCommit}
     \/ r = "reference" /\ in.refBundle # in.bundle}

\* Mutant: the digest is not compared.
BindingByIdentity(in, b) ==
  IF BindingConflicts(in, b) \ {"hash"} # {} THEN "conflict"
  ELSE IF Absent \in Commits(in, b) THEN "evidence_required" ELSE "verified"

Binding(in, b) ==
  IF BindingConflicts(in, b) # {} THEN "conflict"
  ELSE IF Absent \in Commits(in, b) THEN "evidence_required" ELSE "verified"
==============================================================================
