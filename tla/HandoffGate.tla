----------------------------- MODULE HandoffGate -----------------------------
(***************************************************************************)
(* What the official exporter makes of an evaluated payload: it derives    *)
(* once more from the payload what the evaluation decided, refuses the     *)
(* payload when the two differ, and otherwise states in the artifact       *)
(* whether Builder may start.  The properties relate that answer to the    *)
(* raw inputs and to the bytes of the artifacts on disk.                   *)
(***************************************************************************)
EXTENDS ConstructabilityEvaluation, ProjectGateContracts

(***************************************************************************)
(* The derivation of the exporter.                                         *)
(***************************************************************************)
\* The field of a node's interrogation that stands for a claim; some claims have none.
Observed(p, r) == IF r.claim \in Interrogated THEN p.interrogation[r.subject][r.claim] ELSE "null"
Expected(x) == IF x.state = "supported" THEN "yes" ELSE "no"

ExpectedEmission(p) ==
  /\ \A x \in p.resolution : x.state = "supported" /\ x.row.claim \notin PostBuilderRuntime
  /\ p.unresolved = {} /\ p.constructability = "executable_ready" /\ p.strategyMap

AuthorityDiagnostics(p) ==
  {d \in {"claim_state", "builder_eligibility", "payload_status"} :
     \/ d = "claim_state" /\ \E x \in p.resolution : Observed(p, x.row) # Expected(x)
     \/ d = "builder_eligibility" /\ p.emitted # ExpectedEmission(p)
     \/ d = "payload_status" /\ p.emitted /\ p.status # "complete"}

\* The payload lists the approved classes in order, the intake in the Architect's.
IdentityMatches(in) == in.classesInOrder

PackageEligible(p) == p.emitted => p.constructability = "executable_ready" /\ ~p.decisions

(***************************************************************************)
(* The artifact.                                                           *)
(***************************************************************************)
\* Uncommitted changes of the working tree are reported in the result and decide nothing.
HandoffDiagnostics(in, p) ==
  {d \in {"intake", "payload_status", "unresolved", "constructability", "package", "synthetic"} :
     \/ d = "intake" /\ ~in.intakeComplete
     \/ d = "payload_status" /\ p.status = "insufficient_evidence"
     \/ d = "unresolved" /\ p.unresolved # {}
     \/ d = "constructability" /\ p.constructability # "executable_ready"
     \/ d = "package" /\ ~p.emitted
     \/ d = "synthetic" /\ in.synthetic}

\* The mandatory stages whose status depends on the payload.
StageManifest(in, p) ==
  [intake |-> IF in.intakeComplete THEN "complete" ELSE "insufficient_evidence",
   review |-> CASE p.constructability = "executable_ready" -> "complete"
                [] p.constructability = "blocked" -> "blocked"
                [] OTHER -> "insufficient_evidence",
   strategy |-> IF p.strategyMap THEN "complete" ELSE "incomplete",
   package |-> IF p.emitted THEN "complete" ELSE "incomplete"]

\* What the intake validator reports is asked once more; it reports a complete intake valid.
Artifact(in, p) ==
  [allowed |-> HandoffDiagnostics(in, p) = {} /\ in.intakeComplete,
   reasons |-> HandoffDiagnostics(in, p),
   stages |-> StageManifest(in, p)]

\* The transaction validation of the artifact, over the artifact alone.
ArtifactDiagnostics(in, p, a) ==
  {d \in {"contradiction", "synthetic", "unresolved_authority", "not_executable",
          "package_not_eligible", "stage_incomplete"} :
     /\ a.allowed
     /\ \/ d = "contradiction" /\ a.reasons # {}
        \/ d = "synthetic" /\ in.synthetic
        \/ d = "unresolved_authority" /\ (p.status # "complete" \/ p.unresolved # {})
        \/ d = "not_executable" /\ p.constructability # "executable_ready"
        \/ d = "package_not_eligible" /\ (~p.emitted \/ p.decisions)
        \/ d = "stage_incomplete" /\ \E s \in DOMAIN a.stages : a.stages[s] # "complete"}

Refused(in, p) ==
  \/ AuthorityDiagnostics(p) # {}
  \/ ~ContractsAccepted(in.contracts)
  \/ ~IdentityMatches(in)
  \/ ~PackageEligible(p)
  \/ ArtifactDiagnostics(in, p, Artifact(in, p)) # {}

Allowed(in, p) == ~Refused(in, p) /\ Artifact(in, p).allowed

Exportable == outcome = "accepted"

---------------------------------------------------------------------------
(* Properties.                                                             *)

\* The bytes a record of evidence names say what the record says.
HoldsInRecord(f, v) == v \in 1..Version(f) /\ history[f][v] = "holds"

\* What the Architect or the artifacts give for a claim the Builder relies on.
Grounded(r) ==
  IF r.claim \in DecisionClaims THEN r \in input.approvals
  ELSE \/ r \in input.judged /\ r.claim \notin ArtifactOnly
       \/ \E s \in saved.found :
            /\ s.row = r /\ HoldsInRecord(s.file, s.digest)
            /\ input.sources[s.source].row = r
            /\ input.sources[s.source].pin \in {0, s.digest}

\* An artifact that lets Builder start was earned: the review covers the approved tree
\* exactly, every action stays inside the tree and leaves classes and structure alone,
\* nothing is left for Builder to decide, nothing is forbidden, unknown or synthetic, and
\* each claim that Builder relies on has an approval, a judgment or an artifact whose
\* recorded bytes hold (README.md, Builder-ready integrity); and the artifact was validated
\* against Project Gate's own contracts, whatever the lock files say of the copies.
HandoffIsJustified ==
  Exportable /\ Allowed(input, saved) =>
    /\ \A n \in Nodes : input.reviewed[n] = 1 /\ input.strategies[n] = 1
    /\ input.reviewed[Orphan] = 0
    /\ input.actions # {}
    /\ \A a \in input.actions :
         /\ a.target \in Nodes /\ ~a.open
         /\ a.type \notin StructureActions
         /\ a.type \in ClassActions => 
              a.add \subseteq Approved /\ a.remove \cap Approved = {} /\ a.swap = {}
         /\ \A phrase \in input.forbidden : ~ForbiddenBy(phrase, a)
    /\ \A n \in Nodes : \A c \in PreBuilder :
         c \in RequiredClaims(input, n) => Grounded([subject |-> n, claim |-> c])
    /\ input.changes \subseteq input.permits
    /\ ~input.unsettled /\ ~input.unknowns /\ ~input.synthetic /\ input.altered = {}
    /\ input.intakeComplete
    /\ input.contracts.export.copy = Pinned /\ input.contracts.bundle.copy = Pinned

\* The derivations of the evaluation, of the handoff gate and of the transaction
\* validation are separate code; none of them contradicts another about a payload.
RecomputationsAgree ==
  Exportable => /\ AuthorityDiagnostics(saved) \subseteq {"claim_state"}
                /\ PackageEligible(saved)
                /\ ArtifactDiagnostics(input, saved, Artifact(input, saved)) = {}
                /\ saved.emitted <=> saved.constructability = "executable_ready"

\* What the runtime requests gave never decides whether Builder may start, and the final
\* gate opens only on a recorded pass of every runtime claim.
RuntimeGatesOnlyTheEnd ==
  Exportable =>
    /\ \A B \in SUBSET saved.batch :
         Eligible(input, [batch |-> B, found |-> saved.found]) = saved.emitted
    /\ saved.final = "eligible" =>
         /\ saved.emitted
         /\ \A r \in Rows(input) : r.claim \in PostBuilderRuntime =>
              \E b \in saved.batch : b.row = r /\ HoldsInRecord(b.file, b.digest)

\* Every result and every record of evidence in an accepted payload was computed from the
\* bytes whose digest it carries, although each was read twice, and from a source whose
\* declared digest is that one.
EvidenceIsOfRecordedBytes ==
  Exportable =>
    /\ \A b \in saved.batch : b.passed <=> HoldsInRecord(b.file, b.digest)
    /\ \A s \in saved.found : s.read = "holds" =>
         /\ HoldsInRecord(s.file, s.digest)
         /\ input.sources[s.source].pin \in {0, s.digest}

\* All of that evidence was on disk together at one instant: no accepted payload combines
\* an artifact with a version of another that replaced it earlier.
EvidenceCoexisted ==
  Exportable =>
    /\ \A b \in saved.batch : b.digest = between[b.file]
    /\ \A s \in saved.found : s.read = "holds" => s.digest = between[s.file]

\* What an evaluation establishes that reads every file at one instant, at the version v gives.
EvidenceAt(v) ==
  [batch |-> {[row |-> q.row, passed |-> HoldsInRecord(q.file, v[q.file])] :
                q \in {x \in Range(input.requests) : x.file \in Files}},
   found |-> {[row |-> s.row, read |-> "holds"] :
                s \in {x \in Range(input.sources) : /\ HoldsInRecord(x.file, v[x.file])
                                                    /\ x.pin \in {0, v[x.file]}}}]

\* The decisions in an accepted payload, taken over many reads while files change, are those
\* of an evaluation that reads everything at the instant between the two rounds.
DecisionsHadAnInstant ==
  Exportable =>
    /\ saved.emitted => Eligible(input, EvidenceAt(between))
    /\ saved.final = "eligible" => FinalProjectGate(input, EvidenceAt(between)) = "eligible"

\* The replay refuses nothing but a change: when nobody edits a file, what the first round
\* evaluated is accepted, whatever it says of the draft.
Unedited == \A f \in Files : Version(f) = 1
UneditedReplayAccepts == Unedited /\ round = 2 => outcome \in {"none", "accepted"}

\* A payload that is ready for Builder is not refused by an exporter whose contracts are in
\* order (README.md:210).
ReadyReachesBuilder ==
  Exportable /\ saved.emitted /\ ContractsAccepted(input.contracts) => ~Refused(input, saved)

\* A ready payload is refused for two reasons only, the ones that the finding is about: a claim
\* that the exporter's map of fields lacks, or approved classes that are not in order.
Unmapped == {"responsive_strategy", "accessibility_strategy"}
OnlyKnownRefusals ==
  Exportable /\ saved.emitted /\ ContractsAccepted(input.contracts) =>
    (Refused(input, saved) <=>
       ~input.classesInOrder \/ \E r \in Rows(input) : r.claim \in Unmapped)

\* A claim about the implemented target stays an obligation of a later stage during the
\* handoff from CE to Builder (contracts/CE_PHASE_AWARE_BUILDER_LIFECYCLE_V1_1.md:73).
RuntimeClaimsStayObligations ==
  Exportable =>
    \A r \in Rows(input) : r.claim \in PostBuilderRuntime => r \in saved.obligations
==============================================================================
