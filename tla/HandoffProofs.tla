----------------------------- MODULE HandoffProofs ----------------------------
(***************************************************************************)
(* What a handoff was earned with and what the derivations of the exporter *)
(* make of a payload, for every set of nodes, classes and inputs.          *)
(***************************************************************************)
EXTENDS EvaluationProofs

\* The payload's fields that the derivations of the exporter read.
LEMMA PayloadFields ==
  ASSUME NEW in, NEW e
  PROVE  /\ Payload(in, e).emitted = Eligible(in, e)
         /\ Payload(in, e).strategyMap = Eligible(in, e)
         /\ Payload(in, e).status = IF Eligible(in, e) THEN "complete" ELSE "insufficient_evidence"
         /\ Payload(in, e).constructability = ConstructabilityStatus(in, e)
         /\ Payload(in, e).decisions = LeavesDecision(in)
         /\ Payload(in, e).unresolved = Unresolved(in, e)
         /\ Payload(in, e).resolution = AuthorityResolution(in, e)
         /\ Payload(in, e).final = FinalProjectGate(in, e)
BY DEF Payload

LEMMA EligibleBoolean ==
  ASSUME NEW in, NEW e
  PROVE  Eligible(in, e) \in BOOLEAN /\ LeavesDecision(in) \in BOOLEAN
BY DEF Eligible, LeavesDecision

\* The claims of the three phases and of the kinds of evidence.
LEMMA PhasesDisjoint ==
  /\ PreBuilder \cap PostBuilderRuntime = {}
  /\ DecisionClaims \cap (ArtifactOnly \cup ArtifactOrJudgment \cup JudgmentClaims) = {}
  /\ ArtifactOnly \cap JudgmentClaims = {} /\ DecisionClaims \cap PostBuilderRuntime = {}
BY DEF PreBuilder, PreBuilderStatic, PreBuilderCapability, PostBuilderRuntime, DecisionClaims,
       ArtifactOnly, ArtifactOrJudgment, JudgmentClaims

LEMMA EligibleReview ==
  ASSUME NEW in \in Inputs, NEW e, Eligible(in, e)
  PROVE  /\ \A n \in Nodes : in.reviewed[n] = 1 /\ in.strategies[n] = 1
         /\ in.reviewed[Orphan] = 0
<1>1. /\ in.reviewed \in [Nodes \cup {Orphan} -> Nat]
      /\ in.strategies \in [Nodes \cup {Orphan} -> Nat]
  BY InputsAssumption
<1>2. ReviewDiagnostics(in) = {} BY DEF Eligible, ObligationsComplete
<1>3. StrategyDiagnostics(in, e) = {} BY DEF Eligible, StrategyComplete
<1>4. Nodes \subseteq Reviewed(in) /\ Orphan \notin Reviewed(in)
      /\ \A n \in Reviewed(in) : ~(in.reviewed[n] > 1)
  BY <1>2 DEF ReviewDiagnostics
<1>5. Nodes \subseteq StrategyNodes(in) /\ \A n \in StrategyNodes(in) : ~(in.strategies[n] > 1)
  BY <1>3 DEF StrategyDiagnostics
<1>6. \A n \in Nodes : in.reviewed[n] = 1 BY <1>1, <1>4 DEF Reviewed
<1>7. \A n \in Nodes : in.strategies[n] = 1 BY <1>1, <1>5 DEF StrategyNodes
<1>8. in.reviewed[Orphan] = 0 BY <1>1, <1>4 DEF Reviewed
<1>9. QED BY <1>6, <1>7, <1>8

LEMMA EligibleIdentity ==
  ASSUME NEW in, NEW e, Eligible(in, e)
  PROVE  in.altered = {} /\ in.changes \subseteq in.permits /\ ~in.unsettled /\ ~in.unknowns
<1>1. IdentityDiagnostics(in) = {} /\ StrategyDiagnostics(in, e) = {} /\ ~in.unknowns
  BY DEF Eligible, StrategyComplete
<1>2. in.altered \subseteq {"proposal"} BY <1>1 DEF IdentityDiagnostics
<1>3. "proposal" \notin in.altered BY <1>1 DEF StrategyDiagnostics
<1>4. AmendmentNodes(in) = {} BY <1>1 DEF StrategyDiagnostics
<1>5. ~LeavesDecision(in) BY <1>1 DEF StrategyDiagnostics
<1>6. QED BY <1>1, <1>2, <1>3, <1>4, <1>5 DEF AmendmentNodes, LeavesDecision

LEMMA EligibleActions ==
  ASSUME NEW in, NEW e, Eligible(in, e)
  PROVE  /\ in.actions # {}
         /\ \A a \in in.actions :
              /\ a.target \in Nodes /\ ~a.open
              /\ a.type \notin StructureActions
              /\ a.type \in ClassActions =>
                   a.add \subseteq Approved /\ a.remove \cap Approved = {} /\ a.swap = {}
              /\ \A phrase \in in.forbidden : ~ForbiddenBy(phrase, a)
<1>1. /\ IdentityDiagnostics(in) = {} /\ StrategyDiagnostics(in, e) = {} /\ in.actions # {}
  BY DEF Eligible, StrategyComplete
<1> SUFFICES ASSUME NEW a \in in.actions
             PROVE  /\ a.target \in Nodes /\ ~a.open
                    /\ a.type \notin StructureActions
                    /\ a.type \in ClassActions =>
                         a.add \subseteq Approved /\ a.remove \cap Approved = {} /\ a.swap = {}
                    /\ \A phrase \in in.forbidden : ~ForbiddenBy(phrase, a)
  BY <1>1
<1>2. a.target \in Nodes BY <1>1 DEF StrategyDiagnostics
<1>3. ~LeavesDecision(in) BY <1>1 DEF StrategyDiagnostics
<1>4. ~HasStructureEffect(a) BY <1>1 DEF IdentityDiagnostics
<1>5. ~ChangesClassSet(a) BY <1>1 DEF IdentityDiagnostics
<1>6. Conflicts(in, a) = {} BY <1>1 DEF IdentityDiagnostics
<1>7. a.type \in ClassActions => a.swap = {} /\ Introduced(a) = {} /\ RemovedApproved(a) = {}
  BY <1>5 DEF ChangesClassSet, HasClassEffect, Reclassified
<1>8. a.type \in ClassActions =>
        a.add \subseteq Approved /\ a.remove \cap Approved = {} /\ a.swap = {}
  BY <1>7 DEF Introduced, RemovedApproved
<1>9. QED BY <1>2, <1>3, <1>4, <1>6, <1>8 DEF LeavesDecision, HasStructureEffect, Conflicts

\* A claim that Builder relies on is satisfied by an approval, a judgment or a source.
LEMMA EligibleClaims ==
  ASSUME NEW in, NEW e, Eligible(in, e), NEW r \in Rows(in), r.claim \in PreBuilder
  PROVE  IF r.claim \in DecisionClaims THEN r \in in.approvals
         ELSE \/ r \in in.judged /\ r.claim \notin ArtifactOnly
              \/ Established(e.found, r)
<1>1. Blockers(in, e) = {} BY DEF Eligible, StrategyComplete
<1>2. Satisfied(in, e, r) BY <1>1 DEF Blockers
<1>3. QED BY <1>2, PhasesDisjoint DEF Satisfied, NeedsSource

LEMMA AllowedEligible ==
  ASSUME NEW in, NEW e, Allowed(in, Payload(in, e))
  PROVE  Eligible(in, e) /\ in.intakeComplete /\ ~in.synthetic
<1>1. HandoffDiagnostics(in, Payload(in, e)) = {} BY DEF Allowed, Artifact
<1>2. Payload(in, e).emitted /\ in.intakeComplete /\ ~in.synthetic
  BY <1>1 DEF HandoffDiagnostics
<1>3. QED BY <1>1, <1>2, PayloadFields

LEMMA AllowedPinned ==
  ASSUME NEW in, NEW p, Allowed(in, p)
  PROVE  in.contracts.export.copy = Pinned /\ in.contracts.bundle.copy = Pinned
<1>1. LockDiagnostics(in.contracts.export) = {} /\ BundleLockValid(in.contracts.bundle)
  BY DEF Allowed, Refused, ContractsAccepted
<1>2. in.contracts.export.copy = Pinned BY <1>1 DEF LockDiagnostics
<1>3. QED BY <1>1, <1>2 DEF BundleLockValid

\* A source on record as establishing a claim grounds it in an accepted payload.
LEMMA EstablishedGrounded ==
  ASSUME EvidenceInv, Exportable, NEW r, Established(found, r)
  PROVE  \E s \in saved.found :
           /\ s.row = r /\ HoldsInRecord(s.file, s.digest)
           /\ input.sources[s.source].row = r
           /\ input.sources[s.source].pin \in {0, s.digest}
<1>1. PICK s \in found : s.row = r /\ s.read = "holds" BY DEF Established
<1>2. s \in saved.found BY Accepted
<1>3. HoldsInRecord(s.file, s.digest) /\ input.sources[s.source].pin \in {0, s.digest}
  BY <1>1, <1>2, AcceptedOfRecordedBytes DEF EvidenceIsOfRecordedBytes
<1>4. input.sources[s.source].row = r BY <1>1 DEF EvidenceInv, FoundInv
<1>5. QED BY <1>1, <1>2, <1>3, <1>4

LEMMA AcceptedJustified == EvidenceInv => HandoffIsJustified
<1> SUFFICES ASSUME EvidenceInv, Exportable, Allowed(input, saved) PROVE HandoffIsJustified
  BY DEF HandoffIsJustified
<1>1. saved = Payload(input, Evidence) /\ input \in Inputs
  BY Accepted DEF EvidenceInv, StepInv
<1>2. /\ Eligible(input, Evidence) /\ input.intakeComplete /\ ~input.synthetic
      /\ input.contracts.export.copy = Pinned /\ input.contracts.bundle.copy = Pinned
  BY <1>1, AllowedEligible, AllowedPinned
<1>3. ASSUME NEW n \in Nodes, NEW c \in PreBuilder, c \in RequiredClaims(input, n)
      PROVE  Grounded([subject |-> n, claim |-> c])
  <2> DEFINE r == [subject |-> n, claim |-> c]
  <2>1. r \in Rows(input) /\ r.claim \in PreBuilder BY <1>3 DEF Rows
  <2> HIDE DEF r
  <2>2. IF r.claim \in DecisionClaims THEN r \in input.approvals
        ELSE \/ r \in input.judged /\ r.claim \notin ArtifactOnly
             \/ Established(found, r)
    BY <1>2, <2>1, EligibleClaims DEF Evidence
  <2>3. Grounded(r) BY <2>2, EstablishedGrounded DEF Grounded
  <2>4. QED BY <2>3 DEF r
<1>4. QED BY <1>1, <1>2, <1>3, EligibleReview, EligibleIdentity, EligibleActions
     DEF HandoffIsJustified

---------------------------------------------------------------------------
\* The derivations.

\* What the runtime requests gave is in none of the conditions of the handoff.
LEMMA RuntimeIrrelevant ==
  ASSUME NEW in, NEW B, NEW C, NEW F
  PROVE  LET e == [batch |-> B, found |-> F]
             d == [batch |-> C, found |-> F]
         IN  Eligible(in, e) = Eligible(in, d)
<1> DEFINE e == [batch |-> B, found |-> F]
           d == [batch |-> C, found |-> F]
<1>1. \A r \in Rows(in) : r.claim \notin PostBuilderRuntime => (Satisfied(in, e, r) <=> Satisfied(in, d, r))
  BY DEF Satisfied
<1> HIDE DEF e, d
<1>2. Blockers(in, e) = Blockers(in, d) BY <1>1, PhasesDisjoint DEF Blockers
<1>3. \A r \in Rows(in) : (Satisfied(in, e, r) \/ r \in Obligations(in, e))
                         <=> (Satisfied(in, d, r) \/ r \in Obligations(in, d))
  BY <1>1 DEF Obligations
<1>4. NonBlockingCovered(in, e) <=> NonBlockingCovered(in, d) BY <1>3 DEF NonBlockingCovered
<1>5. StrategyDiagnostics(in, e) = StrategyDiagnostics(in, d) BY <1>4 DEF StrategyDiagnostics
<1>6. Eligible(in, e) = Eligible(in, d)
  BY <1>2, <1>5 DEF Eligible, StrategyComplete, DependencyComplete
<1>7. QED BY <1>6 DEF e, d

LEMMA AcceptedGatesOnlyTheEnd == EvidenceInv => RuntimeGatesOnlyTheEnd
<1> SUFFICES ASSUME EvidenceInv, Exportable PROVE RuntimeGatesOnlyTheEnd
  BY DEF RuntimeGatesOnlyTheEnd
<1>1. /\ saved = Payload(input, Evidence) /\ saved.batch = batch /\ saved.found = found
  BY Accepted
<1>2. saved.emitted = Eligible(input, Evidence) /\ saved.final = FinalProjectGate(input, Evidence)
  BY <1>1, PayloadFields
<1>3. \A B \in SUBSET saved.batch :
        Eligible(input, [batch |-> B, found |-> saved.found]) = saved.emitted
  BY <1>1, <1>2, RuntimeIrrelevant DEF Evidence
<1>4. ASSUME saved.final = "eligible"
      PROVE  /\ saved.emitted
             /\ \A r \in Rows(input) : r.claim \in PostBuilderRuntime =>
                  \E b \in saved.batch : b.row = r /\ HoldsInRecord(b.file, b.digest)
  <2>1. Eligible(input, Evidence) /\ Obligations(input, Evidence) = {}
    BY <1>2, <1>4 DEF FinalProjectGate
  <2>2. ASSUME NEW r \in Rows(input), r.claim \in PostBuilderRuntime
        PROVE  \E b \in saved.batch : b.row = r /\ HoldsInRecord(b.file, b.digest)
    <3>1. Satisfied(input, Evidence, r) BY <2>1, <2>2 DEF Obligations
    <3>2. r.claim \notin DecisionClaims \cup ArtifactOnly \cup ArtifactOrJudgment \cup JudgmentClaims
      BY <2>2 DEF PostBuilderRuntime, DecisionClaims, ArtifactOnly, ArtifactOrJudgment, JudgmentClaims
    <3>3. PICK b \in batch : b.row = r /\ b.passed
      BY <3>1, <3>2 DEF Satisfied, NeedsSource, Evidence
    <3>4. b \in saved.batch /\ HoldsInRecord(b.file, b.digest)
      BY <1>1, <3>3, AcceptedOfRecordedBytes DEF EvidenceIsOfRecordedBytes
    <3>5. QED BY <3>3, <3>4
  <2>3. QED BY <1>2, <2>1, <2>2
<1>5. QED BY <1>3, <1>4 DEF RuntimeGatesOnlyTheEnd

\* An eligible payload is ready, has nothing open and is told so by all of its fields.
LEMMA EligibleIsReady ==
  ASSUME NEW in, NEW e, Eligible(in, e)
  PROVE  /\ ConstructabilityStatus(in, e) = "executable_ready" /\ Unresolved(in, e) = {}
         /\ ~LeavesDecision(in)
         /\ \A x \in AuthorityResolution(in, e) :
              x.state = "supported" /\ x.row.claim \notin PostBuilderRuntime
<1>1. /\ IdentityDiagnostics(in) = {} /\ ReviewDiagnostics(in) = {}
      /\ StrategyDiagnostics(in, e) = {} /\ Blockers(in, e) = {} /\ ~in.unknowns
  BY DEF Eligible, StrategyComplete, ObligationsComplete
<1>2. AmendmentNodes(in) = {} /\ ~LeavesDecision(in) BY <1>1 DEF StrategyDiagnostics
<1>3. ConstructabilityStatus(in, e) = "executable_ready"
  BY <1>1, <1>2 DEF ConstructabilityStatus
<1>4. Unresolved(in, e) = {} BY <1>1 DEF Unresolved, DiagnosticUnresolved
<1>5. ASSUME NEW x \in AuthorityResolution(in, e)
      PROVE  x.state = "supported" /\ x.row.claim \notin PostBuilderRuntime
  <2>1. PICK r \in Rows(in) :
          /\ r.claim \in PreBuilder
          /\ x = [row |-> r, state |-> IF Satisfied(in, e, r) THEN "supported" ELSE "unsupported"]
    BY DEF AuthorityResolution
  <2>2. Satisfied(in, e, r) BY <1>1, <2>1 DEF Blockers
  <2>3. QED BY <2>1, <2>2, PhasesDisjoint
<1>6. QED BY <1>2, <1>3, <1>4, <1>5

\* Only an eligible payload is ready.
LEMMA ReadyIsEligible ==
  ASSUME NEW in, NEW e, ConstructabilityStatus(in, e) = "executable_ready"
  PROVE  Eligible(in, e)
<1>1. CASE AmendmentNodes(in) # {} BY <1>1 DEF ConstructabilityStatus
<1>2. CASE AmendmentNodes(in) = {} /\ (Blockers(in, e) # {} \/ in.unknowns)
  BY <1>2 DEF ConstructabilityStatus
<1>3. CASE AmendmentNodes(in) = {} /\ Blockers(in, e) = {} /\ ~in.unknowns
  BY <1>3 DEF ConstructabilityStatus
<1>4. QED BY <1>1, <1>2, <1>3

LEMMA DerivationsAgree ==
  ASSUME NEW in, NEW e
  PROVE  LET p == Payload(in, e)
         IN  /\ AuthorityDiagnostics(p) \subseteq {"claim_state"}
             /\ PackageEligible(p)
             /\ ArtifactDiagnostics(in, p, Artifact(in, p)) = {}
             /\ p.emitted <=> p.constructability = "executable_ready"
<1> DEFINE p == Payload(in, e)
           a == Artifact(in, p)
<1>1. /\ p.emitted = Eligible(in, e) /\ p.strategyMap = Eligible(in, e)
      /\ p.status = (IF Eligible(in, e) THEN "complete" ELSE "insufficient_evidence")
      /\ p.constructability = ConstructabilityStatus(in, e) /\ p.decisions = LeavesDecision(in)
      /\ p.unresolved = Unresolved(in, e) /\ p.resolution = AuthorityResolution(in, e)
      /\ p.emitted \in BOOLEAN /\ p.strategyMap \in BOOLEAN
  BY PayloadFields, EligibleBoolean
<1>2. a.allowed = (HandoffDiagnostics(in, p) = {} /\ in.intakeComplete)
      /\ a.reasons = HandoffDiagnostics(in, p) /\ a.stages = StageManifest(in, p)
  BY DEF Artifact
<1> HIDE DEF p, a
<1>3. p.emitted <=> p.constructability = "executable_ready"
  BY <1>1, EligibleIsReady, ReadyIsEligible
<1>4. p.emitted => /\ p.unresolved = {} /\ ~p.decisions /\ p.strategyMap /\ p.status = "complete"
                   /\ \A x \in p.resolution :
                        x.state = "supported" /\ x.row.claim \notin PostBuilderRuntime
  BY <1>1, EligibleIsReady
<1>5. p.emitted <=> ExpectedEmission(p) BY <1>1, <1>3, <1>4 DEF ExpectedEmission
<1>6. AuthorityDiagnostics(p) \subseteq {"claim_state"}
  BY <1>1, <1>4, <1>5 DEF AuthorityDiagnostics, ExpectedEmission
<1>7. PackageEligible(p) BY <1>3, <1>4 DEF PackageEligible
<1>8. ArtifactDiagnostics(in, p, a) = {}
  <2> SUFFICES ASSUME a.allowed PROVE ArtifactDiagnostics(in, p, a) = {}
    BY DEF ArtifactDiagnostics
  <2>1. HandoffDiagnostics(in, p) = {} /\ in.intakeComplete BY <1>2
  <2>2. p.emitted /\ ~in.synthetic BY <2>1 DEF HandoffDiagnostics
  <2>3. \A s \in DOMAIN a.stages : a.stages[s] = "complete"
    BY <1>2, <1>3, <1>4, <2>1, <2>2 DEF StageManifest
  <2>4. QED BY <1>2, <1>3, <1>4, <2>1, <2>2, <2>3 DEF ArtifactDiagnostics
<1>9. QED BY <1>3, <1>6, <1>7, <1>8 DEF p, a

LEMMA AcceptedAgree == EvidenceInv => RecomputationsAgree
BY Accepted, DerivationsAgree DEF RecomputationsAgree

---------------------------------------------------------------------------
\* One instant.

\* Evidence that settles the same claims before the handoff lets the same drafts through.
LEMMA EligibleMonotone ==
  ASSUME NEW in, NEW e, NEW d, Eligible(in, e),
         \A r \in Rows(in) : r.claim \in PreBuilder /\ Satisfied(in, e, r) => Satisfied(in, d, r)
  PROVE  Eligible(in, d)
<1>1. Blockers(in, e) = {} /\ NonBlockingCovered(in, e) /\ StrategyDiagnostics(in, e) = {}
  BY DEF Eligible, StrategyComplete, StrategyDiagnostics
<1>2. Blockers(in, d) = {} BY <1>1 DEF Blockers
<1>3. ASSUME NEW r \in Rows(in), Satisfied(in, e, r) \/ r \in Obligations(in, e)
      PROVE  Satisfied(in, d, r) \/ r \in Obligations(in, d)
  <2>1. r.claim \in PreBuilder \/ r.claim \in PostBuilderRuntime
    BY <1>3 DEF Obligations, Satisfied, NeedsSource, DecisionClaims, ArtifactOnly,
                ArtifactOrJudgment, JudgmentClaims, PreBuilder, PreBuilderStatic, PreBuilderCapability
  <2>2. CASE r.claim \in PreBuilder BY <1>2, <2>2 DEF Blockers
  <2>3. CASE r.claim \in PostBuilderRuntime BY <2>3 DEF Obligations
  <2>4. QED BY <2>1, <2>2, <2>3
<1>4. NonBlockingCovered(in, d) BY <1>1, <1>3 DEF NonBlockingCovered
<1>5. StrategyDiagnostics(in, d) = {} BY <1>1, <1>4 DEF StrategyDiagnostics
<1>6. QED BY <1>2, <1>5 DEF Eligible, StrategyComplete, DependencyComplete

\* What the reads of an accepted payload established, one look between the rounds establishes.
LEMMA InstantEstablishes ==
  ASSUME EvidenceInv, Exportable, NEW r, Established(found, r)
  PROVE  Established(EvidenceAt(between).found, r)
<1>1. PICK s \in found : s.row = r /\ s.read = "holds" BY DEF Established
<1>2. s \in saved.found BY Accepted
<1>3. HoldsInRecord(s.file, s.digest) /\ input.sources[s.source].pin \in {0, s.digest}
  BY <1>1, <1>2, AcceptedOfRecordedBytes DEF EvidenceIsOfRecordedBytes
<1>4. s.digest = between[s.file]
  BY <1>1, <1>2, AcceptedCoexisted DEF EvidenceCoexisted
<1> DEFINE x == input.sources[s.source]
<1>5. s.source \in DOMAIN input.sources /\ x.row = r /\ x.file = s.file
  BY <1>1 DEF EvidenceInv, FoundInv
<1>6. x \in Range(input.sources) BY <1>5 DEF Range
<1> HIDE DEF x
<1>7. [row |-> x.row, read |-> "holds"] \in EvidenceAt(between).found
  BY <1>3, <1>4, <1>5, <1>6 DEF EvidenceAt, x
<1>8. QED BY <1>5, <1>7 DEF Established

\* And a result that passed passes at that look.
LEMMA InstantPasses ==
  ASSUME EvidenceInv, Exportable, NEW b \in batch, b.passed
  PROVE  \E a \in EvidenceAt(between).batch : a.row = b.row /\ a.passed
<1>1. b \in saved.batch BY Accepted
<1>2. HoldsInRecord(b.file, b.digest) /\ b.digest = between[b.file]
  BY <1>1, AcceptedOfRecordedBytes, AcceptedCoexisted DEF EvidenceIsOfRecordedBytes, EvidenceCoexisted
<1>3. PICK i \in DOMAIN input.requests :
        input.requests[i].row = b.row /\ input.requests[i].file = b.file
  BY DEF EvidenceInv, BatchInv, Asked
<1> DEFINE q == input.requests[i]
<1>4. q \in Range(input.requests) /\ q.file \in Files
  BY <1>3 DEF Range, EvidenceInv, BatchInv
<1>5. q.row = b.row /\ HoldsInRecord(q.file, between[q.file]) BY <1>2, <1>3
<1> HIDE DEF q
<1> DEFINE a == [row |-> q.row, passed |-> HoldsInRecord(q.file, between[q.file])]
<1>6. a \in EvidenceAt(between).batch BY <1>4 DEF EvidenceAt
<1>7. a.row = b.row /\ a.passed BY <1>5
<1>8. QED BY <1>6, <1>7

LEMMA AcceptedAtAnInstant == EvidenceInv => DecisionsHadAnInstant
<1> SUFFICES ASSUME EvidenceInv, Exportable PROVE DecisionsHadAnInstant
  BY DEF DecisionsHadAnInstant
<1> DEFINE d == EvidenceAt(between)
<1>1. saved = Payload(input, Evidence) /\ Evidence.batch = batch /\ Evidence.found = found
  BY Accepted DEF Evidence
<1>2. saved.emitted = Eligible(input, Evidence) /\ saved.final = FinalProjectGate(input, Evidence)
  BY <1>1, PayloadFields
<1>3. ASSUME NEW r \in Rows(input), Satisfied(input, Evidence, r) PROVE Satisfied(input, d, r)
  <2>1. Established(found, r) => Established(d.found, r) BY InstantEstablishes
  <2>2. (\E b \in batch : b.row = r /\ b.passed) => \E a \in d.batch : a.row = r /\ a.passed
    BY InstantPasses
  <2> HIDE DEF d
  <2>3. QED BY <1>1, <1>3, <2>1, <2>2 DEF Satisfied
<1> HIDE DEF d
<1>4. Eligible(input, Evidence) => Eligible(input, d) BY <1>3, EligibleMonotone
<1>5. Obligations(input, Evidence) = {} => Obligations(input, d) = {} BY <1>3 DEF Obligations
<1>6. saved.final = "eligible" => FinalProjectGate(input, d) = "eligible"
  BY <1>2, <1>4, <1>5 DEF FinalProjectGate
<1>7. QED BY <1>2, <1>4, <1>6 DEF d, DecisionsHadAnInstant

---------------------------------------------------------------------------
\* What the exporter refuses.

LEMMA MappedClaims == PreBuilder \ Interrogated = Unmapped /\ Unmapped \subseteq PreBuilder
BY DEF PreBuilder, PreBuilderStatic, PreBuilderCapability, Interrogated, Unmapped

\* A satisfied claim is read back as satisfied exactly when the map has a field for it.
LEMMA ReadBack ==
  ASSUME NEW in, NEW e, NEW r \in Rows(in), Satisfied(in, e, r)
  PROVE  Observed(Payload(in, e), r) = "yes" <=> r.claim \in Interrogated
<1>1. PICK n \in Nodes : \E c \in RequiredClaims(in, n) : r = [subject |-> n, claim |-> c]
  BY DEF Rows
<1>2. Payload(in, e).interrogation = Interrogation(in, e) BY DEF Payload
<1>3. CASE r.claim \in Interrogated
  <2>1. r.subject = n /\ r = [subject |-> n, claim |-> r.claim] BY <1>1
  <2>2. Interrogation(in, e)[n][r.claim] = "yes" BY <1>3, <2>1 DEF Interrogation
  <2>3. QED BY <1>2, <1>3, <2>1, <2>2 DEF Observed
<1>4. CASE r.claim \notin Interrogated BY <1>4 DEF Observed
<1>5. QED BY <1>3, <1>4

\* The exporter refuses an eligible payload for an unmapped claim or unordered classes.
LEMMA EligibleRefused ==
  ASSUME NEW in, NEW e, Eligible(in, e), ContractsAccepted(in.contracts)
  PROVE  Refused(in, Payload(in, e)) <=>
           ~in.classesInOrder \/ \E r \in Rows(in) : r.claim \in Unmapped
<1> DEFINE p == Payload(in, e)
<1>1. /\ AuthorityDiagnostics(p) \subseteq {"claim_state"} /\ PackageEligible(p)
      /\ ArtifactDiagnostics(in, p, Artifact(in, p)) = {}
  BY DerivationsAgree
<1>2. p.resolution = AuthorityResolution(in, e) BY PayloadFields
<1>3. \A r \in Rows(in) : r.claim \in PreBuilder => Satisfied(in, e, r)
  BY DEF Eligible, StrategyComplete, Blockers
<1>4. \A r \in Rows(in) : r.claim \in PreBuilder =>
        (Observed(p, r) = "yes" <=> r.claim \notin Unmapped)
  BY <1>3, ReadBack, MappedClaims
<1> HIDE DEF p
<1>5. p.resolution = {[row |-> r, state |-> "supported"] : r \in {q \in Rows(in) : q.claim \in PreBuilder}}
  BY <1>2, <1>3 DEF AuthorityResolution
<1>6. "claim_state" \in AuthorityDiagnostics(p) <=> \E r \in Rows(in) : r.claim \in Unmapped
  <2>1. "claim_state" \in AuthorityDiagnostics(p) <=>
          \E x \in p.resolution : Observed(p, x.row) # Expected(x)
    BY DEF AuthorityDiagnostics
  <2>2. \A x \in p.resolution : Expected(x) = "yes" BY <1>5 DEF Expected
  <2>3. (\E x \in p.resolution : Observed(p, x.row) # "yes") <=>
          \E r \in Rows(in) : r.claim \in PreBuilder /\ Observed(p, r) # "yes"
    <3>1. \A x \in p.resolution :
            x.row \in Rows(in) /\ x.row.claim \in PreBuilder
      BY <1>5
    <3>2. ASSUME NEW r \in Rows(in), r.claim \in PreBuilder
          PROVE  \E x \in p.resolution : x.row = r
      <4>1. [row |-> r, state |-> "supported"] \in p.resolution BY <1>5, <3>2
      <4>2. QED BY <4>1
    <3>3. QED BY <3>1, <3>2
  <2>4. (\E x \in p.resolution : Observed(p, x.row) # Expected(x)) <=>
          \E x \in p.resolution : Observed(p, x.row) # "yes"
    BY <2>2
  <2>5. (\E r \in Rows(in) : r.claim \in PreBuilder /\ Observed(p, r) # "yes") <=>
          \E r \in Rows(in) : r.claim \in Unmapped
    BY <1>4, MappedClaims
  <2>6. QED BY <2>1, <2>3, <2>4, <2>5
<1>7. Refused(in, p) <=> AuthorityDiagnostics(p) # {} \/ ~in.classesInOrder
  BY <1>1 DEF Refused, IdentityMatches
<1>8. QED BY <1>1, <1>6, <1>7 DEF p

LEMMA AcceptedRefusals == EvidenceInv => OnlyKnownRefusals
<1> SUFFICES ASSUME EvidenceInv, Exportable, saved.emitted, ContractsAccepted(input.contracts)
             PROVE  Refused(input, saved) <=>
                      ~input.classesInOrder \/ \E r \in Rows(input) : r.claim \in Unmapped
  BY DEF OnlyKnownRefusals
<1>1. saved = Payload(input, Evidence) /\ Eligible(input, Evidence) BY Accepted, PayloadFields
<1>2. QED BY <1>1, EligibleRefused

---------------------------------------------------------------------------
\* An artifact that lets Builder start was earned by the raw draft and the recorded bytes,
\* for every set of nodes, approved classes, files and inputs.
THEOREM HandoffJustified == Spec => []HandoffIsJustified
<1>1. QED BY EvidenceInvariant, AcceptedJustified, PTL

\* What the runtime requests gave never decides the handoff, and the final gate opens only
\* on a recorded pass of every runtime claim.
THEOREM RuntimeOnlyAtTheEnd == Spec => []RuntimeGatesOnlyTheEnd
<1>1. QED BY EvidenceInvariant, AcceptedGatesOnlyTheEnd, PTL

\* The derivations of the evaluation, the handoff gate and the transaction validation agree.
THEOREM DerivationsConsistent == Spec => []RecomputationsAgree
<1>1. QED BY EvidenceInvariant, AcceptedAgree, PTL

\* However the files change between the reads of an evaluation, the handoff and the final gate
\* are decided as by an evaluation that reads everything at one instant.
THEOREM DecidedAtAnInstant == Spec => []DecisionsHadAnInstant
<1>1. QED BY EvidenceInvariant, AcceptedAtAnInstant, PTL

\* The exporter refuses a ready payload for a claim that its map lacks or for classes that are
\* out of order, always then and never otherwise.
THEOREM RefusalsKnown == Spec => []OnlyKnownRefusals
<1>1. QED BY EvidenceInvariant, AcceptedRefusals, PTL

\* Where no input has such a claim or such classes, a ready payload reaches Builder.
Unaffected ==
  \A in \in Inputs : in.classesInOrder /\ \A r \in Rows(in) : r.claim \notin Unmapped

THEOREM ReadyReaches == Unaffected => (Spec => []ReadyReachesBuilder)
<1> SUFFICES ASSUME Unaffected PROVE Spec => []ReadyReachesBuilder
  OBVIOUS
<1>1. EvidenceInv => ReadyReachesBuilder
  <2> SUFFICES ASSUME EvidenceInv PROVE ReadyReachesBuilder
    OBVIOUS
  <2>1. OnlyKnownRefusals /\ input \in Inputs BY AcceptedRefusals DEF EvidenceInv, StepInv
  <2>2. QED BY <2>1 DEF Unaffected, OnlyKnownRefusals, ReadyReachesBuilder
<1>2. QED BY <1>1, EvidenceInvariant, PTL

\* A runtime claim stays an obligation of a later stage unless a request is executed: only an
\* authored result takes one away, neither an approval, a judgment nor an artifact does.
NothingExecuted == \A in \in Inputs : in.requests = <<>>

THEOREM ObligationsStay == NothingExecuted => (Spec => []RuntimeClaimsStayObligations)
<1> SUFFICES ASSUME NothingExecuted PROVE Spec => []RuntimeClaimsStayObligations
  OBVIOUS
<1>1. EvidenceInv => RuntimeClaimsStayObligations
  <2> SUFFICES ASSUME EvidenceInv, Exportable,
                      NEW r \in Rows(input), r.claim \in PostBuilderRuntime
               PROVE  r \in saved.obligations
    BY DEF RuntimeClaimsStayObligations
  <2>1. saved.obligations = Obligations(input, Evidence)
    BY Accepted DEF Payload
  <2>2. batch = {}
    <3>1. DOMAIN input.requests = {} BY DEF NothingExecuted, EvidenceInv, StepInv
    <3>2. QED BY <3>1 DEF EvidenceInv, BatchInv, Asked
  <2>3. ~Satisfied(input, Evidence, r)
    BY <2>2 DEF Satisfied, Evidence, NeedsSource, PostBuilderRuntime, DecisionClaims, ArtifactOnly,
                ArtifactOrJudgment, JudgmentClaims
  <2>4. QED BY <2>1, <2>3 DEF Obligations
<1>2. QED BY <1>1, EvidenceInvariant, PTL
==============================================================================
