# A TLA+ model of the EV4 Constructability Engineer

This directory holds the formal model of the program in `src/`: TLA+ modules, the TLC
configurations that check them on small instances, and theorems that TLAPS proves for every
instance. `PROJECT.json` maps each definition to the lines it models and lists the runs, the
mutants, the hazards and the theorems.

## The system

The repository is a set of Python command line tools without a server, a database or threads.
State lives in files: an *Architect intake*, a *source bundle*, a *Review Draft* (or, for the
legacy tool, a ready made *CE Stage Payload*), repository files that claims cite, and the
*Project Gate export* that the tools publish for the next stage. What makes the program hard is
that each command reads several of these files more than once over a long transaction, writes one
that others read and overwrite, and promises to undo what it wrote when a late check fails.

| Component | State it keeps | Operations | Talks to |
|---|---|---|---|
| Official exporter (`verified_project_gate_exporter.py`, `_verified_project_gate_exporter_impl.py`) | snapshots of three inputs (two of them twice), prior output bytes, private snapshots, a temporary file, the output | capture, check output, evaluate, recapture, replay, build, recheck, write, reread, reload, roll back | evaluation, intake validator, output path shared with other exporters |
| Legacy preview exporter (`project_gate_exporter.py`, `ce_validation_transaction.py`, `legacy_payload_preview.py`) | the same, with a payload instead of a draft and single captures | the same without evaluation; reads restored bytes back and inspects a failed rollback | intake validator, the same output path |
| Envelope and handoff gate (`_project_gate_exporter_build_impl.py`, `project_gate_export.py`, ...) | none between calls | compare the contract copies with their locks, stage manifest, handoff diagnostics, recomputation over a written artifact | both exporters |
| Constructability evaluation (`intermediate_results.py`, `payload_fidelity.py`, `claim_*.py`, `payload_*.py`) | the evaluation run (inputs, results, payload) | normalise draft, evaluate claims, dependencies, strategy, assemble, replay | official exporter, artifact files, runtime execution |
| Runtime execution and obligations (`runtime_execution.py`, `runtime_obligations.py`) | a batch of results bound to one transaction | validate requests, run adapters, select a result, derive obligations, lifecycle status | evaluation |
| Action IR and effects | none | normalise actions, derive effects, order and conflict | assembler |
| Artifact adapters | none | parse HTML, CSS, SVG, JSON; derive facts | claim evaluators |
| Bootstrap routing (`scripts/ce_bootstrap_*.py`) | what was read of each attachment | read and classify the attached files, bind an intake to its bundle, read both again, pick the one stage that starts | intake validator, carrier inspection |
| Architect intake validator (`scripts/validate-ce-architect-stage-intake.py`) | none | validate an intake, compare it with its bundle | router, both exporters |
| Rules engine and modes | none | select and run rules, exit code | exporters, command line |
| AI governance (`.ai-governance/governance/`) | the continuous integration context, the evidence files, the review bundle's directory | validate, record context, derive evidence, inspect and complete a review, emit | git, GitHub's environment, PR Inspector's artifacts |
| PCVP carrier and identity (`pcvp_carrier.py`, `_pcvp_carrier_impl.py`, `pcvp_identity.py`) | none; loads local copies of the canonical contracts on each look | compare the copies with their pins, apply the rules between records, then the profile's | intake validator |
| Receipts, lineage, policy governance | none | consistency of committed files | continuous integration |

### What is hard, and the properties that make each part correct

* **Publication.** A published artifact must be complete, computed from inputs that were on disk
  *together*, and grant a handoff only when the official evaluation of those inputs does. An
  exporter must not overwrite what it was not allowed to. After a failure, the report must be true
  of the file. Interleavings, kills and failing file operations all threaten this; the unit tests
  replace one function by one that raises and look at one outcome.
* **Evaluation.** Runtime claims leave the set of blocking rows and must never decide whether
  Builder starts; an action that changes the approved classes or the tree is recognised, permitted
  and reported by different conditions, and none may slip through all of them; eligibility is
  computed three times by different code, which must agree.
* **Evidence.** Cited artifacts and runtime targets are each read twice per round and again in the
  replay, and can be edited in between: what a payload records must be computed from the bytes it
  names, and all of those bytes must have been on disk together.
* **Governance.** A merge is judged from files that several commands leave behind: the context of
  another run may still lie there, the review bundle can be replaced between two reads, the
  evidence files are written in place and can be cut short, and the head a review names is never
  compared with the head that was tested. No decision may rest on a mixture of these, and nothing
  may be recorded of a run that did not take place.
* **Intake.** The router decides from files an operator keeps editing: an intake and its bundle are
  read one after the other and again one after the other, and the carrier inside is judged against
  local copies that are loaded twice. What starts the first stage must be one valid, grounded intake
  that lay on disk together with the bundle it was derived from; an effect of its carrier must not
  go on by an authorization that only a drifted copy knows; no extra file may stop it.
* **Everything else** is sequential code without state of its own, whose correctness is that of a
  function.

The list of hazards, each at its line with the properties that cover it, is `"hazards"` in
`PROJECT.json`.

## Modules

| Module | Models |
|---|---|
| `ExportTransaction` | both exporters as concurrent processes over shared inputs and one output path |
| `AtomicPublish` | abstract: what one publication promises a reader of the artifact |
| `ExportRefinement` | a lone exporter implements `AtomicPublish` (refinement mapping) |
| `MCExportTransaction`, `MCExportRefinement` | the verdict used by the runs |
| `ExportTransactionProofs`, `ExportSafetyProofs` | theorems about `ExportTransaction`, any number of exporters |
| `ExportRefinementProofs` | a lone exporter: the refinement, and that its report is true |
| `ClaimPolicies` | the claims with their phase and evidence; what actions and phrases bring with them |
| `ActionEffects` | class and structure effects of Builder actions, permissions, prohibitions |
| `ConstructabilityEvaluation` | one evaluation in two rounds, every file read a step, with the payload it assembles |
| `ProjectGateContracts` | the two contract copies with their locks, and the pipeline manifest |
| `HandoffGate` | the exporter's own derivations over that payload and the artifact; the properties |
| `MCHandoffGate` | the drafts the runs evaluate |
| `GovernanceGate` | the governance command and what changes around it |
| `MCGovernanceGate` | working trees, reviews and command lines for its runs |
| `GovernanceProofs` | theorems about `GovernanceGate` |
| `EvaluationProofs`, `HandoffProofs` | theorems about `ConstructabilityEvaluation` and `HandoffGate` |
| `PcvpCarrier` | which carriers are accepted, and against which local copies |
| `ArchitectIntake` | which intakes are valid, and which are bound to which bundle |
| `BootstrapRouting` | one request to the router while files and local copies change; the properties |
| `MCBootstrapRouting` | files, carriers, local copies and requests for its runs |
| `CarrierProofs`, `RoutingProofs` | lemmas about accepted carriers; theorems about `BootstrapRouting` |

`ConstructabilityEvaluation` extends `ActionEffects`, which extends `ClaimPolicies`; `HandoffGate`
extends all of them and `ProjectGateContracts`. `ExportTransaction` stands beside them: what a draft
evaluates to is its constant `Verdict`. `BootstrapRouting` extends `ArchitectIntake`, which extends
`PcvpCarrier`: this is what a conversation passes before an evaluation. `GovernanceGate` shares
nothing with the others: it is the command the repository judges its own changes with.

### ExportTransaction

Each exporter is a process `p` with a program counter `pc[p]`. One action is one file operation of
the code together with everything the code computes from it up to the next one, so other processes,
edits and kills can come between any two file operations and nowhere else.

| Code | Actions |
|---|---|
| `capture_json_snapshot` of draft/payload, intake, bundle | `Capture(p, r)` |
| `safe_output_path` | `CheckOutput` |
| `_read_prior_owned_output` (official: `load_json`, then `read_bytes`) | `InspectPrior`, `ReadPrior` |
| `inspect_git_provenance` ... `assemble_verified_ce_stage_payload` | `Assemble` |
| the second captures of the official `secure_build_export` | `Recapture(p, r)` |
| `verified_payload_data`, and writing the private snapshots | `Replay` |
| intake validation, removal of the snapshots, the envelope and its self checks | `Build` |
| `assert_snapshot_unchanged` | `Recheck(p, r)` |
| `_atomic_write`: `mkstemp`; write, flush, fsync; `os.replace`; `except`/`finally` | `Stage`, `Fill`, `Replace`, `WriteFails` |
| post-write `read_bytes` and `load_json` with the validators | `Reread`, `Reload` |
| rollback without prior output: `unlink` | `Unlink`, `UnlinkFails` |
| rollback with prior output: `_atomic_write` of the prior bytes | `Restore`, then `Stage` ... |
| legacy only: read the restored bytes back; `_inspect_failed_output_state` | `VerifyRestored`, `Inspect` |
| `SIGKILL`, power loss of the process | `Crash` |
| operator edits an input; another program writes or deletes the output | `Edit`, `Outside` |

`VerifiedOrder` and `LegacyOrder` give the two straight lines of code; `Successor` walks them. Both
restore through the same three write actions as they publish: `Restoring(p)` (the candidate has been
rejected) tells which, as the arguments of `_atomic_write` do.

Abstractions:

* A file's bytes are the *version* of the file; every edit makes bytes never seen before. An edit
  that brings old bytes back is left out: the code compares bytes and cannot tell it from no edit.
* An export is the record of the versions it was computed from: `inputs` for the payload, `source`
  for the envelope (`source_hash`, the embedded intake and bundle), which the official exporter
  takes from different captures, plus `allowed`, the handoff. Two exports of the same kind made of
  the same versions are the same bytes, as `canonical_bytes` makes them.
* `Verdict` is what an evaluation gives for a kind and the versions: "invalid", "blocked" or
  "allowed". It is a constant; theorems hold for every function.
* Steps that can refuse for reasons not modelled (malformed JSON, schema, identity, git) can
  always refuse. Before the write every refusal ends in the same result.
* A symbolic link or a directory at the output path is one of the reasons to refuse; a file not
  owned by CE is `Foreign`. `path.exists()` and the read right after it are one step.
* Status "successful" stands for every result that publishes ("successful", "blocked",
  "insufficient_evidence").
* An exception before the write that no clause lists is, for the disk, a `Crash`.
* Repository schemas and contracts do not change while a transaction runs.
* An exception after the write runs the rollback and is then raised again. `Reraise` says what the
  official exporter's result tells of it: a failing read of the candidate is an `OSError` like that of
  any assembly and carries `CE_EXPORT_VERIFIED_REVIEW_ASSEMBLY_FAILED`, a mismatch keeps its own code.

### AtomicPublish and ExportRefinement

`AtomicPublish` saves what it finds, puts a complete offer on trial and ends "kept" (the offer is
there), "reverted" or "abandoned" (what it found is there) or "stranded" (do not rely on it).
`ExportRefinement` reads the `ExportRefinement` reads the outcome off the *report* (status, `output_written`, rejection), as the
caller of the command does. Only a killed exporter has none, and its outcome is read off the step it
was killed at: during the trial it counts as stranded. That says nothing of what a reader of the path
can tell: a candidate nobody validated looks like a published one. What holds of it is what holds of
every content of the path, `PublishedInputsCoexisted` and `HandoffIsEarned`.

### ClaimPolicies, ActionEffects, ConstructabilityEvaluation

`input` is what a command is given: the Architect intake, the source bundle and the Review Draft,
in one record and reduced to what decisions depend on (`ActionEffects` and `MCHandoffGate` name the
fields). It stays as it is for the run, as the snapshots of the exporter do.

| Code | Definitions |
|---|---|
| `CLAIM_POLICIES`, `EVALUATORS`, `ACTION_CONTRACTS`, `PROPOSED_ACTION_HINTS` | `ClaimPolicies` |
| `derive_action_effects` with `_class_effect`, `_structure_effect`, `_forbidden_conflicts` | `ActionEffects` |
| `derive_review_obligations` | `RequiredClaims`, `ExplicitNoClaim`, `ObligationsComplete` |
| `derive_architecture_identity_preservation` | `IdentityDiagnostics`, `ClassesPreserved`, `TreePreserved` |
| the claim evaluators | `Satisfied` |
| `_phase_aware_dependency_result`, `derive_runtime_obligations` | `Blockers`, `Obligations` |
| `derive_implementation_strategy_coverage` | `StrategyDiagnostics`, `AmendmentNodes` |
| `assemble_ce_stage_payload`, `lifecycle_status` | `Payload` and its fields |
| `normalize_actions` refuses a draft without actions | `Start` |
| `execute_runtime_requests`: the target exists; `_load_target`; `read_bytes` for the digest | `Resolve`, `Load`, `Digest`, `Executed` |
| `_artifact_source_evaluation`: the digest of the source; the parser's own read | `Check`, `Parse` |
| first round ends; `verified_payload_data` compares the second with it | `Assemble`, `Compare` |
| an operator edits a cited file or a runtime target | `Edit` |

Abstractions:

* A file holds content that establishes what it is cited or requested for, content that does not,
  content that cannot be parsed, or is missing. Its digest is its version: an edit gives bytes the
  file never had. A file that is put back byte for byte between the two rounds is therefore told
  apart by the model and not by the code; the hazards list says so, where it names the same limit of
  the router's snapshots.
* `altered` names what the bundle or the draft's echo gives differently from the intake; which
  field it is decides the diagnostic, what it says does not.
* Cached extracts of a source are left out: a declared extract can only make its source fail.
* The diagnostics of the evidence register, and the rows of the payload as text, are left out.
* A permission that restricts nothing holds every subject, action type and kind of effect.

### HandoffGate

`AuthorityDiagnostics` is what `validate_verified_payload_authority` recomputes, `IdentityMatches`
and `PackageEligible` are the two validators it calls, `HandoffDiagnostics` and `StageManifest` fill
the artifact, `ArtifactDiagnostics` validates it over the artifact alone, and `Refused`/`Allowed` are
what `secure_build_export` makes of them. The JSON schemas and the rules engine are taken to find
nothing: they can refuse more, never allow more.

The properties relate the end of that chain to its beginning and never to its middle:
`HandoffIsJustified` says what must hold of the raw draft and of the recorded bytes when an artifact
lets Builder start, without using any diagnostic of the code.

`ProjectGateContracts` has `validate_project_gate_lock` as `LockDiagnostics`, `validate_stage_bundle_lock`
as `BundleLockValid`, `validate_pipeline_manifest` as `PipelineDiagnostics`. A contract is the digest of
its copy and what its lock says: whether the constant fields hold, and the two digests. A stage of the
manifest has the four fields that are compared.

### BootstrapRouting, ArchitectIntake, PcvpCarrier

One request is routed while files and local copies change. One action is one read of a file, one
load of the local copies, or the decision that ends the request.

| Code | Definitions |
|---|---|
| `route_request`: a maintenance request is answered without reading | `Start` |
| `_inspect_runtime_attachments`, `attachment_kind` | `Read`, `AttachmentKind`, `Put`; `Breaks` says which contents end in `"crashed"` |
| `validate_value` of the intake script: `_schema_diagnostic`, `_semantic`, `_transition_semantics`, `_validate_transition_trace` | `IntakeSchemaValid`, `SemanticErrors`, `TransitionErrors`, `TransitionTraceErrors`, `Verdict` |
| `inspect_optional_pcvp_carrier`: `_pcvp_carrier_impl` with one load of the copies, then `pcvp_carrier` with another | `Look` and `FirstLook`, `LookAtProfile` and `SecondLook` |
| `_mechanical_diagnostics` | `UniqueIds`, `Resolvable`, `AuthorizationRules`, `EffectRules`, `ProjectionRules`, `SummaryRules`, gathered in `MechanicalRules` |
| `_profile_preauthorization_diagnostics` | `ProfileRules` |
| `load_pcvp_resources` with its pins | `LockIntact`, `ProfileIntact`, `SchemasIntact`, gathered in `Intact` |
| `_verify_selected_source_bundle` | `BindingConflicts`, `Binding` |
| `_route_one_valid_input`: `assert_snapshot_unchanged` of the intake, then of the bundle | `RecheckIntake`, `RecheckBundle` |
| `_route_without_valid_input` | `Fallback` |
| an operator edits an attached file; the checkout of the copies changes | `Edit`, `Drift` |

Abstractions:

* The content of a file is a record of what is asked of it; a digest is the thing it is a digest of.
  `conforms` is everything the intake's JSON schema fixes to a constant.
* A changed file gets a content it never had. With old bytes put back between the two reads
  `assert_snapshot_unchanged` cannot tell (a hazard without a property).
* A local copy is right or one of the wrong ones a run names; the pins of the code are compared with
  it one by one, so a profile and its lock may be wrong together. The loader in
  `_pcvp_carrier_impl.py` (`_load_pinned_schemas`) is replaced when `pcvp_carrier` is imported and is
  not modelled.
* What the answer says is its route, whether it authorizes, the chosen files, and the attachments it
  warns about.

### GovernanceGate

One invocation of `scripts/validate-ai-governance.py` after another, each a new process that finds
the files the previous one left. One action is one read or write of a file, or one question to git.

| Code | Actions |
|---|---|
| `validate_repository_state` | `LoadProfile`, `LoadState`, `LoadSchema`, `ReadArtifact` once per path, `Validate` |
| `validate_profile`, `validate_scope_semantics` | the operators `ProfileDiagnostics`, `ScopeDiagnostics`, `StateDiagnostics` |
| `_git_head`, `record_ci_context` | `GitHead`, `RecordContext` |
| `derive_gate_evidence` | `GitHead`, `DeriveGateEvidence` |
| `inspect_canonical_review_bundle` | `ReadBundleFile` once per file, `InspectBundle` |
| `verify_pr_inspector_review_bundle` | `CheckProvenance`, `CompleteReview` |
| `evaluate_merge_gate`, `emit_evidence` | `MergeStatus`, `Emit` once per file, `Report` |
| a contributor, git, GitHub, a kill | `EditTree`, `Checkout`, `Push`, `ReplaceBundle`, `UpdateInspector`, `Kill` |

Abstractions:

* There is one repository and one pull request; a CI run and its job are one value, and an
  invocation with such a value is one inside GitHub Actions on a pull request.
* `wrong` is the set of single fields of the profile that do not hold what they must; the three
  identity lists are compared item by item. The schema accepts a state or not (`conforms`), and
  what it accepts has lists without duplicates, as its `uniqueItems` says.
* A file of the bundle is of a review; two files have the digests a manifest states when they are
  of the manifest's review. PR Inspector (`OfficialCompletion`) is external: it completes a review
  only when the directory is consistent and the live head is the reviewed one, and it may refuse.
* What an artifact contains does not matter beyond missing, empty and outside the repository.

`ai_governance_evidence.py:206` sets `ExactHeadCiPassed` to a constant false, so by construction no
invocation recommends a merge and one with a review bundle never exits 0; no property is stated of it.

## Runs

All runs of the export use `MCVerdict`, which makes all three verdicts happen and makes them depend on the
combination of versions. Every bound is a constant named `Max...`.

| Run | Instance | Shows |
|---|---|---|
| `ExportSoloLegacy` | 1 legacy, 1 edit, 3 faults, kills | its report is true of the file; the diagnostic of a rejection is kept and a candidate left behind is named while the rollback fails too; it implements `AtomicPublish` |
| `ExportSoloVerified` | 1 official, 2 edits, 1 fault, kills, fair | its report is true of the file and it implements `AtomicPublish`, for at most one fault; residue is reported; the transaction ends although its inputs change |
| `ExportPair` | 1 + 1, 2 edits, kills | published inputs coexisted; a handoff is the official exporter's, and one instant accounts for its payload, its envelope and the verdict |
| `ExportRace` | 1 + 1, 1 fault, 1 outside write, kills, fair | no torn output; guarded replacement; every transaction ends, the other one in its way or not |
| `ExportCleanupFinding` | 1 official, 2 faults | finding: `FailedCleanupIsReported` is violated |
| `Handoff` | 2 nodes, 4 kinds of ready drafts with every pair of some 40 deviations (drafts, contracts, manifest); 2 files, 2 edits, sources and requests with and without digests and targets; the ready drafts of the finding | a handoff is justified by the raw draft, the recorded bytes and unchanged contracts; the derivations agree; evidence is of the recorded bytes, coexisted, and decides what one instant would decide; the replay refuses nothing but a change; runtime claims gate only the end; a ready payload is refused for two reasons only |
| `HandoffReadyFinding` | ready drafts with and without a responsive action, approved classes in order or not | finding: `ReadyReachesBuilder` is violated, for two reasons |
| `HandoffAuthoredFinding` | 2 files, 1 edit | finding: `RuntimeClaimsStayObligations` is violated |
| `Governance` | 2 commits, 2 CI runs, 2 invocations, 2 changes; every scope state over 2 capabilities, every identity list of up to 3 | what is emitted was validated, recorded by the same run, reviewed as it lies in the directory |
| `GovernanceHeadFinding` | 1 invocation of the documented command | finding: `DisclosureIsOfTheNamedHead` is violated |
| `Intake` | up to 3 attachments of every kind, every intake up to 2 deviations from a valid one, bundles, carriers, local copies; edits and drifts between any two steps; fair | the first stage starts on one grounded intake that lay beside its bundle; only an extra file that breaks the router stops it; carriers go on by a canonical authorization and show what their claims allow; every request ends |
| `IntakeExtraFinding` | a valid intake beside any other file, those that break the router among them | finding: `ValidInputIsRouted` is violated |

Why the bounds of the export are enough: mixing versions takes two edits (one seen by one capture, one by the
next); a failed rollback takes a failing validation and a failing operation, and the inspection
that follows it a third; a lost or mistaken replacement takes two exporters, or one and another
program. The safety properties without file content (`NoTornOutput`, `GuardedReplacement`) and with
it (`PublishedInputsCoexisted`, `HandoffIsEarned`) are proved for all bounds as well, and so are the
reports and the refinement for any edits, with any number of faults in the preview exporter and one in
the official one. Those are about a lone exporter on purpose: with another writer no report about a
shared path can be true for longer than the moment it was made.

The bounds of the evaluation: two nodes make a draft with one node right and another wrong, an
orphan, a duplicate and a batch of actions on different nodes. A condition that one deviation breaks
and another one hides needs two, which is every pair. Two edits put a change between the two reads
of one file and another between the two rounds; a mixture of two files takes no more. The ready
inputs the exporter refuses are among them: `OnlyKnownRefusals` says that it refuses those and no
others, and `HandoffReadyFinding` shows with the same inputs what it should have done. `Handoff` has
473 052 distinct states.

The bounds of the governance command: a stale context takes two invocations (one records, one
accepts), and so does a mixture of evidence files. Two changes move the tree and back, or replace
the bundle and move the head, between any two steps. Two capabilities are one that is listed right
and one that is not. The odd trees and defective reviews get one invocation and no changes, because
each is there for one diagnostic.

The bounds of the router: a mixture of an intake and a bundle takes one file that changes before the
other is read, and a change undone in between is excluded by the abstraction; a drift of the copies
between the two looks takes one drift, and one back another. Three attachments are an intake, its
bundle and an extra file, or two intakes and a bundle. A rule that one deviation breaks and another
one hides needs two deviations, which is every pair of them. `Intake` has 222 735 distinct states.

`CHECK_DEADLOCK FALSE` in the export's, the governance and the intake runs: transactions, the bounded
number of invocations and a request end, and nothing restarts them. An
evaluation that has ended stutters (`Done`), so there a deadlock would show.

**Fairness.** `FairSpec` gives each process weak fairness while it is not killed: the code is a
straight line without locks, waits or retries, so a process the operating system runs takes its
next step. Edits, faults, kills and other programs get none. `ExportSoloVerified` has the edits and
`ExportRace` the second exporter that could keep a transaction from ending. In `BootstrapRouting` the
router has weak fairness for the same reason, the edits and drifts have none, and `EveryRequestEnds`
says that they cannot keep it from an answer. `GovernanceGate` states
no fairness: its properties are all about what happens, and its steps are one straight line.

### Findings

`ExportCleanupFinding`: the official exporter's `except Exception:` block
(`_verified_project_gate_exporter_impl.py:1054-1059`) lets an exception of the rollback replace the
one the candidate was rejected for. The result then says `output_written=False`, has a single
diagnostic and no artifact state while the rejected candidate may be at the path.
`docs/CE_PROJECT_GATE_EXPORTER.md:207` promises `CE_EXPORT_POST_WRITE_CLEANUP_FAILED` and the observed
state; the legacy exporter keeps that promise (`ExportSoloLegacy`). This is why `ExportSoloVerified`
allows one fault: rejecting a candidate on a path of one's own already takes one, and the second
would be the failing rollback.

`HandoffAuthoredFinding`: the runners of `runtime_execution.py` compare the `expected` and `observed`
fields of a JSON file, and equal ones satisfy the runtime claim as `VERIFIED_TOOL_EXECUTION`; its
obligation disappears and the final gate can open.
`contracts/CE_PHASE_AWARE_BUILDER_LIFECYCLE_V1_1.md:69-73` says that such a document is a declaration,
that the repository has no runner, and that these claims remain obligations during the handoff.
Runtime requests reach the evaluation through its API only (`verified_constructability.py:184`): the
official command passes none (`_verified_project_gate_exporter_impl.py:1012-1017`). So what the
properties say of runtime targets, and this finding, concern callers of the API.

`HandoffReadyFinding`, first reason: the exporter's map of claims to interrogation fields
(`_verified_project_gate_exporter_impl.py:131`) has no entry for `responsive_strategy` and
`accessibility_strategy`, so a satisfied one is always a mismatch and every ready payload with a
responsive action or an interaction is refused, although `README.md:210` says that it permits the
handoff. Second reason: the payload carries the approved classes sorted
(`intermediate_results.py:119`), the exporter compares them with the intake's list as it stands
(`project_gate_exporter_core.py:463`); an intake in any other order never passes.

`GovernanceHeadFinding`: the disclosure carries the `--head-sha` of the command line as
`computed_from_exact_head` (`ai_governance_evidence.py:58`), its sets come from the working tree, and a
rejected CI context, the only place where git is asked, is a diagnostic and not a failure.
`docs/AI_GOVERNANCE.md:18` says the disclosure is bound to the exact tested head.

`IntakeExtraFinding`, three lines of code. `attachment_kind` looks `schema_id` up in a set before it asks
whether it is a string (`ce_bootstrap_routing.py:98`, then `:100`); `_receipt_record` looks the transition
id of a receipt up in a set and never asks (`:201`). An array or an object there raises `TypeError`.
`strict_load_json_snapshot` catches the decoding errors of `json.loads`
(`ce_bootstrap_snapshot.py:34-39`) and not the plain `ValueError` of an integer with more than 4300
digits or the `RecursionError` of deep nesting. Nothing above catches any of the three, and the valid
intake beside such a file is not routed, although `PROJECT_INSTRUCTIONS.md:172` of the release pack says
that malformed, unrelated or receipt-like extra files do not block a valid input. `Breaks` holds of
these contents, and `OnlyABreakBlocks` shows that in the model nothing else is in the way. It says so of
the contents the model tells apart: texts are not modelled, and one that cannot be encoded again (a
lone surrogate in a carrier or a bundle) may raise where a digest is computed of it.

## Proofs

Of the export, eight theorems for any sets of exporters, any verdict and any bounds, from the three assumptions
named in `ExportTransaction` (bounds are natural numbers, no process runs both exporters, the
markers of a missing, foreign or partial file are no exports):

* `TypeCorrect` and `NeverTorn`. `TypeOK` is not inductive: `Replace` puts `temp[p]` at the output
  path, so the temporary file of a process about to rename must be known to be filled, and what it
  is filled with must be known to be built. `BaseInv` adds that (`WriteInv`) and that a cause is
  recorded while a rollback is under way (`CauseInv`), which is what makes `Bytes` pick the prior
  output.
* `ReplacementGuarded`. `GuardInv`: past its output check and until it ends, an exporter may replace
  what is at the path (`MayReplace`): the output is absent, or is CE-owned and it had `--overwrite`,
  or `late` is set, which every action that changes the output does for all exporters past their
  check.
* `InputsCoexisted` and `HandoffEarned`. `CoexistInv` follows a transaction through its steps:
  captured versions are never newer than the file (`SnapInv`); at each step after a comparison
  succeeded there is an instant in `seen` at which the versions compared so far were on disk with
  the ones still to compare (`WindowInv`); a recapture that
  passed the replay has what the first capture had, and the candidate is exactly what the captures
  say (`EnvelopeInv`); and the output, the prior output and, from the write on, the candidate are
  made of inputs and envelope sources that coexisted, for a handoff of such as the official evaluation
  allows (`GoodInv`). That versions only grow is what makes equal
  bytes at capture and at recheck mean equal bytes in between (`SeenInv`).
* `NoResidueUnreported` and `RejectionsRetained`. `Residue` says at which steps the temporary file
  and the private snapshots exist and which diagnostics go with what is left at the end; `Retained`
  that a rejected candidate is still in a step of its rollback, or its cause is reported. The second
  is about the preview exporters, next to any other exporter and with any failures: the official one
  loses the cause when its rollback fails, which is the finding.
* `StepsAreCounted`. `Left(p)` is the longest way from a program counter to the end, the rollback
  included; every step of `p` takes it down and no step of anyone else changes it (`EndsAreNear`). It
  is the part of `EveryTransactionEnds` that is not about fairness: nothing loops, retries or waits,
  so a process that keeps being scheduled ends after at most 25 steps.

And three for a lone exporter (`SoloAssumption` of `ExportRefinement`) that has the path to itself, with
any failures in the preview exporter and at most one in the official one (`Tolerated`; with a second
one the refinement is false, the finding):

* `PublishesAtomically`. The refinement mapping is total, but the steps map only in states where the
  output on trial is the candidate or the prior output, the prior output is unset until it was read,
  a rejection happened for a failed read and for nothing else, and no failure is left to the official
  exporter after it: `SoloInv` = `BaseInv`, `ReportInv`, `TrialInv`. `Moves` lists the few ways in which
  phase, output, prior output and candidate change together; one lemma per action (`...Kept`) shows
  that it preserves `SoloInv` and makes one of these moves, and `MovesKeepPromise` that each of them is a
  step of `AtomicPublish` or a stutter.
* `ReportsAreTrue` and `LeftoversAreReported`. `SettledInv` says what each phase means for the output
  (`PhaseInv`, preserved by every one of the `Moves`) and what the report's artifact state says of it
  (`Truthful`, shown where the report is made); `SettledMeans` reads both properties off it. The second
  one matters for the preview exporter: with one failure, which the rejection takes, the official one
  leaves no candidate behind.

Of the evaluation and the handoff, eleven theorems, for any nodes, approved classes, files, inputs and
edits, from `OrphanAssumption`, `NoFileAssumption` and `InputsAssumption` (the counts of an input are
natural numbers, its requests and sources are sequences):

* `EvaluationTyped`, `RecordedBytes` and `Coexisted`. Neither property is inductive: both speak of
  an accepted payload only, and what makes them true happens two reads earlier. `EvidenceInv` says
  what each read leaves behind: a result was computed from *some* version that is as recent as
  `between`, the versions at the end of the first round, and not later than the recorded one
  (`BatchInv`, for the read in hand `SeenInv`); the same for the pin of a source (`FoundInv`); what
  the first round recorded is at most `between` (`SavedInv`). When the second round reproduces the
  first one, the two bounds meet: there is one version left for each file, and the read it was
  computed from is the read on record. `HistoryGrows` gives that edits only append.
* `ReplayReproduces`. The two rounds never meet in a state, so what each computes is said without the
  steps: `Answers` and `Quotes` give, from the inputs and the contents of the files alone, the results
  of the first n requests and the records of the first n sources. For the requests that is an image;
  a source that holds drops the records of its claim and stops further reading, so `Stays` says which
  survive: the first that holds, or all when none does. `QuotesSkip` and `QuotesRead` are the two ways in
  which one more source changes that set, and need that a source that held is still credited
  (`Credited`). `ReplayInv` equates `batch` and `found` with these sets at every step of both rounds, for
  as long as no file is edited, and keeps that the first round met no refusal; the second round can
  then neither be refused at a request nor differ at the end.
* `HandoffJustified`, `RuntimeOnlyAtTheEnd`, `DerivationsConsistent`. An accepted payload is
  `Payload(input, Evidence)` (`AcceptInv`), so each is a fact about that operator: the `Eligible...`
  lemmas undo one group of diagnostics each, `EligibleClaims` leads a satisfied claim to its source,
  and `EstablishedGrounded` leads the source to the recorded bytes by `RecordedBytes`.
  `RuntimeIrrelevant` shows that nothing of `batch` is left in `Eligible`; `EligibleIsReady` and
  `ReadyIsEligible` are the two directions of the agreement.
* `DecidedAtAnInstant`. `EligibleMonotone` shows that more evidence never makes a draft less eligible;
  by `RecordedBytes` and `Coexisted` what an accepted payload found is part of `EvidenceAt(between)`
  (`InstantEstablishes`, `InstantPasses`). The other direction does not hold: the exporter may miss
  evidence, a source whose pin did not match when it was read for one, and is then stricter.
* `RefusalsKnown`. `EligibleRefused` reads back what the payload of an eligible draft says of each claim:
  a mapped claim is observed as it was derived (`MappedClaims`, `ReadBack`), an unmapped one never is,
  and no other diagnostic of the exporter is left. `ReadyReaches` follows for inputs with neither
  reason (`Unaffected`), and says that the finding has no third cause.
* `ObligationsStay`. Without an executed request (`NothingExecuted`) no approval, judgment or artifact
  satisfies a runtime claim, so an authored result is the only cause of the other finding.

Of the governance command, seven theorems, for any commits, runs, trees, reviews, scenarios and bounds, from
`WorldAssumption` (a readable tree has its fields, the scenarios are within the bounds):

* `ScopeAccounted` and `ControlsExact` rest on two lemmas about the validators alone: `CleanScope`
  constructs, from the absence of diagnostics, the function that gives each capability its place,
  and `CleanList` shows a clean list to be a permutation. `ValidInv` carries the validity from the
  validation to the emission, `EmittedInv` from there to the file, which outlives the invocation.
* `MatchOfThisRun`. `ContextInv` says of a context file of any age that it was recorded, and
  `VerifiedInv` that an accepted one is of this run, for the head git reported and the scope
  revision read; neither could be shown of the receipt without the other.
* `CapabilityOfTheDirectory` needs what was inspected to be still the case three steps later
  (`InspectInv`), because the completion compares digests only.

* `GovernanceTyped`. `OrderInv` follows the order of the steps: the position in
  the list of paths (`IndexInv`), what has been recorded by then (`RecordsInv`), where the command line
  and the tree come from (`OriginInv`). `ReadArtifact` indexes the list of the tree that was read, so the
  type of the index rests on the order.
* `MixedReported` and `EmissionEarned`. `WrittenInv` says that the files before the current one are
  whole and of this invocation, and that an exit with 0 comes after the last of them; `ReviewInv`
  that what follows a requested review has its capability. Both need that `None` and `Torn` are no
  capability and no evidence (`RecordsAreNotNone`).

Of the router, seven theorems, for any files, copies and requests and any number of changes, from
`ScenarioAssumption` (requests name existing files, a file is an intake exactly when its schema
identifier says so, a carrier's entries are numbered):

* `TypeCorrect`, `Coexistence`, `Earning`. The two properties speak of an answer; what they rest on is
  that a content never comes back (`NoReturn`), that a captured content was in the file at some
  instant and has the bucket its content earns (`Captured`), what the two looks at a carrier have
  established when they are at their next step (`Looking`), that the router has seen every attachment
  when it decides (`Routing`), and that after the second read of the intake it is still there
  (`Rechecked`) and a bundle that is compared with it lay beside it (`Bound`). `IInv` is their
  conjunction, and every step needs all of it.
* `Authorized` and `Honest` follow from `Captured` with two lemmas of `CarrierProofs` about what both looks
  accept, for any copies at the first and at the second look: `AcceptableIsAuthorized` and
  `AcceptableIsHonest`.
* `BreaksAlone`. `Captured` bounds a bucket from one side, and the answer of the router depends on
  both: `Deserved` adds that a content lies in a bucket if and only if it earns it (`Exactly`), that
  nothing is compared again before everything was read (`Finished`), and that a crash shows a content
  that `Breaks` among the attachments (`Crashed`). With it the buckets of a world that has not changed
  are known (`SameWorld`), and `AnswerDeserved` follows `Fallback` and the second reads to the first stage.
* `RequestsAreShort`. `StepsLeft` is at most three steps for an attachment and five more; each step of
  the router takes it down, and edits and drifts leave it (`OwnStepsCount`). It is the part of
  `EveryRequestEnds` that is not about fairness.

Every safety property of the passing runs is stated by a theorem. Only model checked is liveness
(`EveryTransactionEnds`, `EveryRequestEnds`): fairness and ENABLED are out of the prover's reach, and
`StepsAreCounted` and `RequestsAreShort` prove what is not about them. Of the properties the code
violates, `FailedCleanupIsReported`, `ReadyReachesBuilder` and `RuntimeClaimsStayObligations` are proved
under the hypothesis that excludes the cause, `ValidInputIsRouted` in the weaker form of
`OnlyABreakBlocks`, and `DisclosureIsOfTheNamedHead` not at all.

## Plan

1. *(done)* Publication: `ExportTransaction`, its abstract specification, its safety proofs, and the proof
   that a lone exporter implements the abstract specification.
2. *(done)* Evaluation and handoff with their proofs, and the contracts an export is validated against.
3. *(done)* The governance command with its proofs.
4. *(done)* Intake: `BootstrapRouting`, `ArchitectIntake`, `PcvpCarrier` with their proofs.
5. *(open)* `ExportTransaction` and `HandoffGate` composed: the verdict of an export is what the
   evaluation of its inputs gives. Until then the constant `Verdict` stands for it, and the theorems
   about the export hold for every such function.
6. *(open)* The admission of a legacy preview and of an artifact of another origin
   (`project_gate_export.py` from line 326 on).

## Not modelled

* **Rules engine and validation modes** (`engine.py`, `rules.py`): `validate_document` returns before any rule
  for a payload of version 1.1.0, the only one an official export carries. The rules are a pure
  function of one authored legacy document and decide nothing an export rests on.
* **Artifact adapters** (`artifact_*.py`): parsers without state. `ConstructabilityEvaluation` has their
  reads; whether a content holds is an input.
* **The dormant producer** (`pcvp_dormant_producer.py`): nothing calls it.
* **`ce_bootstrap_validation.py`** compares the committed contract files with constants; it is a check of the
  repository, run by continuous integration on files that are committed together. The same holds for
  the kernel decision receipts, the lineage and the policy governance scripts.
* **The command line of the intake validator**, which reads the intake twice and compares nothing
  between the verdict and the binding; the router and the exporters do not use it.
* **Schemas, fixtures, documentation**: data, fixed while a command runs.

The notes of the components in `PROJECT.json` say what is left out of the parts that are modelled.
