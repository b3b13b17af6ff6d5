---------------------- MODULE ConstructabilityEvaluation ----------------------
(***************************************************************************)
(* One evaluation of a Review Draft and the replay that confirms it.       *)
(*                                                                         *)
(* Both rounds execute the runtime requests, read the artifacts the claims *)
(* cite and assemble a payload; the payload of the first round is accepted *)
(* when the second one reproduces it.  Files of the working tree may be    *)
(* edited at any time, between two reads of one file included.             *)
(***************************************************************************)
EXTENDS Naturals, Sequences, Functions, ActionEffects

CONSTANTS Orphan,     \* a node the draft speaks of and the build tree does not have
          Files,      \* files of the working tree that requests and claims point to
          NoFile,     \* the reference of a request that names no file
          Inputs,     \* the inputs (Architect intake, source bundle, Review Draft)
          MaxEdits    \* bound on the edits of the files

ASSUME OrphanAssumption == Orphan \notin Nodes
ASSUME NoFileAssumption == NoFile \notin Files

RowType == [subject : Nodes \cup {Orphan}, claim : Claims]

\* The counts, requests and sources of an input; a source declares no digest with pin 0.
ASSUME InputsAssumption ==
  \A in \in Inputs :
    /\ in.reviewed \in [Nodes \cup {Orphan} -> Nat] /\ in.strategies \in [Nodes \cup {Orphan} -> Nat]
    /\ in.requests \in Seq([row : RowType, file : Files \cup {NoFile}])
    /\ in.sources \in Seq([row : RowType, file : Files, pin : Nat])

Contents == {"holds", "fails", "malformed", "missing"}

VARIABLES input,      \* the inputs, fixed for the run
          history,    \* per file its contents so far; edits never restore old bytes
          pc, round,  \* where the evaluation is, and in which of the two rounds
          step,       \* the request or cited source it is at
          seen,       \* what the first read of a runtime target gave
          batch,      \* results of executed runtime requests
          found,      \* what the cited artifacts said
          saved,      \* the payload of the first round
          between,    \* per file its version when the first round ended (history)
          outcome

vars == <<input, history, pc, round, step, seen, batch, found, saved, between, outcome>>

Version(f) == Len(history[f])
Current(f) == history[f][Version(f)]
Edits == SumFunction([f \in Files |-> Version(f) - 1])

\* The files a request or a source of an input names; no other file is ever read.
Named(in) ==
  {f \in Files : \/ \E i \in DOMAIN in.requests : in.requests[i].file = f
                 \/ \E i \in DOMAIN in.sources : in.sources[i].file = f}

---------------------------------------------------------------------------
(* The review the draft owes.  A node that is not reviewed says nothing:   *)
(* its hints, requests, judgments and disclosures are empty.               *)

Reviewed(in) == {n \in Nodes \cup {Orphan} : in.reviewed[n] > 0}

RequiredClaims(in, n) ==
  (UNION {ContractClaims[a.type] : a \in ActionsOn(in, n)})
  \cup (UNION {HintClaims[h] : h \in in.hints[n]})
  \cup (IF \/ n \in in.changes
           \/ \E a \in ActionsOn(in, n) : HasClassEffect(a) \/ HasStructureEffect(a)
        THEN {"geometry"} ELSE {})
  \cup in.requested[n]

\* The action types of these nodes carry no claim, so an empty set is proven empty.
ExplicitNoClaim(in) == {n \in Nodes : ActionsOn(in, n) # {} /\ RequiredClaims(in, n) = {}}

Rows(in) == UNION {{[subject |-> n, claim |-> c] : c \in RequiredClaims(in, n)} : n \in Nodes}

ReviewDiagnostics(in) ==
  {d \in {"node_missing", "node_orphan", "node_duplicate"} :
     \/ d = "node_missing" /\ ~(Nodes \subseteq Reviewed(in))
     \/ d = "node_orphan" /\ Orphan \in Reviewed(in)
     \/ d = "node_duplicate" /\ \E n \in Reviewed(in) : in.reviewed[n] > 1}

\* An action that breaks this leaves the review incomplete without a diagnostic of its own.
ObligationsComplete(in) ==
  /\ ReviewDiagnostics(in) = {}
  /\ \A a \in in.actions : a.target \in Nodes /\ ~HasEffectDiagnostic(in, a)
  /\ \A n \in Nodes : ActionsOn(in, n) # {}

\* A disclosed change is vouched for by any effect on the node that holds a permission.
DisclosedUnpermitted(in) ==
  {n \in in.changes \ in.permits : \A a \in ActionsOn(in, n) : ~HoldsPermission(in, a)}

ClassesPreserved(in) == "classes" \notin in.altered /\ \A a \in in.actions : ~ChangesClassSet(a)
TreePreserved(in) ==
  /\ Reviewed(in) \cap Nodes = Nodes /\ Orphan \notin Reviewed(in)
  /\ \A n \in Nodes : in.reviewed[n] = 1
  /\ \A a \in in.actions : ~HasStructureEffect(a)
  /\ "tree" \notin in.altered

\* `altered` holds what the bundle or the draft's echo gives differently from the intake.
IdentityDiagnostics(in) ==
  (in.altered \ {"proposal"})
  \cup {d \in {"coverage_incomplete", "classes_changed", "tree_changed", "unauthorized_redesign",
          "forbidden_work", "trace_incomplete"} :
     \/ /\ d = "coverage_incomplete"
        /\ (Reviewed(in) # Nodes \/ \E n \in Reviewed(in) : in.reviewed[n] > 1)
     \/ d = "classes_changed" /\ \E a \in in.actions : ChangesClassSet(a)
     \/ d = "tree_changed" /\ \E a \in in.actions : HasStructureEffect(a)
     \/ /\ d = "unauthorized_redesign"
        /\ (DisclosedUnpermitted(in) # {} \/ \E a \in in.actions : Blocked(in, a))
     \/ d = "forbidden_work" /\ \E a \in in.actions : Conflicts(in, a) # {}
     \/ d = "trace_incomplete" /\ ~(Nodes \subseteq (in.traced \cap Reviewed(in)))}

---------------------------------------------------------------------------
(* What each claim rests on: `e.batch` executed, `e.found` read from cited *)
(* artifacts, the rest from the inputs.                                    *)

Cites(in, r) == \E i \in DOMAIN in.sources : in.sources[i].row = r
NeedsSource(in, r) == r.claim \in ArtifactOnly \/ (r.claim \in ArtifactOrJudgment /\ Cites(in, r))

\* Mutant: any record of a source establishes the claim.
EstablishedByAny(records, r) == \E s \in records : s.row = r
Established(records, r) == \E s \in records : s.row = r /\ s.read = "holds"

Satisfied(in, e, r) ==
  \/ r.claim \in PostBuilderRuntime /\ (\E b \in e.batch : b.row = r /\ b.passed)
  \/ r.claim \in DecisionClaims /\ r \in in.approvals
  \/ NeedsSource(in, r) /\ Established(e.found, r)
  \/ r.claim \in JudgmentClaims /\ ~NeedsSource(in, r) /\ r \in in.judged

\* After the runtime rows have been taken out of the blocking ones.
\* Mutant: runtime claims hold Builder back as well.
BlockersAnyPhase(in, e) == {r \in Rows(in) : ~Satisfied(in, e, r)}
Blockers(in, e) == {r \in Rows(in) : r.claim \in PreBuilder /\ ~Satisfied(in, e, r)}
Obligations(in, e) == {r \in Rows(in) : r.claim \in PostBuilderRuntime /\ ~Satisfied(in, e, r)}

DependencyComplete(in, e) == Blockers(in, e) = {} /\ (Rows(in) # {} \/ ExplicitNoClaim(in) # {})

LeavesDecision(in) == in.unsettled \/ \E a \in in.actions : a.open

AmendmentNodes(in) ==
  (in.changes \ in.permits) \cup {a.target : a \in {b \in in.actions : LacksPermission(in, b)}}

NonBlockingCovered(in, e) ==
  \/ Rows(in) # {} /\ \A r \in Rows(in) : Satisfied(in, e, r) \/ r \in Obligations(in, e)
  \/ ExplicitNoClaim(in) = Nodes

StrategyNodes(in) == {n \in Nodes \cup {Orphan} : in.strategies[n] > 0}

StrategyDiagnostics(in, e) ==
  {d \in {"strategy_missing", "strategy_duplicate", "target_invalid", "action_uncovered",
          "hidden_decision", "effect_blocked", "amendment_required", "proposal_changed",
          "classes_changed", "tree_changed", "obligation_hidden"} :
     \/ d = "strategy_missing" /\ ~(Nodes \subseteq StrategyNodes(in))
     \/ d = "strategy_duplicate" /\ \E n \in StrategyNodes(in) : in.strategies[n] > 1
     \/ d = "target_invalid" /\ \E a \in in.actions : a.target \notin Nodes
     \/ d = "action_uncovered" /\ \E a \in in.actions : a.target \notin StrategyNodes(in)
     \/ d = "hidden_decision" /\ LeavesDecision(in)
     \/ d = "effect_blocked" /\ \E a \in in.actions : Blocked(in, a)
     \/ d = "amendment_required" /\ AmendmentNodes(in) # {}
     \/ d = "proposal_changed" /\ "proposal" \in in.altered
     \/ d = "classes_changed" /\ ~ClassesPreserved(in)
     \/ d = "tree_changed" /\ ~TreePreserved(in)
     \/ d = "obligation_hidden" /\ ~NonBlockingCovered(in, e)}

StrategyComplete(in, e) == Blockers(in, e) = {} /\ StrategyDiagnostics(in, e) = {}

---------------------------------------------------------------------------
(* The payload.                                                            *)

\* Mutant: what the Architect left unknown is not asked.
EligibleDespiteUnknowns(in, e) ==
  /\ IdentityDiagnostics(in) = {} /\ ObligationsComplete(in)
  /\ DependencyComplete(in, e) /\ StrategyComplete(in, e)
  /\ in.actions # {}

Eligible(in, e) ==
  /\ IdentityDiagnostics(in) = {} /\ ObligationsComplete(in)
  /\ DependencyComplete(in, e) /\ StrategyComplete(in, e)
  /\ ~in.unknowns
  /\ in.actions # {}

ConstructabilityStatus(in, e) ==
  CASE AmendmentNodes(in) # {} -> "needs_architect_amendment"
    [] AmendmentNodes(in) = {} /\ (Blockers(in, e) # {} \/ in.unknowns) -> "needs_user_evidence"
    [] AmendmentNodes(in) = {} /\ Blockers(in, e) = {} /\ ~in.unknowns /\ ~Eligible(in, e) -> "blocked"
    [] OTHER -> "executable_ready"

DiagnosticUnresolved(in, e) ==
  (IdentityDiagnostics(in) \X {"identity"}) \cup (ReviewDiagnostics(in) \X {"review"})
  \cup (StrategyDiagnostics(in, e) \X {"strategy"})

Unresolved(in, e) ==
  LET reasons == {<<r.subject, r.claim>> : r \in Blockers(in, e)}
                 \cup {<<"architect", "unknown">> : x \in {y \in {TRUE} : in.unknowns}}
                 \cup DiagnosticUnresolved(in, e)
  IN  IF reasons = {} /\ ~Eligible(in, e) THEN {<<"evaluation", "incomplete">>} ELSE reasons

\* Mutant: a field map that lacks most of the claims.
InterrogatedFew == {"geometry", "overlay_strategy", "accessibility"}

\* The fields of a node's interrogation that the exporter reads back.
Interrogated ==
  {"geometry", "overlay_strategy", "ui_control_path", "dynamic_loop_approval",
   "interaction_approval", "asset_source", "placeholder_policy", "accessibility",
   "responsive_behavior"}

Interrogation(in, e) ==
  [n \in Nodes |-> [c \in Interrogated |->
     LET r == [subject |-> n, claim |-> c]
     IN  CASE r \notin Rows(in) -> "none"
           [] r \in Rows(in) /\ Satisfied(in, e, r) -> "yes"
           [] OTHER -> "no"]]

AuthorityResolution(in, e) ==
  {[row |-> r, state |-> IF Satisfied(in, e, r) THEN "supported" ELSE "unsupported"] :
     r \in {q \in Rows(in) : q.claim \in PreBuilder}}

FinalProjectGate(in, e) ==
  IF Eligible(in, e) /\ Obligations(in, e) = {} THEN "eligible" ELSE "blocked"

Payload(in, e) ==
  [status |-> IF Eligible(in, e) THEN "complete" ELSE "insufficient_evidence",
   constructability |-> ConstructabilityStatus(in, e),
   emitted |-> Eligible(in, e),
   strategyMap |-> Eligible(in, e),
   decisions |-> LeavesDecision(in),
   unresolved |-> Unresolved(in, e),
   resolution |-> AuthorityResolution(in, e),
   interrogation |-> Interrogation(in, e),
   obligations |-> Obligations(in, e),
   final |-> FinalProjectGate(in, e),
   batch |-> e.batch, found |-> e.found]

Evidence == [batch |-> batch, found |-> found]
NoPayload == [status |-> "none"]

---------------------------------------------------------------------------
(* The evaluation.                                                         *)

Init ==
  /\ input \in Inputs
  /\ history \in [Files -> {<<c>> : c \in Contents}]
  /\ \A f \in Files \ Named(input) : history[f] = <<"missing">>
  /\ pc = "start" /\ round = 1 /\ step = 1 /\ seen = "none"
  /\ batch = {} /\ found = {} /\ saved = NoPayload
  /\ between = [f \in Files |-> 0] /\ outcome = "none"

End(result) ==
  /\ pc' = "done" /\ outcome' = result
  /\ UNCHANGED <<input, history, round, step, seen, batch, found, saved, between>>

\* Mutant: the position is not reset for the next phase.
AdvanceOnly(next) ==
  /\ pc' = next /\ step' = step + 1
  /\ UNCHANGED <<input, history, round, seen, saved, between, outcome>>

Advance(next) ==
  /\ pc' = next /\ step' = IF next = pc THEN step + 1 ELSE 1
  /\ UNCHANGED <<input, history, round, seen, saved, between, outcome>>

\* A draft without Builder actions has no action representation to evaluate.
Start ==
  /\ pc = "start"
  /\ IF input.actions = {} THEN End("refused")
     ELSE Advance("resolve") /\ UNCHANGED <<batch, found>>

Request == input.requests[step]
RefusedRequest ==
  \/ Request.row.claim \notin PostBuilderRuntime
  \/ \E i \in 1..(step - 1) : input.requests[i].row = Request.row

\* A target that is not there leaves the claim without a result.
Resolve ==
  /\ pc = "resolve" /\ step <= Len(input.requests)
  /\ CASE RefusedRequest -> End("refused")
       [] ~RefusedRequest /\ (Request.file = NoFile \/ Current(Request.file) = "missing") ->
            Advance("resolve") /\ UNCHANGED <<batch, found>>
       [] OTHER -> /\ pc' = "load"
                   /\ UNCHANGED <<input, history, round, step, seen, batch, found, saved, between, outcome>>

Load ==
  /\ pc = "load"
  /\ IF Current(Request.file) \in {"malformed", "missing"} THEN End("refused")
     ELSE /\ pc' = "digest" /\ seen' = Current(Request.file)
          /\ UNCHANGED <<input, history, round, step, batch, found, saved, between, outcome>>

\* The target is read again for the digest that goes on record.
Digest ==
  /\ pc = "digest"
  /\ IF Current(Request.file) = "missing" THEN End("raised")
     ELSE /\ pc' = "resolve" /\ step' = step + 1 /\ seen' = "none"
          /\ batch' = batch \cup {[row |-> Request.row, passed |-> seen = "holds",
                                   file |-> Request.file, digest |-> Version(Request.file)]}
          /\ UNCHANGED <<input, history, round, found, saved, between, outcome>>

Executed ==
  /\ pc = "resolve" /\ step > Len(input.requests)
  /\ Advance("check") /\ UNCHANGED <<batch, found>>

Source == input.sources[step]
Wanted == /\ Source.row \in Rows(input) /\ Source.row.claim \in SourceClaims
          /\ ~Established(found, Source.row)

Skip == Advance("check") /\ UNCHANGED <<batch, found>>

\* What a failed source says of itself is dropped once another one establishes the claim.
Record(read, digest) ==
  LET kept == IF read = "holds" THEN {s \in found : s.row # Source.row} ELSE found
  IN  /\ found' = kept \cup {[row |-> Source.row, source |-> step, file |-> Source.file,
                              read |-> read, digest |-> digest]}
      /\ pc' = "check" /\ step' = step + 1
      /\ UNCHANGED <<input, history, round, seen, batch, saved, between, outcome>>

\* The digest the draft declares for a source is compared on a first read of the file.
Check ==
  /\ pc = "check" /\ step <= Len(input.sources)
  /\ CASE ~Wanted -> Skip
       [] Wanted /\ Current(Source.file) = "missing" -> Record("missing", 0)
       [] Wanted /\ Current(Source.file) # "missing"
          /\ Source.pin \notin {0, Version(Source.file)} -> Record("differs", 0)
       [] OTHER -> /\ pc' = "parse"
                   /\ UNCHANGED <<input, history, round, step, seen, batch, found, saved,
                                  between, outcome>>

\* The parser reads the file again; the record carries the digest of that read.
Parse ==
  /\ pc = "parse"
  /\ LET c == Current(Source.file)
     IN  Record(c, IF c = "holds" THEN Version(Source.file) ELSE 0)

Assemble ==
  /\ pc = "check" /\ step > Len(input.sources) /\ round = 1
  /\ saved' = Payload(input, Evidence) /\ between' = [f \in Files |-> Version(f)]
  /\ round' = 2 /\ pc' = "start" /\ step' = 1 /\ batch' = {} /\ found' = {}
  /\ UNCHANGED <<input, history, seen, outcome>>

\* Mutant: the replay compares what was decided and not what it rests on.
CompareStatus ==
  /\ pc = "check" /\ step > Len(input.sources) /\ round = 2
  /\ End(IF Payload(input, Evidence).emitted = saved.emitted THEN "accepted" ELSE "refused")

\* Mutant: the replay leaves the results of the runtime requests out.
CompareWithoutResults ==
  /\ pc = "check" /\ step > Len(input.sources) /\ round = 2
  /\ End(IF Payload(input, Evidence).found = saved.found THEN "accepted" ELSE "refused")

\* Mutant: the replay does not read the cited artifacts.
CompareWithoutArtifacts ==
  /\ pc = "check" /\ step > Len(input.sources) /\ round = 2
  /\ End(IF Payload(input, [batch |-> batch, found |-> {}]) = saved THEN "accepted" ELSE "refused")

Compare ==
  /\ pc = "check" /\ step > Len(input.sources) /\ round = 2
  /\ End(IF Payload(input, Evidence) = saved THEN "accepted" ELSE "refused")

Edit(f, c) ==
  /\ pc # "done" /\ Edits < MaxEdits /\ f \in Named(input)
  /\ history' = [history EXCEPT ![f] = Append(@, c)]
  /\ UNCHANGED <<input, pc, round, step, seen, batch, found, saved, between, outcome>>

Done == pc = "done" /\ UNCHANGED vars

Next ==
  \/ Start \/ Resolve \/ Load \/ Digest \/ Executed \/ Check \/ Parse \/ Assemble \/ Compare
  \/ \E f \in Files, c \in Contents : Edit(f, c)
  \/ Done

Spec == Init /\ [][Next]_vars

---------------------------------------------------------------------------
(* Properties.                                                             *)

TypeOK ==
  /\ history \in [Files -> Seq(Contents) \ {<<>>}]
  /\ pc \in {"start", "resolve", "load", "digest", "check", "parse", "done"}
  /\ round \in {1, 2} /\ step \in 1..(Len(input.requests) + Len(input.sources) + 1)
  /\ seen \in {"none", "holds", "fails"}
  /\ \A b \in batch : b.row.claim \in PostBuilderRuntime /\ b.digest \in 1..Version(b.file)
  /\ \A s \in found : s.row \in Rows(input) /\ s.digest \in 0..Version(s.file)
  /\ between \in [Files -> Nat]
  /\ outcome \in {"none", "refused", "raised", "accepted"}
==============================================================================
