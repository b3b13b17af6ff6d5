-------------------------- MODULE MCBootstrapRouting --------------------------
(***************************************************************************)
(* Files, carriers, local copies and requests for BootstrapRouting.        *)
(***************************************************************************)
EXTENDS BootstrapRouting, TLC

CONSTANTS f1, f2, f3

MCFiles == {f1, f2, f3}

---------------------------------------------------------------------------
(* Bundles and intakes.                                                    *)

B1 == [id |-> "b1", repositories |-> {Architect}, contracts |-> {SourceContract},
       stage |-> "architect", commit |-> AcceptedCommit]
OddBundles ==
  {[B1 EXCEPT !.repositories = {Architect, "other"}], [B1 EXCEPT !.contracts = {}],
   [B1 EXCEPT !.stage = "builder"], [B1 EXCEPT !.commit = Absent], [B1 EXCEPT !.commit = "other"],
   [B1 EXCEPT !.id = "b2"]}

Node(id, refs) == [id |-> id, refs |-> refs]
Evidence(id, state, class) == [id |-> id, state |-> state, class |-> class]
Row(source, target, class, rule, order) ==
  [source |-> source, target |-> target, class |-> class, rule |-> rule, order |-> order]
Row1(target) ==
  Row("result", target, TransitionTrace[target].class, TransitionTrace[target].rule, "preserve_source_order")
Trace0 ==
  <<Row1("executed"), Row1("transition_id"), Row1("transition_version"), Row1("producer_repository"),
    Row1("source_bundle_id"), Row1("source_bundle_hash"),
    Row("structure", "nodes", Projection, Absent, "sort_by_id")>>

I1 == [version |-> "1.1.0", conforms |-> TRUE, status |-> "complete", forbidden |-> FALSE,
       legacyRef |-> FALSE, nodes |-> <<Node("n1", {"v1"})>>, approved |-> "n1",
       register |-> <<Evidence("v1", "validated", "project_default")>>, decisionRefs |-> {"v1"},
       trace |-> Trace0, bundle |-> "b1", hash |-> B1, refBundle |-> "b1", commit |-> AcceptedCommit,
       carrier |-> NoCarrier]

\* One deviation of an intake, and any two of them one after the other.
Deviate(in, d) ==
  CASE d = 1 -> [in EXCEPT !.version = "2.0.0"]
    [] d = 2 -> [in EXCEPT !.conforms = FALSE]
    [] d = 3 -> [in EXCEPT !.status = "insufficient_evidence"]
    [] d = 4 -> [in EXCEPT !.forbidden = TRUE]
    [] d = 5 -> [in EXCEPT !.legacyRef = TRUE]
    [] d = 6 -> [in EXCEPT !.approved = "n2"]
    [] d = 7 -> [in EXCEPT !.decisionRefs = {"v1", "v2"}]
    [] d = 8 -> [in EXCEPT !.nodes = @ \o <<Node("n2", {"v2"})>>]
    [] d = 9 -> [in EXCEPT !.register = @ \o <<Evidence("v2", "validated", "synthetic_fixture")>>]
    [] d = 10 -> [in EXCEPT !.trace = @ \o <<Row1("executed")>>]
    [] d = 11 -> [in EXCEPT !.trace = Tail(@)]
    [] d = 12 -> [in EXCEPT !.trace[6].rule = "A2C-01"]
    [] d = 13 -> [in EXCEPT !.trace[5] = Row("result", "source_bundle_id", Derived, "A2C-01", "sort_by_id")]
    [] d = 14 -> [in EXCEPT !.trace[Len(in.trace)].order = "preserve_source_order"]
    [] d = 15 -> [in EXCEPT !.trace = @ \o <<Row("other", "executed", Derived, "A2C-01", "sort_by_id")>>]
    [] d = 16 -> [in EXCEPT !.refBundle = "b2"]
    [] d = 17 -> [in EXCEPT !.register = @ \o <<Evidence("v2", "observed", "project_default")>>]
    [] d = 18 -> [in EXCEPT !.commit = Absent]
    [] d = 19 -> [in EXCEPT !.hash = [B1 EXCEPT !.commit = Absent]]
Deviations == 1..19
Intakes == {I1} \cup {Deviate(I1, d) : d \in Deviations}
             \cup {Deviate(Deviate(I1, d), e) : d \in Deviations, e \in Deviations}

---------------------------------------------------------------------------
(* Carriers.                                                               *)

Claim(id, deps, criticality, applies, verified) ==
  [id |-> id, deps |-> deps, criticality |-> criticality, applies |-> applies, verified |-> verified]
Effect(id, class, state, deps, auth, scope) ==
  [id |-> id, class |-> class, state |-> state, deps |-> deps, auth |-> auth, scope |-> scope]
Auth(id, basis, status, through, ids, classes, scope) ==
  [id |-> id, basis |-> basis, status |-> status, from |-> "ARCHITECT", through |-> through,
   ids |-> ids, classes |-> classes, scope |-> scope]
Summary(projection, substate, current, derived) ==
  [projection |-> projection, substate |-> substate, current |-> current, derived |-> derived]
CarrierOf(claims, effects, auths, summary) ==
  [stage |-> "ARCHITECT", claims |-> claims, effects |-> effects, auths |-> auths, summary |-> summary]

CE == "CONSTRUCTABILITY_ENGINEER"
Draft == "provisional handoff"
X1 == Claim("x1", {}, "CRITICAL", "APPLICABLE", "VERIFIED")
E1 == Effect("e1", "DRAFT_ONLY", "CONTINUE", {"x1"}, "a1", Draft)
A1 == Auth("a1", "PROFILE_PREAUTHORIZED", "ACTIVE", CE, {}, {"DRAFT_ONLY"}, Draft)
C1 == CarrierOf(<<X1>>, <<E1>>, <<A1>>, Summary("GREEN", "null", "e1", {"x1"}))

Claims(id, deps) ==
  {Claim(id, deps, criticality, applies, verified) :
     criticality \in {"CRITICAL", "MATERIAL", "INFORMATIONAL"},
     applies \in {"APPLICABLE", "NOT_APPLICABLE", "UNDETERMINED"},
     verified \in {"VERIFIED", "UNVERIFIED", "CONTRADICTED"}}

\* Everything two claims may say, every state of the effect and every projection.
Projected ==
  {CarrierOf(claims, <<Effect("e1", "DRAFT_ONLY", state, deps, IF state = "CONTINUE" THEN "a1" ELSE "null", Draft)>>,
             <<A1>>, Summary(shown[1], shown[2], "e1", {"x1"})) :
     claims \in {<<x>> : x \in Claims("x1", {})} \cup {<<x, y>> : x \in Claims("x1", {}), y \in Claims("x2", {"x1"})},
     deps \in {{"x1"}, {"x1", "x2"}}, state \in {"CONTINUE", "AUTHORIZATION_REQUIRED", "BLOCKED"},
     shown \in {<<"GREEN", "null">>, <<"RED", "null">>, <<"YELLOW", "CONTINUATION_AVAILABLE">>,
                <<"YELLOW", "OWNER_CHOICE_REQUIRED">>, <<"YELLOW", "null">>}}

\* Everything an effect may cite and one authorization may say.
Authorizing ==
  {[C1 EXCEPT !.effects[1] = Effect("e1", class, "CONTINUE", {"x1"}, ref, scope),
              !.auths[1] = Auth("a1", basis, status, through, ids, classes, allowed)] :
     class \in {"DRAFT_ONLY", "REASONING_ONLY", "EXTERNAL_MUTATION"}, ref \in {"a1", "a2", "null"},
     scope \in {Draft, "current decision"}, allowed \in {Draft, "current decision"},
     basis \in {"EXPLICIT_OWNER", "PROFILE_PREAUTHORIZED", "SAFE_REVERSIBLE_DEFAULT"},
     status \in {"ACTIVE", "REVOKED"}, through \in {CE, "BUILDER"},
     ids \in {{}, {"e1"}}, classes \in {{}, {"DRAFT_ONLY"}, {"EXTERNAL_MUTATION"}}}

Shaped ==
  {[C1 EXCEPT !.stage = CE], [C1 EXCEPT !.effects = <<>>], [C1 EXCEPT !.claims = <<X1, X1>>],
   [C1 EXCEPT !.claims[1].id = "e1"], [C1 EXCEPT !.claims[1].deps = {"x9"}],
   [C1 EXCEPT !.claims[1].deps = {"x1"}], [C1 EXCEPT !.effects[1].deps = {"x1", "x9"}],
   [C1 EXCEPT !.summary.current = "e9"], [C1 EXCEPT !.summary.derived = {"x9"}],
   [C1 EXCEPT !.auths = <<[A1 EXCEPT !.status = "REVOKED"], A1>>],
   [C1 EXCEPT !.auths = <<A1, [A1 EXCEPT !.id = "a2", !.status = "REVOKED"]>>],
   [C1 EXCEPT !.effects = <<E1, [E1 EXCEPT !.id = "e2", !.auth = "a2"]>>],
   [C1 EXCEPT !.effects = <<E1, [E1 EXCEPT !.id = "e2", !.state = "BLOCKED", !.auth = "null"]>>],
   [C1 EXCEPT !.effects = <<E1, [E1 EXCEPT !.id = "e1", !.state = "BLOCKED", !.auth = "null"]>>]}

Widened == Append(CanonicalProfile, [class |-> "EXTERNAL_MUTATION", scope |-> Draft])
MCMirrors ==
  {Canonical, [Canonical EXCEPT !.profile = Widened], [Canonical EXCEPT !.lock = Widened, !.profile = Widened],
   [Canonical EXCEPT !.schemas = "edited"]}

---------------------------------------------------------------------------
(* Files and requests.                                                     *)

File(schema) ==
  [readable |-> TRUE, schema |-> schema, receipt |-> "no", bundle |-> {}, stageKeys |-> FALSE, intake |-> {}]
IntakeFile(in) == [File("canonical") EXCEPT !.intake = {in}]
BundleFile(b) == [File("absent") EXCEPT !.bundle = {b}]
ReceiptFile(id) == [File("absent") EXCEPT !.receipt = id, !.stageKeys = TRUE]
WithCarrier(c) == [I1 EXCEPT !.carrier = c]

Insufficient == Deviate(I1, 3)
NoCommit == Deviate(I1, 18)
Second == Deviate(I1, 17)

Attachable ==
  {Missing, IntakeFile(I1), IntakeFile(Second), IntakeFile(Insufficient), IntakeFile(Deviate(I1, 6)),
   IntakeFile(Deviate(I1, 1)), File("legacy"), File("wrong"), File("absent"), File("unhashable"),
   Undecodable, ReceiptFile("plain"), ReceiptFile("unhashable"), [File("absent") EXCEPT !.stageKeys = TRUE],
   BundleFile(B1), BundleFile([B1 EXCEPT !.id = "b2"])}

Request(mode, maintenance, attachments, files) ==
  [mode |-> mode, maintenance |-> maintenance, attachments |-> attachments, disk |-> files,
   edits |-> {}, mirror |-> Canonical, drifts |-> {}]
Alone(o) == [f \in MCFiles |-> IF f = f1 THEN o ELSE Missing]
Pair(o, p) == [f \in MCFiles |-> CASE f = f1 -> o [] f = f2 -> p [] OTHER -> Missing]

\* Any three files; the same file named twice; maintenance, wished or set.
Attaching == {Request("auto", FALSE, <<f1, f2, f3>>, d) : d \in [MCFiles -> Attachable]}
Wishing == {Request("auto", TRUE, <<f1, f2>>, Pair(o, p)) : o \in Attachable, p \in Attachable}
Naming == {Request("auto", FALSE, <<f1, f2, f1>>, Pair(o, p)) : o \in Attachable, p \in Attachable}
Starting == {Request("repository_maintenance", FALSE, <<f1>>, Alone(IntakeFile(I1))),
             Request("active_ce_run", FALSE, <<>>, Alone(Missing))}

\* Every intake, beside the bundle it names; every bundle beside the intakes that pass.
Binding1 ==
  {Request("auto", FALSE, <<f1, f2>>, Pair(IntakeFile(in), BundleFile(B1))) : in \in Intakes}
  \cup {Request("auto", FALSE, <<f1, f2>>, Pair(IntakeFile(in), BundleFile(b))) :
          in \in {I1, NoCommit, [I1 EXCEPT !.hash = [B1 EXCEPT !.stage = "builder"]]}
                   \cup {[I1 EXCEPT !.hash = b] : b \in OddBundles}, b \in OddBundles}

\* Files that change while they are read, in either order of the attachments.
Edit1(f, o) == [file |-> f, content |-> o]
MCEdits == {Edit1(f1, IntakeFile(Second)), Edit1(f1, Missing), Edit1(f2, BundleFile([B1 EXCEPT !.id = "b2"])),
            Edit1(f2, BundleFile(B1)), Edit1(f1, IntakeFile(I1))}
Changing ==
  {[Request("auto", FALSE, order, Pair(o, p)) EXCEPT !.edits = MCEdits] :
     order \in {<<f1, f2>>, <<f2, f1>>, <<f1, f2, f2>>}, o \in {IntakeFile(I1), IntakeFile(Second), Missing},
     p \in {BundleFile(B1), BundleFile([B1 EXCEPT !.id = "b2"]), Missing}}

\* Carriers against the local copies as they are, or as they become between the two looks.
Carrying(carriers, mirrors) ==
  {[Request("auto", FALSE, <<f1>>, Alone(IntakeFile(WithCarrier(c)))) EXCEPT !.mirror = m] :
     c \in carriers, m \in mirrors}
Drifting ==
  {[Request("auto", FALSE, <<f1, f2>>, Pair(IntakeFile(WithCarrier(c)), IntakeFile(Insufficient)))
      EXCEPT !.mirror = m, !.drifts = MCMirrors] : c \in Shaped \cup {C1}, m \in MCMirrors}
Deviating == {Request("auto", FALSE, <<f1>>, Alone(IntakeFile(Deviate(WithCarrier(C1), d)))) : d \in Deviations}

MCScenarios ==
  {Attaching, Wishing, Naming, Starting, Binding1, Changing, Carrying(Authorizing, MCMirrors),
   Carrying(Shaped, MCMirrors), Carrying(Projected, {Canonical}), Drifting, Deviating}

\* A valid intake beside any other file.
Unrelated ==
  {{Request("auto", FALSE, <<f1, f2>>, Pair(o, p)) :
      o \in {IntakeFile(I1), File("absent"), File("unhashable"), ReceiptFile("unhashable"), Undecodable},
      p \in Attachable}}
==============================================================================
