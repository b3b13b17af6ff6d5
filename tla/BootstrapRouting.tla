--------------------------- MODULE BootstrapRouting ---------------------------
(***************************************************************************)
(* The router of a CE conversation: it reads the attached files once, in   *)
(* order, classifies each by its content, and decides which of them, if    *)
(* any, starts the first stage.  Before it does so it reads the selected   *)
(* files again and compares the bytes.  Meanwhile the files, and the       *)
(* copies the validator judges carriers against, may change.               *)
(***************************************************************************)
EXTENDS ArchitectIntake, FiniteSets

CONSTANTS Files,      \* the files that may be attached
          Mirrors,    \* the states of the local copies
          Scenarios   \* sets of requests, each with the files as they start and the changes to come

\* A file that cannot be read as one JSON object, and one on which the decoder itself raises:
\* an integer of more digits than Python converts, or nesting deeper than its stack.
Missing == [readable |-> FALSE]
Undecodable == [readable |-> FALSE, raises |-> TRUE]

Modes == {"auto", "user_facing_new_ce_run", "active_ce_run", "repository_maintenance"}
Buckets == {"valid", "insufficient", "invalid", "unreadable", "receipt_like", "legacy", "wrong",
            "source_bundle", "irrelevant"}
\* Mutant: receipts are left out of the report.
ExtrasWithoutReceipts == Buckets \ {"valid", "source_bundle", "receipt_like"}

\* What is reported beside the decision; a bundle is only when none was selected.
Extras == Buckets \ {"valid", "source_bundle"}

VARIABLES request,       \* the mode, the explicit maintenance wish, the attached files
          past,          \* what the files held, up to now (history)
          edits, drifts, \* the changes still to come
          mirror,        \* the local copies
          pc,            \* where the router is
          captures,      \* per file classified so far the bytes read and the bucket
          held,          \* the bytes of the intake whose carrier is inspected
          answer

world == <<past, edits, drifts, mirror>>
vars == <<world, request, pc, captures, held, answer>>

disk == past[Len(past)]
Ended == {"done", "crashed"}
NoAnswer == [route |-> "none", authorized |-> FALSE, input |-> 0, bundle |-> 0, warnings |-> {}]

---------------------------------------------------------------------------
(* What a file is.                                                         *)

AttachmentKind(o) ==
  IF o.schema \in {"canonical", "legacy"} THEN o.schema
  ELSE IF o.receipt # "no" THEN "receipt_like"
  ELSE IF o.bundle # {} THEN "source_bundle"
  ELSE IF o.schema = "wrong" \/ o.stageKeys THEN "wrong" ELSE "irrelevant"

\* What ends the router without an answer: a load that fails in a way nothing catches, and an
\* array or an object looked up in a set where a schema or a transition has its identifier.
Breaks(o) ==
  \/ o = Undecodable
  \/ /\ o.readable
     /\ \/ o.schema = "unhashable"
        \/ AttachmentKind(o) = "receipt_like" /\ o.receipt = "unhashable"

\* Mutant: the verdict is taken for the name of the bucket.
BucketIsVerdict(verdict) == verdict

BucketOf(verdict) ==
  IF verdict = "insufficient_evidence" THEN "insufficient" ELSE verdict

Intake(o) == CHOOSE in \in o.intake : TRUE
Bundle(o) == CHOOSE b \in o.bundle : TRUE

\* What an attachment is: an intake is what the schema identifier says it is, and the entries
\* of its carrier are numbered.
WellFormed(o) ==
  o.readable =>
    /\ o.intake # {} <=> o.schema = "canonical"
    /\ o.schema = "canonical" => Intake(o).version # "1.0.0"
    /\ o.schema = "canonical" /\ Intake(o).carrier # NoCarrier =>
         LET c == Intake(o).carrier IN
         \A list \in {c.claims, c.effects, c.auths} : DOMAIN list \subseteq Nat

ASSUME ScenarioAssumption ==
  \A family \in Scenarios : \A s \in family :
    /\ s.mode \in Modes /\ s.maintenance \in BOOLEAN /\ s.attachments \in Seq(Files)
    /\ s.disk \in [Files -> {s.disk[f] : f \in Files}] /\ \A f \in Files : WellFormed(s.disk[f])
    /\ \A e \in s.edits : e.file \in Files /\ WellFormed(e.content)
    /\ s.mirror \in Mirrors /\ s.drifts \subseteq Mirrors

In(bucket) == {i \in DOMAIN captures : captures[i].bucket = bucket}
Only(positions) == CHOOSE i \in positions : TRUE
First(positions) == CHOOSE i \in positions : \A j \in positions : i <= j
Selected == Only(In("valid"))
Beside == Only(In("source_bundle"))
Unchanged(i) == disk[request.attachments[i]] = captures[i].content

---------------------------------------------------------------------------
(* Decisions.                                                              *)

Warned == UNION {In(b) : b \in Extras}

Answer(route, input, bundle, warnings) ==
  /\ answer' = [route |-> route, authorized |-> route # "repository_maintenance",
                input |-> input, bundle |-> bundle, warnings |-> warnings]
  /\ pc' = "done"
  /\ UNCHANGED <<world, request, captures, held>>

Go(step) == pc' = step /\ UNCHANGED <<world, request, captures, held, answer>>

---------------------------------------------------------------------------
(* Steps of the router.                                                    *)

Start ==
  /\ pc = "start"
  /\ IF request.mode = "repository_maintenance" THEN Answer("repository_maintenance", 0, 0, {})
     ELSE Go("read")

\* The file the router is at gets its bucket, and the router goes on with the next one.
Put(content, bucket) ==
  /\ captures' = Append(captures, [content |-> content, bucket |-> bucket])
  /\ pc' = "read"
  /\ UNCHANGED <<world, request, held, answer>>

\* A file is read once; an intake with a carrier is held until the carrier was inspected.
Read ==
  LET o == disk[request.attachments[Len(captures) + 1]] IN
  /\ pc = "read" /\ Len(captures) < Len(request.attachments)
  /\ \/ Breaks(o) /\ Go("crashed")
     \/ ~o.readable /\ ~Breaks(o) /\ Put(o, "unreadable")
     \/ /\ o.readable /\ ~Breaks(o) /\ AttachmentKind(o) # "canonical"
        /\ Put(o, AttachmentKind(o))
     \/ /\ o.readable /\ AttachmentKind(o) = "canonical" /\ ~Inspected(Intake(o))
        /\ Put(o, BucketOf(PlainVerdict(Intake(o))))
     \/ /\ o.readable /\ AttachmentKind(o) = "canonical" /\ Inspected(Intake(o))
        /\ held' = o /\ pc' = "look"
        /\ UNCHANGED <<world, request, captures, answer>>

\* The carrier against the schemas and the rules across its records.
Look ==
  /\ pc = "look"
  /\ IF FirstLook(Intake(held).carrier, mirror) THEN Go("profile") ELSE Put(held, "invalid")

\* The carrier against the profile of the stage it comes from.
LookAtProfile ==
  LET in == Intake(held) IN
  /\ pc = "profile"
  /\ Put(held, BucketOf(Verdict(in, SemanticErrors(in) # {} \/ ~SecondLook(in.carrier, mirror))))

\* Several valid intakes are ambiguous whatever was wished; without one the worst found decides.
Fallback ==
  IF In("insufficient") # {}
    THEN Answer("evidence_required", First(In("insufficient")), 0, Warned)
  ELSE IF In("invalid") \cup In("unreadable") # {} THEN Answer("blocked_invalid_input", 0, 0, {})
  ELSE IF In("legacy") # {} THEN Answer("blocked_require_canonical_v1_1", 0, 0, {})
  ELSE IF In("wrong") # {} THEN Answer("blocked_require_official_ce_input", 0, 0, {})
  ELSE Answer("waiting_for_ce_input", 0, 0, Warned)

Route ==
  /\ pc = "read" /\ Len(captures) = Len(request.attachments)
  /\ \/ /\ Cardinality(In("valid")) > 1
        /\ Answer("blocked_ambiguous_input", 0, 0, Warned)
     \/ /\ Cardinality(In("valid")) <= 1 /\ request.maintenance
        /\ Answer("repository_maintenance", 0, 0, {})
     \/ /\ Cardinality(In("valid")) = 1 /\ ~request.maintenance
        /\ Go(IF Cardinality(In("source_bundle")) = 1 THEN "recheck_intake" ELSE "recheck")
     \/ /\ In("valid") = {} /\ ~request.maintenance
        /\ Fallback

Conflict == Answer("blocked_source_binding_invalid", 0, 0, Warned)

\* Mutant: the router waits for the bytes it read to come back.
RecheckIntakeWaits ==
  /\ pc = "recheck_intake"
  /\ Go(IF Unchanged(Selected) THEN "recheck_bundle" ELSE "recheck_intake")

\* Beside exactly one bundle the bytes of both are read again before the binding counts.
RecheckIntake ==
  /\ pc = "recheck_intake"
  /\ IF Unchanged(Selected) THEN Go("recheck_bundle") ELSE Conflict

\* Mutant: the bundle is not read again.
BundleNotReread ==
  LET binding == Binding(Intake(captures[Selected].content), Bundle(captures[Beside].content)) IN
  /\ pc = "recheck_bundle"
  /\ IF binding = "conflict" THEN Conflict
     ELSE IF binding = "evidence_required" THEN Answer("evidence_required", Selected, Beside, Warned)
     ELSE Go("recheck")

RecheckBundle ==
  LET binding == Binding(Intake(captures[Selected].content), Bundle(captures[Beside].content)) IN
  /\ pc = "recheck_bundle"
  /\ IF ~Unchanged(Beside) \/ binding = "conflict" THEN Conflict
     ELSE IF binding = "evidence_required" THEN Answer("evidence_required", Selected, Beside, Warned)
     ELSE Go("recheck")

\* The intake is read again before it starts the first stage; of several bundles none is used.
Recheck ==
  LET bound == Cardinality(In("source_bundle")) = 1
      warnings == Warned \cup IF bound THEN {} ELSE In("source_bundle") IN
  /\ pc = "recheck"
  /\ IF Unchanged(Selected)
     THEN Answer("architect_intake_validation", Selected, IF bound THEN Beside ELSE 0, warnings)
     ELSE Answer("blocked_invalid_input", 0, 0, warnings)

Router ==
  Start \/ Read \/ Look \/ LookAtProfile \/ Route \/ RecheckIntake \/ RecheckBundle \/ Recheck

---------------------------------------------------------------------------
(* The surroundings: a file gets bytes it never had, and the local copies  *)
(* change.  They are followed until the router has ended.                  *)

Fresh(e) == \A k \in DOMAIN past : past[k][e.file] # e.content

Edit ==
  /\ pc \notin Ended
  /\ \E e \in edits :
       /\ Fresh(e)
       /\ past' = Append(past, [disk EXCEPT ![e.file] = e.content])
       /\ edits' = edits \ {e}
  /\ UNCHANGED <<drifts, mirror, request, pc, captures, held, answer>>

Drift ==
  /\ pc \notin Ended
  /\ \E m \in drifts : mirror' = m /\ drifts' = drifts \ {m}
  /\ UNCHANGED <<past, edits, request, pc, captures, held, answer>>

Init ==
  /\ \E family \in Scenarios : \E s \in family :
       /\ request = [mode |-> s.mode, maintenance |-> s.maintenance, attachments |-> s.attachments]
       /\ past = <<s.disk>> /\ edits = s.edits
       /\ mirror = s.mirror /\ drifts = s.drifts
  /\ pc = "start" /\ captures = <<>> /\ held = Missing /\ answer = NoAnswer

Next == Router \/ Edit \/ Drift

Spec == Init /\ [][Next]_vars
FairSpec == Spec /\ WF_vars(Router)

---------------------------------------------------------------------------
(* What the router promises.                                               *)

Positions == DOMAIN request.attachments
Held(f) == {past[k][f] : k \in DOMAIN past}

\* The state of the router; every capture is of bytes its file held at some instant.
TypeOK ==
  /\ request \in [mode : Modes, maintenance : BOOLEAN, attachments : Seq(Files)]
  /\ Len(past) > 0 /\ \A k \in DOMAIN past : DOMAIN past[k] = Files
  /\ \A e \in edits : e.file \in Files
  /\ drifts \subseteq Mirrors /\ mirror \in Mirrors
  /\ pc \in {"start", "read", "look", "profile", "recheck_intake", "recheck_bundle", "recheck"} \cup Ended
  /\ Len(captures) <= Len(request.attachments)
  /\ \A i \in DOMAIN captures :
       captures[i].content \in Held(request.attachments[i]) /\ captures[i].bucket \in Buckets
  /\ pc \in {"look", "profile"} =>
       Len(captures) < Len(request.attachments) /\ held \in Held(request.attachments[Len(captures) + 1])
  /\ answer.input \in 0..Len(captures) /\ answer.bundle \in 0..Len(captures)
  /\ answer.warnings \subseteq DOMAIN captures

FirstStage == answer.route = "architect_intake_validation"

\* An intake that starts the first stage bound to a bundle was on disk together with it at
\* some instant, and the bundle is the one the transition of the intake was derived from
\* (the second reads before the binding counts).
RoutedInputsCoexisted ==
  FirstStage /\ answer.bundle # 0 =>
    LET i == answer.input b == answer.bundle IN
    /\ \E k \in DOMAIN past : /\ past[k][request.attachments[i]] = captures[i].content
                              /\ past[k][request.attachments[b]] = captures[b].content
    /\ Intake(captures[i].content).hash = Bundle(captures[b].content)

\* What an intake must keep of its sources, whatever the validator calls it.
Grounded(in) ==
  LET known == Ids(in.register) IN
  /\ in.decisionRefs \cup UNION {in.nodes[i].refs : i \in DOMAIN in.nodes} \subseteq known
  /\ in.approved \in Ids(in.nodes)
  /\ in.bundle = in.refBundle
  /\ \A target \in DOMAIN TransitionTrace :
       \E i \in DOMAIN in.trace :
         /\ in.trace[i].class = TransitionTrace[target].class
         /\ in.trace[i].rule = TransitionTrace[target].rule
         /\ \A j \in DOMAIN in.trace : in.trace[j].target = target <=> i = j

Plain(o) == o.readable /\ o.intake # {} /\ Intake(o).carrier = NoCarrier
AcceptedPlain(o) == Plain(o) /\ PlainVerdict(Intake(o)) = "valid"

\* The first stage starts on one complete and grounded intake that is still on disk as it was
\* read, beside no other valid one without a carrier, and never when maintenance was asked for.
FirstStageIsEarned ==
  FirstStage =>
    LET o == captures[answer.input].content IN
    /\ request.mode # "repository_maintenance" /\ ~request.maintenance
    /\ Intake(o).status # "insufficient_evidence" /\ Grounded(Intake(o))
    /\ disk[request.attachments[answer.input]] = o
    /\ \A i \in DOMAIN captures \ {answer.input} : ~AcceptedPlain(captures[i].content)

\* Nothing changes, one attachment is a valid intake, and no bundle or a genuine one is beside it.
Attached(i) == disk[request.attachments[i]]
BundlesAt == {i \in Positions : Attached(i).readable /\ AttachmentKind(Attached(i)) = "source_bundle"}
OneValid(i) ==
  /\ Len(past) = 1
  /\ request.mode # "repository_maintenance" /\ ~request.maintenance
  /\ {j \in Positions : AcceptedPlain(Attached(j))} = {i}
  /\ \A j \in Positions \ {i} : Attached(j).readable /\ Attached(j).intake # {} => Plain(Attached(j))
  /\ \A b \in BundlesAt : BundlesAt = {b} =>
       Binding(Intake(Attached(i)), Bundle(Attached(b))) = "verified"

FirstStageOn(i) ==
  /\ FirstStage /\ answer.input = i
  /\ answer.warnings = Positions \ ({i} \cup IF Cardinality(BundlesAt) = 1 THEN BundlesAt ELSE {})

\* However the request ends, the only valid intake starts the first stage and every other file
\* is reported as a warning, the bundle that was used excepted; only an attached file that
\* breaks the router is in the way (the lookups and the load that raise what nothing catches).
OnlyABreakBlocks ==
  pc \in Ended =>
    \A i \in Positions : OneValid(i) =>
      \/ FirstStageOn(i)
      \/ pc = "crashed" /\ \E j \in Positions : Breaks(Attached(j))

\* What the project's instructions promise: no extra file at all is in the way.
ValidInputIsRouted == pc \in Ended => \A i \in Positions : OneValid(i) => FirstStageOn(i)

---------------------------------------------------------------------------
(* Carriers of the intakes that were not turned down.                      *)

Accepted == {captures[i].content : i \in In("valid") \cup In("insufficient")}
AcceptedCarriers == {Intake(o).carrier : o \in Accepted} \ {NoCarrier}

\* An effect may go on by one authorization only: an active one for this stage that covers
\* the effect within its scope, and one that cites the profile says what the canonical
\* profile says, not what the local copy of it had become.
AuthorizedBy(c, e, a) ==
  /\ {b \in DOMAIN c.auths : c.auths[b].id = e.auth} = {a}
  /\ LET auth == c.auths[a] IN
     /\ auth.status = "ACTIVE" /\ auth.scope = e.scope
     /\ <<auth.from, auth.through>> = <<Consumed.from, Consumed.through>>
     /\ e.id \in auth.ids \/ e.class \in auth.classes
     /\ auth.basis = "SAFE_REVERSIBLE_DEFAULT" => e.class \notin BeyondDefault
     /\ auth.basis = "PROFILE_PREAUTHORIZED" =>
          \E i \in DOMAIN CanonicalProfile : CanonicalProfile[i] = [class |-> e.class, scope |-> e.scope]

ContinuationIsAuthorized ==
  \A c \in AcceptedCarriers : \A k \in DOMAIN c.effects :
    c.effects[k].state = "CONTINUE" => \E a \in DOMAIN c.auths : AuthorizedBy(c, c.effects[k], a)

\* What the owner is shown: GREEN hides no unverified critical claim, RED is what is blocked,
\* YELLOW names the choice or the open claim there is, and the effect that is current is BLOCKED
\* when it names a refuted critical claim.  Other effects of the carrier are not looked at here.
HonestSummary(c, e) ==
  LET known == {c.claims[i] : i \in {j \in DOMAIN c.claims : c.claims[j].id \in e.deps}}
      critical == {x \in known : x.criticality = "CRITICAL" /\ x.applies = "APPLICABLE"} IN
  /\ c.summary.projection = "RED" <=> e.state = "BLOCKED"
  /\ c.summary.projection = "GREEN" =>
       /\ \A x \in critical : x.verified = "VERIFIED"
       /\ \A x \in known : x.verified # "CONTRADICTED"
  /\ c.summary.projection = "YELLOW" =>
       IF e.state = "AUTHORIZATION_REQUIRED" THEN c.summary.substate = "OWNER_CHOICE_REQUIRED"
       ELSE /\ c.summary.substate = "CONTINUATION_AVAILABLE"
            /\ \E x \in known : x.applies = "APPLICABLE" /\ x.verified = "UNVERIFIED"
  /\ e.state # "BLOCKED" => \A x \in critical : x.verified # "CONTRADICTED"

ProjectionIsHonest ==
  \A c \in AcceptedCarriers :
    \E k \in DOMAIN c.effects : c.effects[k].id = c.summary.current /\ HonestSummary(c, c.effects[k])

\* Every request is answered or ends the router, though files and copies change.
EveryRequestEnds == <>(pc \in Ended)
==============================================================================
