--------------------------- MODULE GovernanceGate ---------------------------
(***************************************************************************)
(* The governance command: it validates the profile, the scope state and   *)
(* the required artifacts of the working tree, records the context of a CI *)
(* run or derives gate evidence from one recorded earlier, has a review    *)
(* bundle confirmed by PR Inspector, and emits three evidence files.       *)
(*                                                                         *)
(* One invocation follows another.  While one runs the tree is edited or   *)
(* checked out anew, the pull request gets a new head, files of the review *)
(* bundle are replaced, a write fails or the process is killed.  There is  *)
(* one repository and one pull request.                                    *)
(***************************************************************************)
EXTENDS Naturals, FiniteSets, Sequences, Functions

CONSTANTS Commits, NotSha,  \* heads a caller names; NotSha is no full commit SHA
          Runs, NoRun,      \* the CI run and job of an invocation, if any
          None, Torn,       \* no file (or nothing usable), a file written in part
          Tree,             \* the working tree a checkout of each commit gives
          Drafts,           \* the working trees an edit may leave
          Reviews,          \* the reviews whose files may be put into the bundle directory
          Inspectors,       \* the commits of PR Inspector
          Scenarios,        \* initial trees with the requests and budgets of each
          MaxTurns,         \* bound on the invocations
          MaxChanges        \* bound on the changes of the world

Trees == Range(Tree) \cup Drafts \cup {s.tree : s \in Scenarios}
Readable == {t \in Trees : t.state # None}   \* those with a scope state
Revisions == {t.state.rev : t \in Readable}

\* A tree has the three files and the artifacts, and a scope state lists its artifacts; reviews
\* are of commits; a command line names a head and a run or none.
ASSUME WorldAssumption ==
  /\ DOMAIN Tree = Commits /\ MaxTurns \in Nat /\ MaxChanges \in Nat
  /\ \A t \in Trees : DOMAIN t = {"profile", "state", "schema", "files"}
  /\ \A t \in Readable : t.state.required \in Seq(STRING)
  /\ \A r \in Reviews : r.head \in Commits
  /\ \A s \in Scenarios :
       /\ s.turn \in 0..MaxTurns /\ s.changes \in 0..MaxChanges
       /\ \A r \in s.reviews : r.head \in Commits
       /\ \A q \in s.requests : q.head # None /\ q.run \in Runs \cup {NoRun}

Carriers == {"profile", "state", "schema", "code", "tests"}
GreenPredicates == {"ci", "scope", "progress", "review", "no_blocking"}
Controls == [minimum |-> {"no_secrets", "exact_identity"},
             excluded |-> {"pen_test"}, triggers |-> {"customer_data"}]
Buckets == {"committed_now", "implemented", "deferred", "rejected", "superseded"}

\* The list of the scope projection a disposition of the memory belongs to.
BucketOf == [committed_now |-> "committed_now", implemented |-> "implemented",
             deferred |-> "deferred", remembered |-> "deferred",
             rejected |-> "rejected", superseded |-> "superseded",
             implemented_elsewhere |-> "implemented", not_applicable |-> "rejected"]

BundleFiles == <<"package", "projection", "manifest", "report">>
EvidenceFiles == <<"disclosure", "receipt", "gate">>
GREEN == "GREEN_MERGE_RECOMMENDED"

VARIABLES tree, head,      \* the working tree, and what git says is HEAD
          prHead,          \* the live head of the pull request
          bundle,          \* per file of the bundle directory the review it is of
          inspector,       \* HEAD of the checkout of PR Inspector
          context,         \* the CI context file
          emitted,         \* the evidence files
          offered, request, turn, changes,
          pc, index,       \* where the invocation is, and the list item it is at
          loaded, records, \* what it read of the tree
          checkout,        \* what git told it
          verified,        \* whether it accepted the CI context
          read, capability,\* what it read of the bundle, and the completed review
          result,
          recorded         \* the runs whose context was recorded, with head and scope (history)

world == <<tree, head, prHead, bundle, inspector, changes>>
files == <<context, emitted>>
command == <<offered, request, turn>>
validation == <<loaded, records>>
evidence == <<checkout, verified>>
review == <<read, capability>>
vars == <<world, files, command, pc, index, validation, evidence, review, result, recorded>>

---------------------------------------------------------------------------
(* Validation of the profile and of the scope state.                       *)

\* Mutant: the list is compared as a set.
IdentityDiagnosticsAsSet(list, expected) ==
  {d \in {"missing", "unexpected"} : Range(list) # expected}

\* The list holds every identity once and nothing else.
IdentityDiagnostics(list, expected) ==
  {d \in {"duplicate", "missing", "unexpected", "length"} :
     \/ d = "duplicate" /\ Cardinality(Range(list)) # Len(list)
     \/ d = "missing" /\ ~(expected \subseteq Range(list))
     \/ d = "unexpected" /\ ~(Range(list) \subseteq expected)
     \/ d = "length" /\ Len(list) # Cardinality(expected)}

\* "wrong" are the single fields of the profile that do not hold what they must.
ProfileDiagnostics(p) ==
  p.wrong \cup UNION {IdentityDiagnostics(p.controls[k], Controls[k]) : k \in DOMAIN Controls}

MemoryIds(s) == {s.memory[i].id : i \in DOMAIN s.memory}

\* Mutant: a capability listed in two places is not noticed.
ScopeDiagnosticsLoose(s) ==
  LET known == UNION {s.bucket[b] : b \in Buckets} IN
  {d \in {"deleted", "unknown", "coverage"} :
     \/ d = "deleted" /\ ~(s.target \subseteq known)
     \/ d = "unknown" /\ ~(known \subseteq s.target)
     \/ d = "coverage" /\ (MemoryIds(s) # s.target \/ Cardinality(MemoryIds(s)) # Len(s.memory))}

ScopeDiagnostics(s) ==
  LET known == UNION {s.bucket[b] : b \in Buckets} IN
  {d \in {"incompatible", "deleted", "unknown", "disposition", "drift", "duplicate", "coverage"} :
     \/ d = "incompatible" /\ \E b, c \in Buckets : b # c /\ s.bucket[b] \cap s.bucket[c] # {}
     \/ d = "deleted" /\ ~(s.target \subseteq known)
     \/ d = "unknown" /\ ~(known \subseteq s.target)
     \/ d = "disposition" /\ \E i \in DOMAIN s.memory : s.memory[i].disposition \notin DOMAIN BucketOf
     \/ d = "drift" /\ \E i \in DOMAIN s.memory :
                         /\ s.memory[i].disposition \in DOMAIN BucketOf
                         /\ s.memory[i].id \notin s.bucket[BucketOf[s.memory[i].disposition]]
     \/ d = "duplicate" /\ Cardinality(MemoryIds(s)) # Len(s.memory)
     \/ d = "coverage" /\ MemoryIds(s) # s.target}

StateDiagnostics(s) ==
  ScopeDiagnostics(s.scope)
  \cup {d \in {"carriers", "predicates", "approval_field"} :
          \/ d = "carriers" /\ ~(Carriers \subseteq Range(s.required))
          \/ d = "predicates" /\ s.green # GreenPredicates
          \/ d = "approval_field" /\ s.forbidden}

Present(r) == r.digest \notin {"missing", "empty", "escapes"}

---------------------------------------------------------------------------
(* The review bundle: the manifest pins the bytes of the other files, each *)
(* of which is of some review.                                             *)

BundleDiagnostics(f, rev, r) ==
  LET p == f["package"]
      j == f["projection"].projected
  IN {d \in {"package_hash", "projection_hash", "report_hash", "identity", "validity", "inspector",
             "session", "self_issued", "protocol", "projection", "coverage", "count", "status"} :
        \/ d = "package_hash" /\ f["manifest"] # p
        \/ d = "projection_hash" /\ f["manifest"] # f["projection"]
        \/ d = "report_hash" /\ f["manifest"] # f["report"]
        \/ d = "identity" /\ <<p.head, p.rev>> # <<r.head, rev>>
        \/ d = "validity" /\ ~p.current
        \/ d = "inspector" /\ p.inspector = None
        \/ d = "session" /\ p.session = None
        \/ d = "self_issued" /\ r.session # None /\ p.session = r.session
        \/ d = "protocol" /\ ~p.supported
        \/ d = "projection" /\ <<j.head, j.rev>> # <<r.head, rev>>
        \/ d = "coverage" /\ ~p.complete
        \/ d = "count" /\ p.declared # p.blocking
        \/ d = "status" /\ j.status # p.status}

\* Mutant: the completion is not compared with what was inspected.
PinnedNothing(f) == [k \in {} |-> f[k]]

\* What the capability is bound to besides the identity: the three pinned files.
Pinned(f) == [k \in {"package", "projection", "manifest"} |-> f[k]]

---------------------------------------------------------------------------
(* Steps of one invocation.                                                *)

Go(step) == pc' = step /\ UNCHANGED result
Finish(exit, status) ==
  /\ pc' = "idle"
  /\ result' = [turn |-> turn, exit |-> exit, status |-> status]
Fail == Finish("1", "FAIL-CLOSED")

\* A new process with one of the command lines: nothing is left of the previous one but its files.
Start ==
  /\ pc = "idle" /\ turn < MaxTurns
  /\ \E r \in offered : request' = r
  /\ turn' = turn + 1 /\ pc' = "profile_load" /\ index' = 1
  /\ loaded' = [profile |-> None, state |-> None, schema |-> None]
  /\ records' = {} /\ checkout' = None /\ verified' = FALSE
  /\ read' = [k \in Range(BundleFiles) |-> None] /\ capability' = None
  /\ result' = [turn |-> turn + 1, exit |-> "running", status |-> "none"]
  /\ UNCHANGED <<world, files, offered, recorded>>

\* A file that cannot be read or parsed leaves None, and the other two are still read.
LoadProfile ==
  /\ pc = "profile_load" /\ Go("state_load")
  /\ loaded' = [loaded EXCEPT !.profile = tree.profile]
  /\ UNCHANGED <<world, files, command, index, records, evidence, review, recorded>>

LoadState ==
  /\ pc = "state_load" /\ Go("schema_load")
  /\ loaded' = [loaded EXCEPT !.state = tree.state]
  /\ UNCHANGED <<world, files, command, index, records, evidence, review, recorded>>

\* A state the schema rejects is not looked into any further.
LoadSchema ==
  /\ pc = "schema_load"
  /\ loaded' = [loaded EXCEPT !.schema = tree.schema]
  /\ IF \/ loaded.profile = None \/ loaded.state = None \/ tree.schema = None
        \/ loaded.state # None /\ ~loaded.state.conforms
     THEN Fail ELSE Go("artifacts")
  /\ UNCHANGED <<world, files, command, index, records, evidence, review, recorded>>

ReadArtifact ==
  /\ pc = "artifacts" /\ index <= Len(loaded.state.required)
  /\ LET path == loaded.state.required[index] IN
       records' = records \cup {[path |-> path, digest |-> tree.files[path]]}
  /\ index' = index + 1
  /\ UNCHANGED <<world, files, command, pc, loaded, evidence, review, result, recorded>>

\* Mutant: the artifact records are not looked at.
ValidWithoutArtifacts ==
  ProfileDiagnostics(loaded.profile) = {} /\ StateDiagnostics(loaded.state) = {}

Valid ==
  /\ ProfileDiagnostics(loaded.profile) = {} /\ StateDiagnostics(loaded.state) = {}
  /\ \A r \in records : Present(r)

\* Mutant: the position in the list of artifacts is carried into the next list.
ValidateKeepsIndex ==
  /\ pc = "artifacts" /\ index > Len(loaded.state.required)
  /\ IF Valid THEN Go("git_head") ELSE Fail
  /\ UNCHANGED <<world, files, command, index, validation, evidence, review, recorded>>

\* The verifier-created state, or every diagnostic and exit 1.
Validate ==
  /\ pc = "artifacts" /\ index > Len(loaded.state.required)
  /\ IF Valid THEN Go("git_head") ELSE Fail
  /\ index' = 1
  /\ UNCHANGED <<world, files, command, validation, evidence, review, recorded>>

\* git rev-parse HEAD; None when git fails.
GitHead ==
  /\ pc = "git_head"
  /\ IF request.mode = "gate" /\ request.head = NotSha
     THEN Fail /\ UNCHANGED checkout
     ELSE /\ checkout' \in {head, None}
          /\ Go(IF request.mode = "record" THEN "record" ELSE "derive")
  /\ UNCHANGED <<world, files, command, index, validation, verified, review, recorded>>

Context ==
  [run |-> request.run, head |-> request.head, rev |-> loaded.state.rev,
   commands |-> loaded.state.validation]

RecordContext ==
  /\ pc = "record"
  /\ IF request.run # NoRun /\ checkout = request.head
     THEN \/ /\ context' = Context /\ Finish("0", "CI_EXECUTION_CONTEXT_RECORDED")
             /\ recorded' = recorded \cup {[run |-> request.run, head |-> checkout,
                                            rev |-> loaded.state.rev]}
          \/ context' \in {context, Torn} /\ Fail /\ UNCHANGED recorded
     ELSE Fail /\ UNCHANGED <<context, recorded>>
  /\ UNCHANGED <<world, emitted, command, index, validation, evidence, review>>

\* Mutant: the run and job of the context are not compared.
ContextMatchesAnyRun ==
  context \notin {None, Torn} /\ [context EXCEPT !.run = request.run] = Context

\* A file that cannot be read or parsed matches nothing.
ContextMatches == context \notin {None, Torn} /\ context = Context

ContextAccepted ==
  request.context /\ ContextMatches /\ request.run # NoRun /\ checkout = request.head

\* A context that is missing, torn or of something else is only a diagnostic.
DeriveGateEvidence ==
  /\ pc = "derive"
  /\ verified' = ContextAccepted
  /\ Go(IF request.review THEN "inspect" ELSE "emit")
  /\ UNCHANGED <<world, files, command, index, validation, checkout, review, recorded>>

\* The bundle is read file by file, and inspected when all are read.
ReadBundleFile ==
  /\ pc = "inspect" /\ index <= Len(BundleFiles)
  /\ LET f == BundleFiles[index] IN
       /\ read' = [read EXCEPT ![f] = bundle[f]]
       /\ IF bundle[f] = None THEN Fail ELSE UNCHANGED <<pc, result>>
  /\ index' = index + 1
  /\ UNCHANGED <<world, files, command, validation, evidence, capability, recorded>>

InspectBundle ==
  /\ pc = "inspect" /\ index > Len(BundleFiles)
  /\ IF BundleDiagnostics(read, loaded.state.rev, request) = {} THEN Go("provenance") ELSE Fail
  /\ index' = 1
  /\ UNCHANGED <<world, files, command, validation, evidence, review, recorded>>

\* HEAD, origin and the fetched commit of the checkout of PR Inspector; git may fail.
CheckProvenance ==
  /\ pc = "provenance"
  /\ \/ inspector = read["package"].inspector /\ Go("complete")
     \/ Fail
  /\ UNCHANGED <<world, files, command, index, validation, evidence, review, recorded>>

\* PR Inspector reads the directory again and asks GitHub for the live head.
OfficialCompletion ==
  /\ \A f \in DOMAIN bundle : bundle[f] # None
  /\ bundle["manifest"] = bundle["package"] /\ bundle["manifest"] = bundle["projection"]
  /\ prHead = bundle["package"].head

CompleteReview ==
  /\ pc = "complete"
  /\ \/ /\ OfficialCompletion /\ Pinned(bundle) = Pinned(read)
        /\ bundle["package"].head = request.head
        /\ capability' = [head |-> request.head, rev |-> loaded.state.rev,
                          status |-> read["package"].status, blocking |-> read["package"].blocking]
        /\ Go("emit")
     \/ Fail /\ UNCHANGED capability
  /\ UNCHANGED <<world, files, command, index, validation, evidence, read, recorded>>

---------------------------------------------------------------------------
(* The merge gate and the emission.                                        *)

\* The job that runs cannot confirm its own success.
ExactHeadCiPassed == FALSE

MergeStatus ==
  IF capability = None THEN "IMPLEMENTED_PENDING_REREVIEW"
  ELSE IF /\ <<capability.head, capability.rev>> = <<request.head, loaded.state.rev>>
          /\ capability.status = GREEN /\ capability.blocking = 0
          /\ \A r \in records : Present(r)
          /\ ExactHeadCiPassed
  THEN GREEN ELSE "YELLOW_REPAIR_OR_VERIFICATION_REQUIRED"

ExitCode == IF request.review /\ MergeStatus # GREEN THEN "1" ELSE "0"

Content(f) ==
  CASE f = "disclosure" ->
         [turn |-> turn, head |-> request.head, rev |-> loaded.state.rev, scope |-> loaded.state.scope]
    [] f = "receipt" ->
         [turn |-> turn, head |-> request.head, rev |-> loaded.state.rev, match |-> verified,
          records |-> records, blocking |-> IF capability = None THEN None ELSE capability.blocking]
    [] f = "gate" ->
         [turn |-> turn, head |-> request.head, rev |-> loaded.state.rev, match |-> verified,
          records |-> records]

\* Mutant: a failing write is passed over.
EmissionSkipped == UNCHANGED <<pc, result>>

EmissionFailed == Fail

\* The three files are written one after the other, none of them atomically.
Emit ==
  /\ pc = "emit" /\ index <= Len(EvidenceFiles)
  /\ LET f == EvidenceFiles[index] IN
       \/ emitted' = [emitted EXCEPT ![f] = Content(f)] /\ UNCHANGED <<pc, result>>
       \/ /\ \E x \in {emitted[f], Torn} : emitted' = [emitted EXCEPT ![f] = x]
          /\ EmissionFailed
  /\ index' = index + 1
  /\ UNCHANGED <<world, context, command, validation, evidence, review, recorded>>

\* What is printed and the exit code; a review that is not green exits 1.
Report ==
  /\ pc = "emit" /\ index > Len(EvidenceFiles)
  /\ Finish(ExitCode, MergeStatus)
  /\ UNCHANGED <<world, files, command, index, validation, evidence, review, recorded>>

Step ==
  \/ LoadProfile \/ LoadState \/ LoadSchema \/ ReadArtifact \/ Validate \/ GitHead
  \/ RecordContext \/ DeriveGateEvidence \/ ReadBundleFile \/ InspectBundle
  \/ CheckProvenance \/ CompleteReview \/ Emit \/ Report

\* A kill, in the middle of a write included.
Kill ==
  /\ pc # "idle" /\ Finish("killed", "none")
  /\ \/ UNCHANGED files
     \/ pc = "record" /\ context' = Torn /\ UNCHANGED emitted
     \/ /\ pc = "emit" /\ index <= Len(EvidenceFiles)
        /\ emitted' = [emitted EXCEPT ![EvidenceFiles[index]] = Torn] /\ UNCHANGED context
  /\ UNCHANGED <<world, command, index, validation, evidence, review, recorded>>

---------------------------------------------------------------------------
(* The world around it.                                                    *)

EditTree == tree' \in Drafts /\ UNCHANGED <<head, prHead, bundle, inspector>>

Checkout ==
  /\ head' \in Commits /\ tree' = Tree[head']
  /\ UNCHANGED <<prHead, bundle, inspector>>

Push == prHead' \in Commits /\ UNCHANGED <<tree, head, bundle, inspector>>

ReplaceBundle ==
  /\ \/ \E f \in DOMAIN bundle, r \in Reviews \cup {None} : bundle' = [bundle EXCEPT ![f] = r]
     \/ \E r \in Reviews : bundle' = [f \in DOMAIN bundle |-> r]
  /\ UNCHANGED <<tree, head, prHead, inspector>>

UpdateInspector == inspector' \in Inspectors /\ UNCHANGED <<tree, head, prHead, bundle>>

Change ==
  /\ changes < MaxChanges /\ changes' = changes + 1
  /\ EditTree \/ Checkout \/ Push \/ ReplaceBundle \/ UpdateInspector
  /\ UNCHANGED <<files, command, pc, index, validation, evidence, review, result, recorded>>

Init ==
  /\ \E s \in Scenarios :
       /\ tree = s.tree /\ offered = s.requests /\ turn = s.turn /\ changes = s.changes
       /\ bundle \in {[k \in Range(BundleFiles) |-> r] : r \in s.reviews}
  /\ head \in Commits /\ prHead = head /\ inspector \in Inspectors
  /\ request = None /\ context = None
  /\ emitted = [f \in Range(EvidenceFiles) |-> None]
  /\ pc = "idle" /\ index = 1
  /\ loaded = [profile |-> None, state |-> None, schema |-> None] /\ records = {}
  /\ checkout = None /\ verified = FALSE
  /\ read = [k \in Range(BundleFiles) |-> None] /\ capability = None
  /\ result = [turn |-> turn, exit |-> "none", status |-> "none"] /\ recorded = {}

Next == Start \/ Step \/ Kill \/ Change

Spec == Init /\ [][Next]_vars

---------------------------------------------------------------------------
(* Properties.                                                             *)

\* Every variable keeps its type, between the steps of an invocation too.
TypeOK ==
  /\ DOMAIN tree = {"profile", "state", "schema", "files"} /\ DOMAIN loaded = DOMAIN tree \ {"files"}
  /\ head \in Commits /\ prHead \in Commits /\ inspector \in Inspectors
  /\ \A d \in {bundle, read} : /\ DOMAIN d = Range(BundleFiles)
                               /\ \A f \in DOMAIN d : d[f] = None \/ d[f].head \in Commits
  /\ turn \in 0..MaxTurns /\ changes \in 0..MaxChanges
  /\ pc \in {"idle", "profile_load", "state_load", "schema_load", "artifacts", "git_head", "record",
             "derive", "inspect", "provenance", "complete", "emit"}
  /\ index \in Nat \ {0} /\ (pc \in {"inspect", "emit"} => index <= Len(BundleFiles) + 1)
  /\ checkout \in Commits \cup {None} /\ verified \in BOOLEAN
  /\ recorded \subseteq [run : Runs, head : Commits, rev : Revisions]
  /\ result.exit \in {"none", "running", "0", "1", "killed"}

\* What the scope rules are for, said without them: the target's capabilities each have one
\* place, and the memory is a list of exactly them, each with a disposition of that place.
ScopeIsAccounted(s) ==
  \E place \in [s.target -> Buckets] :
    /\ \A b \in Buckets : s.bucket[b] = {c \in s.target : place[c] = b}
    /\ Len(s.memory) = Cardinality(s.target)
    /\ \A c \in s.target :
         \E i \in DOMAIN s.memory : s.memory[i].id = c /\ BucketOf[s.memory[i].disposition] = place[c]

\* A disclosure never loses, invents or places twice a capability of its target, whatever the scope
\* state says and whatever changes while it is read (validate_scope_semantics, emit_evidence).
DisclosedScopeIsAccounted ==
  emitted["disclosure"] \notin {None, Torn} => ScopeIsAccounted(emitted["disclosure"].scope)

\* An invocation that emits or records read a profile whose identity lists are permutations of the
\* required ones (validate_profile is the only check between the file and the evidence).
ControlsAreExact ==
  pc \in {"record", "derive", "inspect", "provenance", "complete", "emit"} =>
    \A k \in DOMAIN Controls :
      LET list == loaded.profile.controls[k] IN
        /\ Len(list) = Cardinality(Controls[k])
        /\ \A c \in Controls[k] : \E i \in DOMAIN list : list[i] = c

\* A receipt that says the head matched is of a head that git confirmed twice: when the context was
\* recorded, for the same scope revision, and when it was accepted; and the run and job that accept
\* a context are the ones that recorded it (record_ci_context, derive_gate_evidence).
MatchIsOfThisRun ==
  /\ verified => [run |-> request.run, head |-> checkout, rev |-> loaded.state.rev] \in recorded
  /\ emitted["receipt"] \notin {None, Torn} /\ emitted["receipt"].match =>
       \E x \in recorded : x.head = emitted["receipt"].head /\ x.rev = emitted["receipt"].rev

\* A capability is of one review: all files in the directory are the inspected ones at that
\* moment, the live head is the reviewed head, and the implementer's session did not issue it.
CapabilityIsOfTheDirectory ==
  [][capability' \notin {None, capability} =>
       /\ \A f \in {"package", "projection", "manifest"} : bundle[f] = read["package"]
       /\ prHead = capability'.head /\ bundle["package"].session # request.session]_vars

\* Nothing is emitted by an invocation whose artifacts are incomplete or whose review was refused
\* (docs/AI_GOVERNANCE.md: missing or empty carriers fail closed before evidence emission).
EmissionIsEarned ==
  [][emitted' # emitted =>
       /\ \A c \in Carriers : \E r \in records : r.path = c /\ Present(r)
       /\ request.review => capability # None]_vars

\* The three files are of one invocation, unless the last one that wrote says it failed.
MixedEmissionIsReported ==
  result.exit = "0" /\ request # None /\ request.mode = "gate" =>
    \A f \in DOMAIN emitted : emitted[f] \notin {None, Torn} /\ emitted[f].turn = turn

\* What docs/AI_GOVERNANCE.md says of the disclosure: it is computed from the validated sets and
\* bound to the exact tested head, so its sets are those of the head it names.
DisclosureIsOfTheNamedHead ==
  emitted["disclosure"] \notin {None, Torn} =>
    emitted["disclosure"].scope = Tree[emitted["disclosure"].head].state.scope
==============================================================================
