-------------------------- MODULE GovernanceProofs --------------------------
(***************************************************************************)
(* Theorems about GovernanceGate, for any commits, runs, trees, reviews,   *)
(* scenarios and bounds.                                                   *)
(***************************************************************************)
EXTENDS GovernanceGate, TLAPS

---------------------------------------------------------------------------
(* What the checks of the scope state and of the identity lists give.      *)

\* A scope state without diagnostics accounts for every capability of its target: the lists are
\* disjoint and cover it, so each capability has a place, and the memory agrees with that place.
LEMMA CleanScope ==
  ASSUME NEW s, ScopeDiagnostics(s) = {}
  PROVE  ScopeIsAccounted(s)
<1> DEFINE known == UNION {s.bucket[b] : b \in Buckets}
<1>1. \A b, c \in Buckets : b # c => s.bucket[b] \cap s.bucket[c] = {}
  BY DEF ScopeDiagnostics
<1>2. known = s.target
  <2>1. s.target \subseteq known
    BY DEF ScopeDiagnostics
  <2>2. known \subseteq s.target
    BY DEF ScopeDiagnostics
  <2> QED BY <2>1, <2>2
<1>3. \A i \in DOMAIN s.memory :
        /\ s.memory[i].disposition \in DOMAIN BucketOf
        /\ s.memory[i].id \in s.bucket[BucketOf[s.memory[i].disposition]]
  BY DEF ScopeDiagnostics
<1>4. Cardinality(MemoryIds(s)) = Len(s.memory) /\ MemoryIds(s) = s.target
  BY DEF ScopeDiagnostics
<1> DEFINE place == [c \in s.target |-> CHOOSE b \in Buckets : c \in s.bucket[b]]
<1>5. \A c \in s.target : place[c] \in Buckets /\ c \in s.bucket[place[c]]
  <2> SUFFICES ASSUME NEW c \in s.target PROVE place[c] \in Buckets /\ c \in s.bucket[place[c]]
    OBVIOUS
  <2>1. \E b \in Buckets : c \in s.bucket[b]
    BY <1>2
  <2> QED BY <2>1
<1> HIDE DEF place
<1>6. \A c \in s.target : \A b \in Buckets : c \in s.bucket[b] => place[c] = b
  BY <1>1, <1>5
<1>7. place \in [s.target -> Buckets]
  BY <1>5 DEF place
<1>8. \A b \in Buckets : s.bucket[b] = {c \in s.target : place[c] = b}
  <2> SUFFICES ASSUME NEW b \in Buckets PROVE s.bucket[b] = {c \in s.target : place[c] = b}
    OBVIOUS
  <2>1. s.bucket[b] \subseteq s.target
    BY <1>2
  <2> QED BY <2>1, <1>5, <1>6
<1>9. ASSUME NEW c \in s.target
      PROVE  \E i \in DOMAIN s.memory : s.memory[i].id = c /\ BucketOf[s.memory[i].disposition] = place[c]
  <2>1. PICK i \in DOMAIN s.memory : s.memory[i].id = c
    BY <1>4 DEF MemoryIds
  <2>2. BucketOf[s.memory[i].disposition] \in Buckets
    BY <1>3 DEF BucketOf, Buckets
  <2> QED BY <2>1, <2>2, <1>3, <1>6
<1> QED BY <1>4, <1>7, <1>8, <1>9 DEF ScopeIsAccounted

\* A list without diagnostics has each expected identity, and no room for anything else.
LEMMA CleanList ==
  ASSUME NEW list, NEW expected, IdentityDiagnostics(list, expected) = {}
  PROVE  /\ Len(list) = Cardinality(expected)
         /\ \A c \in expected : \E i \in DOMAIN list : list[i] = c
<1>1. Len(list) = Cardinality(expected) /\ expected \subseteq Range(list)
  BY DEF IdentityDiagnostics
<1> QED BY <1>1 DEF Range

---------------------------------------------------------------------------
(* The inductive invariant.                                                *)

Validated == {"git_head", "record", "derive", "inspect", "provenance", "complete", "emit"}

\* From the end of the validation on, what was read is valid.
ValidInv == pc \in Validated => Valid

\* Whatever a context file says was recorded by the run it names.
ContextInv ==
  context \notin {None, Torn} =>
    [run |-> context.run, head |-> context.head, rev |-> context.rev] \in recorded

\* Only what follows the derivation sees a context accepted, and the head is the one recorded.
VerifiedInv ==
  verified =>
    /\ pc \in {"idle", "inspect", "provenance", "complete", "emit"}
    /\ checkout = request.head
    /\ [run |-> request.run, head |-> checkout, rev |-> loaded.state.rev] \in recorded

\* Past its inspection and until the completion, the bundle read is without diagnostics.
InspectInv ==
  pc \in {"provenance", "complete"} => BundleDiagnostics(read, loaded.state.rev, request) = {}

EmittedInv ==
  /\ DOMAIN emitted = Range(EvidenceFiles)
  /\ DisclosedScopeIsAccounted
  /\ emitted["receipt"] \notin {None, Torn} /\ emitted["receipt"].match =>
       \E x \in recorded : x.head = emitted["receipt"].head /\ x.rev = emitted["receipt"].rev

GovernanceInv == ValidInv /\ ContextInv /\ VerifiedInv /\ InspectInv /\ EmittedInv

LEMMA InitGovernance == Init => GovernanceInv
BY DEF Init, GovernanceInv, ValidInv, Validated, ContextInv, VerifiedInv, InspectInv, EmittedInv,
       DisclosedScopeIsAccounted, Range, EvidenceFiles

LEMMA NextGovernance == GovernanceInv /\ [Next]_vars => GovernanceInv'
<1> SUFFICES ASSUME GovernanceInv, [Next]_vars PROVE GovernanceInv'
  OBVIOUS
<1> USE DEF GovernanceInv, ValidInv, Validated, ContextInv, VerifiedInv, InspectInv, EmittedInv,
            DisclosedScopeIsAccounted, Valid, world, files, command, validation, evidence, review
<1>1. CASE Start
  BY <1>1 DEF Start
<1>2. CASE LoadProfile
  BY <1>2 DEF LoadProfile, Go
<1>3. CASE LoadState
  BY <1>3 DEF LoadState, Go
<1>4. CASE LoadSchema
  BY <1>4 DEF LoadSchema, Go, Fail, Finish
<1>5. CASE ReadArtifact
  BY <1>5 DEF ReadArtifact
<1>6. CASE Validate
  BY <1>6 DEF Validate, Go, Fail, Finish
<1>7. CASE GitHead
  BY <1>7 DEF GitHead, Go, Fail, Finish
<1>8. CASE RecordContext
  <2>1. CASE context' \in {context, Torn} /\ recorded' = recorded
    BY <1>8, <2>1 DEF RecordContext, Fail, Finish
  <2>2. CASE /\ context' = Context /\ checkout = request.head
             /\ recorded' = recorded \cup {[run |-> request.run, head |-> checkout, rev |-> loaded.state.rev]}
    BY <1>8, <2>2 DEF RecordContext, Context, Fail, Finish
  <2> QED BY <1>8, <2>1, <2>2 DEF RecordContext
<1>9. CASE DeriveGateEvidence
  <2>1. verified' => context \notin {None, Torn} /\ context = Context /\ checkout = request.head
    BY <1>9 DEF DeriveGateEvidence, ContextAccepted, ContextMatches
  <2>2. /\ pc = "derive" /\ pc' \in {"inspect", "emit"}
        /\ UNCHANGED <<world, files, command, validation, checkout, review, recorded>>
    BY <1>9 DEF DeriveGateEvidence, Go
  <2>3. verified' => /\ context.run = request.run
                     /\ context.head = request.head
                     /\ context.rev = loaded.state.rev
    BY <2>1 DEF Context
  <2>4. VerifiedInv'
    BY <2>1, <2>2, <2>3
  <2> QED BY <2>2, <2>4
<1>10. CASE ReadBundleFile
  BY <1>10 DEF ReadBundleFile, Fail, Finish
<1>11. CASE InspectBundle
  BY <1>11 DEF InspectBundle, Go, Fail, Finish
<1>12. CASE CheckProvenance
  BY <1>12 DEF CheckProvenance, Go, Fail, Finish
<1>13. CASE CompleteReview
  BY <1>13 DEF CompleteReview, Go, Fail, Finish
<1>14. CASE Emit
  <2>1. PICK f, x : emitted' = [emitted EXCEPT ![f] = x] /\ x \in {Content(f), emitted[f], Torn}
    BY <1>14 DEF Emit, Range, EvidenceFiles
  <2>2. /\ pc = "emit" /\ pc' \in {"emit", "idle"}
        /\ UNCHANGED <<world, context, command, validation, evidence, review, recorded>>
    BY <1>14 DEF Emit, EmissionFailed, Fail, Finish
  <2>3. ScopeIsAccounted(loaded.state.scope)
    <3>1. ScopeDiagnostics(loaded.state.scope) = {}
      BY <2>2 DEF StateDiagnostics
    <3> QED BY <3>1, CleanScope
  <2>4. DisclosedScopeIsAccounted'
    <3>1. CASE f = "disclosure" /\ x = Content(f)
      <4>1. "disclosure" \in DOMAIN emitted
        BY <2>2 DEF Range, EvidenceFiles
      <4>2. emitted'["disclosure"] = Content("disclosure")
        BY <2>1, <3>1, <4>1
      <4>3. Content("disclosure").scope = loaded.state.scope
        BY DEF Content
      <4> QED BY <2>3, <4>2, <4>3
    <3>2. CASE ~(f = "disclosure" /\ x = Content(f))
      BY <2>1, <3>2
    <3> QED BY <3>1, <3>2
  <2>5. emitted'["receipt"] \notin {None, Torn} /\ emitted'["receipt"].match =>
          \E y \in recorded : y.head = emitted'["receipt"].head /\ y.rev = emitted'["receipt"].rev
    <3>1. CASE f = "receipt" /\ x = Content(f)
      BY <2>1, <2>2, <3>1 DEF Content
    <3>2. CASE ~(f = "receipt" /\ x = Content(f))
      BY <2>1, <3>2
    <3> QED BY <3>1, <3>2
  <2> QED BY <2>1, <2>2, <2>4, <2>5
<1>15. CASE Report
  BY <1>15 DEF Report, Finish
<1>16. CASE Kill
  <2>1. /\ pc' = "idle" /\ context' \in {context, Torn}
        /\ UNCHANGED <<command, validation, evidence, review, recorded>>
    BY <1>16 DEF Kill, Finish
  <2>2. emitted' = emitted \/ \E f : emitted' = [emitted EXCEPT ![f] = Torn]
    BY <1>16 DEF Kill
  <2>3. CASE emitted' = emitted
    BY <2>1, <2>3
  <2>4. ASSUME NEW f, emitted' = [emitted EXCEPT ![f] = Torn] PROVE EmittedInv'
    <3>1. /\ DOMAIN emitted' = DOMAIN emitted
          /\ \A e \in DOMAIN emitted : emitted'[e] = emitted[e] \/ emitted'[e] = Torn
      BY <2>4
    <3>2. "receipt" \in DOMAIN emitted /\ "disclosure" \in DOMAIN emitted
      BY DEF Range, EvidenceFiles
    <3>3. DisclosedScopeIsAccounted'
      BY <3>1, <3>2
    <3> QED BY <2>1, <3>1, <3>2, <3>3
  <2> QED BY <2>1, <2>2, <2>3, <2>4
<1>17. CASE Change
  BY <1>17 DEF Change
<1>18. CASE UNCHANGED vars
  BY <1>18 DEF vars
<1> QED
  BY <1>1, <1>2, <1>3, <1>4, <1>5, <1>6, <1>7, <1>8, <1>9, <1>10, <1>11, <1>12, <1>13, <1>14,
     <1>15, <1>16, <1>17, <1>18 DEF Next, Step

LEMMA GovernanceInvariant == Spec => []GovernanceInv
<1> QED BY InitGovernance, NextGovernance, PTL DEF Spec

---------------------------------------------------------------------------
(* The order of the steps: what was read of the tree, where the invocation *)
(* is in its lists, and what it has written so far.                        *)

\* What is read of the tree is of one of the trees, and what is asked for is on offer.
OriginInv ==
  /\ tree \in Trees
  /\ loaded.state # None => \E t \in Readable : loaded.state = t.state
  /\ pc \in {"artifacts"} \cup Validated => loaded.state # None
  /\ \E s \in Scenarios : offered = s.requests
  /\ pc # "idle" => request \in offered

\* Every list is read from its beginning.
IndexInv ==
  pc \in {"profile_load", "state_load", "schema_load", "git_head", "record", "derive",
          "provenance", "complete"} => index = 1

Recorded(n) == \A i \in 1..n : \E r \in records : r.path = loaded.state.required[i]

\* The records are of the artifacts read so far, and past the validation of all of them.
RecordsInv ==
  /\ pc = "artifacts" => Recorded(index - 1) /\ index <= Len(loaded.state.required) + 1
  /\ pc \in Validated => Recorded(Len(loaded.state.required))

OrderInv == TypeOK /\ OriginInv /\ IndexInv /\ RecordsInv

LEMMA InitOrder == Init => OrderInv
<1> SUFFICES ASSUME Init PROVE OrderInv
  OBVIOUS
<1>1. PICK s \in Scenarios :
        /\ tree = s.tree /\ offered = s.requests /\ turn = s.turn /\ changes = s.changes
        /\ bundle \in {[k \in Range(BundleFiles) |-> r] : r \in s.reviews}
  BY DEF Init
<1>2. tree \in Trees /\ DOMAIN tree = {"profile", "state", "schema", "files"}
  BY <1>1, WorldAssumption DEF Trees
<1>3. \A d \in {bundle, read} : /\ DOMAIN d = Range(BundleFiles)
                               /\ \A f \in DOMAIN d : d[f] = None \/ d[f].head \in Commits
  BY <1>1, WorldAssumption DEF Init
<1>4. turn \in 0..MaxTurns /\ changes \in 0..MaxChanges
  BY <1>1, WorldAssumption
<1>5. TypeOK
  <2>1. DOMAIN loaded = DOMAIN tree \ {"files"}
    BY <1>2 DEF Init
  <2>2. /\ index \in Nat \ {0} /\ pc = "idle"
        /\ checkout \in Commits \cup {None} /\ recorded = {}
        /\ result.exit \in {"none", "running", "0", "1", "killed"}
    BY DEF Init
  <2>4. verified \in BOOLEAN
    BY DEF Init
  <2>3. head \in Commits /\ prHead \in Commits /\ inspector \in Inspectors
    BY DEF Init
  <2> HIDE DEF Init
  <2> QED BY <1>2, <1>3, <1>4, <2>1, <2>2, <2>3, <2>4 DEF TypeOK
<1>6. OriginInv /\ IndexInv /\ RecordsInv
  BY <1>1, <1>2 DEF Init, OriginInv, IndexInv, RecordsInv, Validated
<1> QED BY <1>5, <1>6 DEF OrderInv

\* The steps that read the tree keep the origin of what was read.
LEMMA TreesKept ==
  ASSUME tree \in Trees, Change
  PROVE  tree' \in Trees /\ DOMAIN tree' = {"profile", "state", "schema", "files"}
<1>1. tree' \in Trees
  <2>1. CASE tree' = tree
    BY <2>1
  <2>2. CASE tree' \in Drafts
    BY <2>2 DEF Trees
  <2>3. CASE \E c \in Commits : tree' = Tree[c]
    BY <2>3, WorldAssumption DEF Trees, Range
  <2> QED BY <2>1, <2>2, <2>3 DEF Change, EditTree, Checkout, Push, ReplaceBundle, UpdateInspector
<1> QED BY <1>1, WorldAssumption
\* A list of artifacts is a sequence.
LEMMA RequiredIsSequence ==
  ASSUME OriginInv, loaded.state # None
  PROVE  /\ loaded.state.required \in Seq(STRING)
         /\ Len(loaded.state.required) \in Nat
         /\ DOMAIN loaded.state.required = 1..Len(loaded.state.required)
<1>1. PICK t \in Readable : loaded.state = t.state
  BY DEF OriginInv
<1>2. loaded.state.required \in Seq(STRING)
  BY <1>1, WorldAssumption
<1> QED BY <1>2

LEMMA NextOrder == OrderInv /\ [Next]_vars => OrderInv'
<1> SUFFICES ASSUME OrderInv, [Next]_vars PROVE OrderInv'
  OBVIOUS
<1> USE DEF OrderInv, TypeOK, OriginInv, IndexInv, RecordsInv, Recorded, Validated,
            world, files, command, validation, evidence, review
<1>0. /\ DOMAIN loaded = {"profile", "state", "schema"} /\ index \in Nat \ {0}
      /\ DOMAIN tree = {"profile", "state", "schema", "files"}
  OBVIOUS
<1>1. CASE Start
  <2>1. PICK r \in offered : request' = r
    BY <1>1 DEF Start
  <2>2. OriginInv' /\ IndexInv' /\ RecordsInv'
    BY <1>1, <2>1 DEF Start
  <2>3. turn' \in 0..MaxTurns
    BY <1>1, WorldAssumption DEF Start
  <2>4. \A d \in {bundle', read'} :
          /\ DOMAIN d = Range(BundleFiles)
          /\ \A f \in DOMAIN d : d[f] = None \/ d[f].head \in Commits
    BY <1>1 DEF Start
  <2>5. verified' \in BOOLEAN
    BY <1>1 DEF Start
  <2>6. /\ UNCHANGED <<world, recorded>> /\ pc' = "profile_load" /\ index' = 1
        /\ checkout' = None /\ result'.exit = "running"
        /\ DOMAIN loaded' = {"profile", "state", "schema"}
    BY <1>1 DEF Start
  <2>7. TypeOK'
    BY <1>0, <2>3, <2>4, <2>5, <2>6
  <2> QED BY <2>2, <2>7
<1>2. CASE LoadProfile
  BY <1>0, <1>2 DEF LoadProfile, Go
<1>3. CASE LoadState
  BY <1>0, <1>3 DEF LoadState, Go, Readable
<1>4. CASE LoadSchema
  BY <1>0, <1>4, RequiredIsSequence DEF LoadSchema, Go, Fail, Finish
<1>5. CASE ReadArtifact
  <2>1. /\ pc = "artifacts" /\ index \in Nat \ {0} /\ index <= Len(loaded.state.required)
        /\ index' = index + 1 /\ Len(loaded.state.required) \in Nat
    BY <1>0, <1>5, RequiredIsSequence DEF ReadArtifact
  <2>2. /\ UNCHANGED <<world, files, command, pc, loaded, evidence, review, result, recorded>>
        /\ records \subseteq records'
        /\ \E r \in records' : r.path = loaded.state.required[index]
    <3> DEFINE path == loaded.state.required[index]
               new == [path |-> path, digest |-> tree.files[path]]
    <3>1. records' = records \cup {new} /\ new.path = path
      BY <1>5 DEF ReadArtifact
    <3> HIDE DEF new
    <3> QED BY <1>5, <3>1 DEF ReadArtifact
  <2>3. \A i \in 1..index : \E r \in records' : r.path = loaded.state.required[i]
    <3> SUFFICES ASSUME NEW i \in 1..index
                 PROVE  \E r \in records' : r.path = loaded.state.required[i]
      OBVIOUS
    <3>1. CASE i = index
      BY <2>2, <3>1
    <3>2. CASE i \in 1..(index - 1)
      BY <2>1, <2>2, <3>2
    <3> QED BY <2>1, <3>1, <3>2
  <2>4. RecordsInv'
    BY <2>1, <2>2, <2>3
  <2> QED BY <2>1, <2>2, <2>4
<1>6. CASE Validate
  <2>1. /\ pc = "artifacts" /\ index' = 1 /\ pc' \in {"git_head", "idle"}
        /\ result'.exit \in {"1", result.exit}
        /\ UNCHANGED <<world, files, command, validation, evidence, review, recorded>>
    BY <1>6 DEF Validate, Go, Fail, Finish
  <2>2. index - 1 = Len(loaded.state.required)
    BY <1>0, <1>6, RequiredIsSequence DEF Validate
  <2>3. RecordsInv'
    BY <2>1, <2>2
  <2> QED BY <1>0, <2>1, <2>3
<1>7. CASE GitHead
  BY <1>0, <1>7 DEF GitHead, Go, Fail, Finish
<1>8. CASE RecordContext
  <2>1. /\ pc = "record" /\ pc' = "idle" /\ result'.exit \in {"0", "1"}
        /\ UNCHANGED <<world, command, index, validation, evidence, review>>
    BY <1>8 DEF RecordContext, Fail, Finish
  <2>2. recorded' \subseteq [run : Runs, head : Commits, rev : Revisions]
    <3>1. CASE UNCHANGED recorded
      BY <3>1
    <3>2. CASE /\ request.run # NoRun /\ checkout = request.head
               /\ recorded' = recorded \cup {[run |-> request.run, head |-> checkout,
                                              rev |-> loaded.state.rev]}
      <4>1. request.head # None /\ request.run \in Runs \cup {NoRun}
        BY <2>1, WorldAssumption
      <4>2. loaded.state.rev \in Revisions
        BY <2>1 DEF Revisions
      <4> QED BY <3>2, <4>1, <4>2
    <3> QED BY <1>8, <3>1, <3>2 DEF RecordContext
  <2> QED BY <1>0, <2>1, <2>2
<1>9. CASE DeriveGateEvidence
  <2>1. /\ pc = "derive" /\ pc' \in {"inspect", "emit"}
        /\ UNCHANGED <<world, files, command, index, validation, checkout, review, result, recorded>>
    BY <1>9 DEF DeriveGateEvidence, Go
  <2>2. verified' \in BOOLEAN
    BY <1>9, Zenon DEF DeriveGateEvidence, ContextAccepted
  <2> QED BY <1>0, <2>1, <2>2
<1>10. CASE ReadBundleFile
  BY <1>0, <1>10 DEF ReadBundleFile, Fail, Finish
<1>11. CASE InspectBundle
  BY <1>0, <1>11 DEF InspectBundle, Go, Fail, Finish
<1>12. CASE CheckProvenance
  BY <1>0, <1>12 DEF CheckProvenance, Go, Fail, Finish
<1>13. CASE CompleteReview
  BY <1>0, <1>13 DEF CompleteReview, Go, Fail, Finish
<1>14. CASE Emit
  <2>1. /\ pc = "emit" /\ pc' \in {"emit", "idle"} /\ index' = index + 1
        /\ index <= 3 /\ result'.exit \in {"1", result.exit}
        /\ UNCHANGED <<world, command, validation, evidence, review, recorded>>
    BY <1>14 DEF Emit, EmissionFailed, Fail, Finish, EvidenceFiles
  <2> QED BY <1>0, <2>1 DEF BundleFiles
<1>15. CASE Report
  BY <1>0, <1>15 DEF Report, Finish, ExitCode
<1>16. CASE Kill
  BY <1>0, <1>16 DEF Kill, Finish
<1>17. CASE Change
  <2>1. /\ tree' \in Trees /\ DOMAIN tree' = {"profile", "state", "schema", "files"}
        /\ UNCHANGED <<files, command, pc, index, validation, evidence, review, result, recorded>>
        /\ changes' \in 0..MaxChanges
    BY <1>17, TreesKept, WorldAssumption DEF Change
  <2>2. head' \in Commits /\ prHead' \in Commits /\ inspector' \in Inspectors
    BY <1>17 DEF Change, EditTree, Checkout, Push, ReplaceBundle, UpdateInspector
  <2>3. /\ DOMAIN bundle' = Range(BundleFiles)
        /\ \A f \in DOMAIN bundle' : bundle'[f] = None \/ bundle'[f].head \in Commits
    <3>1. CASE ReplaceBundle
      BY <3>1, WorldAssumption DEF ReplaceBundle
    <3>2. CASE UNCHANGED bundle
      BY <3>2
    <3> QED BY <1>17, <3>1, <3>2 DEF Change, EditTree, Checkout, Push, UpdateInspector
  <2> QED BY <1>0, <2>1, <2>2, <2>3
<1>18. CASE UNCHANGED vars
  BY <1>18 DEF vars
<1> QED
  BY <1>1, <1>2, <1>3, <1>4, <1>5, <1>6, <1>7, <1>8, <1>9, <1>10, <1>11, <1>12, <1>13, <1>14,
     <1>15, <1>16, <1>17, <1>18 DEF Next, Step

LEMMA OrderInvariant == Spec => []OrderInv
<1> QED BY InitOrder, NextOrder, PTL DEF Spec

---------------------------------------------------------------------------
(* What has been written and what is reported of it.                       *)

Capability(h, v, s, b) == [head |-> h, rev |-> v, status |-> s, blocking |-> b]

\* A review that was asked for is completed before the emission.
ReviewInv ==
  pc = "emit" /\ request.review =>
    \E v, s, b : capability = Capability(request.head, v, s, b)

Written(f) == emitted[f] \notin {None, Torn} /\ emitted[f].turn = turn

\* The evidence files before the one that is next are written by this invocation; it ends with
\* exit code 0 only when it recorded a context or wrote them all.
WrittenInv ==
  /\ pc = "record" => request.mode = "record"
  /\ pc = "emit" => \A i \in 1..(index - 1) : Written(EvidenceFiles[i])
  /\ result.exit = "0" => pc = "idle"
  /\ MixedEmissionIsReported

\* None and Torn stand for what is not there or cannot be parsed: no capability and no evidence
\* file is one of them.
RecordsAreNotNone ==
  /\ \A h, v, s, b : Capability(h, v, s, b) # None
  /\ \A t, h, v, s :
       [turn |-> t, head |-> h, rev |-> v, scope |-> s] \notin {None, Torn}
  /\ \A t, h, v, m, r, b :
       [turn |-> t, head |-> h, rev |-> v, match |-> m, records |-> r, blocking |-> b]
         \notin {None, Torn}
  /\ \A t, h, v, m, r :
       [turn |-> t, head |-> h, rev |-> v, match |-> m, records |-> r] \notin {None, Torn}

LEMMA ContentIsOfTurn ==
  ASSUME RecordsAreNotNone, NEW f \in Range(EvidenceFiles)
  PROVE  Content(f) \notin {None, Torn} /\ Content(f).turn = turn
<1>1. f \in {"disclosure", "receipt", "gate"}
  BY DEF Range, EvidenceFiles
<1>2. CASE f = "disclosure"
  BY <1>2 DEF Content, RecordsAreNotNone
<1>3. CASE f = "receipt"
  BY <1>3 DEF Content, RecordsAreNotNone
<1>4. CASE f = "gate"
  BY <1>4 DEF Content, RecordsAreNotNone
<1> QED BY <1>1, <1>2, <1>3, <1>4

LEMMA NextReview == OrderInv /\ ReviewInv /\ [Next]_vars => ReviewInv'
<1> SUFFICES ASSUME OrderInv, ReviewInv, [Next]_vars, pc' = "emit", request'.review
             PROVE  \E v, s, b : capability' = Capability(request'.head, v, s, b)
  BY DEF ReviewInv
<1>1. CASE pc = "emit" /\ UNCHANGED <<request, capability>>
  BY <1>1 DEF ReviewInv
<1>2. CASE CompleteReview
  BY <1>2 DEF CompleteReview, Go, Fail, Finish, Capability, command
<1> QED
  BY <1>1, <1>2 DEF Next, Step, vars, world, files, command, validation, evidence, review, Start,
     LoadProfile, LoadState, LoadSchema, ReadArtifact, Validate, GitHead, RecordContext,
     DeriveGateEvidence, ReadBundleFile, InspectBundle, CheckProvenance, Emit, Report, Kill, Change,
     Go, Fail, Finish, EmissionFailed

LEMMA InitWritten == Init => WrittenInv
BY DEF Init, WrittenInv, MixedEmissionIsReported

LEMMA NextWritten ==
  ASSUME RecordsAreNotNone
  PROVE  GovernanceInv /\ OrderInv /\ WrittenInv /\ [Next]_vars => WrittenInv'
<1> SUFFICES ASSUME GovernanceInv, OrderInv, WrittenInv, [Next]_vars PROVE WrittenInv'
  OBVIOUS
<1>0. /\ index \in Nat \ {0} /\ DOMAIN emitted = Range(EvidenceFiles)
      /\ pc \in {"profile_load", "state_load", "schema_load", "git_head", "record", "derive",
                 "provenance", "complete"} => index = 1
  BY DEF GovernanceInv, EmittedInv, OrderInv, TypeOK, IndexInv
<1> USE DEF WrittenInv, MixedEmissionIsReported, Written, files, command,
            validation, evidence, review
<1>1. CASE Start
  BY <1>1 DEF Start
<1>2. CASE LoadProfile \/ LoadState \/ LoadSchema \/ ReadArtifact \/ Validate
  BY <1>2 DEF LoadProfile, LoadState, LoadSchema, ReadArtifact, Validate, Go, Fail, Finish
<1>3. CASE GitHead
  BY <1>3 DEF GitHead, Go, Fail, Finish
<1>4. CASE RecordContext
  BY <1>4 DEF RecordContext, Fail, Finish
<1>5. CASE DeriveGateEvidence
  BY <1>0, <1>5 DEF DeriveGateEvidence, Go
<1>6. CASE ReadBundleFile \/ InspectBundle \/ CheckProvenance
  BY <1>6 DEF ReadBundleFile, InspectBundle, CheckProvenance, Go, Fail, Finish
<1>7. CASE CompleteReview
  BY <1>0, <1>7 DEF CompleteReview, Go, Fail, Finish
<1>8. CASE Emit
  <2>1. /\ pc = "emit" /\ index \in 1..3 /\ index' = index + 1
        /\ EvidenceFiles[index] \in Range(EvidenceFiles)
        /\ UNCHANGED <<world, context, command, validation, evidence, review, recorded>>
    BY <1>0, <1>8 DEF Emit, EvidenceFiles, Range
  <2>2. CASE Fail
    BY <1>8, <2>1, <2>2 DEF Fail, Finish
  <2>3. CASE /\ emitted' = [emitted EXCEPT ![EvidenceFiles[index]] = Content(EvidenceFiles[index])]
             /\ UNCHANGED <<pc, result>>
    <3>1. Content(EvidenceFiles[index]) \notin {None, Torn}
          /\ Content(EvidenceFiles[index]).turn = turn
      BY <2>1, ContentIsOfTurn
    <3>2. \A i \in 1..index : Written(EvidenceFiles[i])'
      <4> SUFFICES ASSUME NEW i \in 1..index PROVE Written(EvidenceFiles[i])'
        OBVIOUS
      <4>1. EvidenceFiles[i] \in DOMAIN emitted
        BY <1>0, <2>1 DEF EvidenceFiles, Range
      <4>2. CASE EvidenceFiles[i] = EvidenceFiles[index]
        BY <2>1, <2>3, <3>1, <4>1, <4>2
      <4>3. CASE EvidenceFiles[i] # EvidenceFiles[index]
        <5>1. i \in 1..(index - 1)
          BY <2>1, <4>3
        <5> QED BY <2>1, <2>3, <4>1, <4>3, <5>1
      <4> QED BY <4>2, <4>3
    <3> QED BY <2>1, <2>3, <3>2
  <2> QED BY <1>8, <2>2, <2>3 DEF Emit, EmissionFailed
<1>9. CASE Report
  <2>1. \A i \in 1..3 : Written(EvidenceFiles[i])
    BY <1>0, <1>9 DEF Report, EvidenceFiles
  <2>2. \A f \in DOMAIN emitted : Written(f)
    BY <1>0, <2>1 DEF EvidenceFiles, Range
  <2> QED BY <1>9, <2>2 DEF Report, Finish
<1>10. CASE Kill
  BY <1>10 DEF Kill, Finish
<1>11. CASE Change
  BY <1>11 DEF Change
<1>12. CASE UNCHANGED vars
  BY <1>12 DEF vars
<1> QED
  BY <1>1, <1>2, <1>3, <1>4, <1>5, <1>6, <1>7, <1>8, <1>9, <1>10, <1>11, <1>12 DEF Next, Step

---------------------------------------------------------------------------
(* The theorems.                                                           *)

\* A disclosure on disk never loses, invents or places twice a capability of its target, for every
\* scope state and every change of the tree while it is read.
THEOREM ScopeAccounted == Spec => []DisclosedScopeIsAccounted
<1>1. GovernanceInv => DisclosedScopeIsAccounted
  BY DEF GovernanceInv, EmittedInv
<1> QED BY <1>1, GovernanceInvariant, PTL

\* Every invocation that gets as far as evidence has read the required identities, all of them and
\* nothing else.
THEOREM ControlsExact == Spec => []ControlsAreExact
<1>1. GovernanceInv => ControlsAreExact
  <2> SUFFICES ASSUME GovernanceInv,
                      pc \in {"record", "derive", "inspect", "provenance", "complete", "emit"},
                      NEW k \in DOMAIN Controls
               PROVE  LET list == loaded.profile.controls[k] IN
                        /\ Len(list) = Cardinality(Controls[k])
                        /\ \A c \in Controls[k] : \E i \in DOMAIN list : list[i] = c
    BY DEF ControlsAreExact
  <2>1. ProfileDiagnostics(loaded.profile) = {}
    BY DEF GovernanceInv, ValidInv, Validated, Valid
  <2>2. IdentityDiagnostics(loaded.profile.controls[k], Controls[k]) = {}
    BY <2>1 DEF ProfileDiagnostics
  <2> QED BY <2>2, CleanList
<1> QED BY <1>1, GovernanceInvariant, PTL

\* A receipt claims a matching head only when the head was confirmed at the recording of the
\* context, and a context is accepted only by the run that recorded it.
THEOREM MatchOfThisRun == Spec => []MatchIsOfThisRun
<1>1. GovernanceInv => MatchIsOfThisRun
  BY DEF GovernanceInv, VerifiedInv, EmittedInv, MatchIsOfThisRun
<1> QED BY <1>1, GovernanceInvariant, PTL

\* A capability is handed out only while the directory holds the inspected review and the live head
\* is the reviewed one, and never to the implementer's own session.
THEOREM CapabilityOfTheDirectory == Spec => CapabilityIsOfTheDirectory
<1> DEFINE Bound == capability' \notin {None, capability} =>
              /\ \A f \in {"package", "projection", "manifest"} : bundle[f] = read["package"]
              /\ prHead = capability'.head /\ bundle["package"].session # request.session
<1>1. GovernanceInv /\ [Next]_vars => Bound
  <2> SUFFICES ASSUME GovernanceInv, [Next]_vars, capability' \notin {None, capability} PROVE Bound
    OBVIOUS
  <2>1. CompleteReview
    BY DEF Next, Step, vars, world, files, command, validation, evidence, review, Start, LoadProfile,
           LoadState, LoadSchema, ReadArtifact, Validate, GitHead, RecordContext, DeriveGateEvidence,
           ReadBundleFile, InspectBundle, CheckProvenance, Emit, Report, Kill, Change
  <2>2. /\ pc = "complete" /\ OfficialCompletion /\ Pinned(bundle) = Pinned(read)
        /\ bundle["package"].head = request.head /\ capability'.head = request.head
    BY <2>1 DEF CompleteReview
  <2>3. bundle["package"] = read["package"]
    BY <2>2 DEF Pinned
  <2>4. read["package"].session # request.session
    BY <2>2 DEF GovernanceInv, InspectInv, BundleDiagnostics
  <2> QED BY <2>2, <2>3, <2>4 DEF OfficialCompletion
<1>2. GovernanceInv /\ [Next]_vars => [Bound]_vars
  BY <1>1
<1> QED BY <1>2, GovernanceInvariant, PTL DEF Spec, CapabilityIsOfTheDirectory

\* Every variable keeps its type, for any trees, reviews and command lines.
THEOREM GovernanceTyped == Spec => []TypeOK
<1>1. OrderInv => TypeOK
  BY DEF OrderInv
<1> QED BY <1>1, OrderInvariant, PTL

\* After exit code 0 of the gate the three evidence files are whole and of the same invocation,
\* whatever failed or was killed before.
THEOREM MixedReported == RecordsAreNotNone => (Spec => []MixedEmissionIsReported)
<1> SUFFICES ASSUME RecordsAreNotNone PROVE Spec => []MixedEmissionIsReported
  OBVIOUS
<1>1. WrittenInv => MixedEmissionIsReported
  BY DEF WrittenInv
<1> QED
  BY <1>1, InitWritten, NextWritten, GovernanceInvariant, OrderInvariant, PTL DEF Spec

\* Evidence is written only when every carrier was read and found, and after the review that was
\* asked for, for any trees and any changes of them between the reads.
THEOREM EmissionEarned == RecordsAreNotNone => (Spec => EmissionIsEarned)
<1> SUFFICES ASSUME RecordsAreNotNone PROVE Spec => EmissionIsEarned
  OBVIOUS
<1> DEFINE Earned == emitted' # emitted =>
              /\ \A c \in Carriers : \E r \in records : r.path = c /\ Present(r)
              /\ request.review => capability # None
<1>1. GovernanceInv /\ OrderInv /\ ReviewInv /\ [Next]_vars => Earned
  <2> SUFFICES ASSUME GovernanceInv, OrderInv, ReviewInv, [Next]_vars, emitted' # emitted
               PROVE  Earned
    OBVIOUS
  <2>1. pc = "emit"
    BY DEF Next, Step, vars, world, files, command, validation, evidence, review, Start, LoadProfile,
           LoadState, LoadSchema, ReadArtifact, Validate, GitHead, RecordContext, DeriveGateEvidence,
           ReadBundleFile, InspectBundle, CheckProvenance, CompleteReview, Emit, Report, Kill, Change
  <2>2. Valid /\ Recorded(Len(loaded.state.required)) /\ loaded.state # None
    BY <2>1 DEF GovernanceInv, ValidInv, OrderInv, OriginInv, RecordsInv, Validated
  <2>3. Carriers \subseteq Range(loaded.state.required) /\ \A r \in records : Present(r)
    BY <2>2 DEF Valid, StateDiagnostics
  <2>4. DOMAIN loaded.state.required = 1..Len(loaded.state.required)
    BY <2>2, RequiredIsSequence DEF OrderInv
  <2>5. \A c \in Carriers : \E r \in records : r.path = c /\ Present(r)
    BY <2>2, <2>3, <2>4 DEF Recorded, Range
  <2>6. request.review => capability # None
    BY <2>1 DEF ReviewInv, RecordsAreNotNone
  <2> QED BY <2>5, <2>6
<1>2. Init => ReviewInv
  BY DEF Init, ReviewInv
<1>3. GovernanceInv /\ OrderInv /\ ReviewInv /\ [Next]_vars => [Earned]_vars
  BY <1>1
<1> QED
  BY <1>2, <1>3, NextReview, GovernanceInvariant, OrderInvariant, PTL DEF Spec, EmissionIsEarned
==============================================================================
