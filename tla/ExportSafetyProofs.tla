-------------------------- MODULE ExportSafetyProofs -------------------------
(***************************************************************************)
(* The two guarantees of a publication that hold for any number of         *)
(* exporters, edits, failures and outside writes, and whatever the         *)
(* verdicts are: existing outputs are replaced only with permission, and   *)
(* what is published was computed from inputs that existed together.       *)
(***************************************************************************)
EXTENDS ExportTransactionProofs

\* Past its check of the output, an exporter may replace what is there unless
\* it landed later.
GuardInv ==
  \A p \in Exporter : Checked(p) /\ pc[p] # "done" => MayReplace(p)

\* Only the write and the rollback change the output, and whoever is past its
\* check is then recorded in late.
LEMMA OutputChange ==
  ASSUME NEW p \in Exporter, Run(p)
  PROVE  \/ UNCHANGED <<output, late>>
         \/ /\ pc[p] \in {"replace", "rollback"}
            /\ late' = {q \in Exporter : Checked(q)}
BY DEF Run, Capture, CheckOutput, InspectPrior, ReadPrior, Assemble, Recapture, Replay, Build,
       Recheck, Stage, Fill, Replace, WriteFails, Reread, Reload, Unlink, UnlinkFails, Restore,
       VerifyRestored, Inspect, Land, disk

LEMMA CheckedByOutputCheck ==
  ASSUME TypeOK, NEW p \in Exporter, Run(p), ~Checked(p), Checked(p)', pc'[p] # "done"
  PROVE  CheckOutput(p) /\ MayReplace(p)'
<1>1. pc[p] \in BeforeWrite
  BY DEF Checked, BeforeWrite
<1>2. pc[p] # "done" BY DEF Checked
<1>3. CASE pc[p] = "checkOutput"
  <2>1. CheckOutput(p)
    <3>1. \A r \in Input : CaptureStep[r] # "checkOutput" /\ RecheckStep[r] # "checkOutput"
      BY DEF Input, CaptureStep, RecheckStep
    <3>2. \A r \in Rereadable : RecaptureStep[r] # "checkOutput"
      BY DEF Rereadable, RecaptureStep
    <3>3. QED
      BY <1>3, <3>1, <3>2
         DEF Run, Capture, InspectPrior, ReadPrior, Assemble, Recapture, Replay, Build, Recheck,
             Stage, Fill, Replace, WriteFails, Reread, Reload, Unlink, UnlinkFails, Restore,
             VerifyRestored, Inspect, WriteStep
  <2>2. ~Refuse(p, "refused") BY DEF Refuse, Report, Go, TypeOK
  <2>3. (output \in Export => overwrite[p]) /\ output # Foreign BY <2>1, <2>2 DEF CheckOutput
  <2>4. output \in Content BY DEF TypeOK
  <2>5. MayReplace(p) BY <2>3, <2>4 DEF MayReplace, Content
  <2>6. MayReplace(p)' BY <2>1, <2>5 DEF CheckOutput, MayReplace, disk, fixed
  <2>7. QED BY <2>1, <2>6
<1>4. CASE pc[p] # "checkOutput"
  <2>1. p \in Verified /\ pc[p] \in {"captureOwn", "captureIntake", "captureBundle"}
    BY <1>4 DEF Checked
  <2>2. PICK r \in Input : Capture(p, r)
    <3>1. \A r \in Input : RecheckStep[r] \notin {"captureOwn", "captureIntake", "captureBundle"}
      BY DEF Input, RecheckStep
    <3>2. \A r \in Rereadable :
            RecaptureStep[r] \notin {"captureOwn", "captureIntake", "captureBundle"}
      BY DEF Rereadable, RecaptureStep
    <3>3. QED
      BY <2>1, <3>1, <3>2
         DEF Run, CheckOutput, InspectPrior, ReadPrior, Assemble, Recapture, Replay, Build,
             Recheck, Stage, Fill, Replace, WriteFails, Reread, Reload, Unlink, UnlinkFails,
             Restore, VerifyRestored, Inspect, WriteStep
  <2>3. Advance(p) BY <2>2 DEF Capture, Refuse, Report, Go, TypeOK
  <2>4. pc'[p] = VerifiedOrder[pc[p]] BY <2>1, <2>3 DEF Advance, Go, Successor, TypeOK
  <2>5. pc'[p] \in {"captureIntake", "captureBundle", "checkOutput"}
    BY <2>1, <2>4 DEF VerifiedOrder
  <2>6. QED BY <2>1, <2>5 DEF Checked
<1>5. QED BY <1>3, <1>4

LEMMA GuardStep ==
  ASSUME TypeOK, GuardInv, NEW p \in Exporter, Run(p)
  PROVE  GuardInv'
<1> SUFFICES ASSUME NEW q \in Exporter, Checked(q)', pc'[q] # "done" PROVE MayReplace(q)'
  BY DEF GuardInv
<1>1. overwrite' = overwrite
  BY DEF Run, Capture, CheckOutput, InspectPrior, ReadPrior, Assemble, Recapture,
         Replay, Build, Recheck, Stage, Fill, Replace, WriteFails, Reread, Reload, Unlink,
         UnlinkFails, Restore, VerifyRestored, Inspect, fixed
<1>2. CASE Checked(q) /\ pc[q] # "done"
  <2>1. CASE UNCHANGED <<output, late>>
    BY <1>1, <1>2, <2>1 DEF GuardInv, MayReplace
  <2>2. CASE late' = {s \in Exporter : Checked(s)} BY <1>2, <2>2 DEF MayReplace
  <2>3. QED BY <2>1, <2>2, OutputChange
<1>3. CASE ~(Checked(q) /\ pc[q] # "done")
  <2>1. q = p BY <1>3, StepFrame DEF Own, Checked
  <2>2. pc[p] # "done"
    <3>1. pc[p] = "done" => pc[p] \notin BeforeWrite BY DEF BeforeWrite
    <3>2. QED
      BY <3>1, LaterSteps
         DEF Stage, Fill, Replace, WriteFails, Reread, Reload, Unlink, UnlinkFails, Restore,
             VerifyRestored, Inspect, WriteStep
  <2>3. QED BY <1>3, <2>1, <2>2, CheckedByOutputCheck
<1>4. QED BY <1>2, <1>3

LEMMA GuardOther ==
  ASSUME TypeOK, GuardInv,
         (\E p \in Exporter : Crash(p)) \/ (\E f \in File : Edit(f)) \/ Outside
  PROVE  GuardInv'
<1>1. CASE UNCHANGED <<output, late, pc, overwrite>>
  BY <1>1 DEF GuardInv, MayReplace, Checked
<1>2. CASE Outside
  BY <1>2 DEF Outside, GuardInv, MayReplace, Checked, Land
<1>3. QED BY <1>1, <1>2 DEF Crash, Edit, disk, fixed

LEMMA ReplacesWithPermission ==
  ASSUME TypeOK, GuardInv, [Next]_vars, NEW p \in Exporter, Replaces(p)
  PROVE  MayReplace(p)
<1>1. ~((\E q \in Exporter : Crash(q)) \/ (\E f \in File : Edit(f)) \/ Outside)
  BY OtherFrame DEF Own, Replaces
<1>2. PICK q \in Exporter : Run(q) BY <1>1 DEF Next, vars, Replaces
<1>3. q = p BY <1>2, StepFrame DEF Own, Replaces
<1>4. pc[p] \in {"replace", "rollback"} BY <1>2, <1>3, OutputChange DEF Replaces
<1>5. QED BY <1>4 DEF GuardInv, Checked

\* An exporter changes an existing output only with --overwrite and when it is
\* CE-owned, except one that landed after its check: for all exporters at once.
THEOREM ReplacementGuarded == Spec => GuardedReplacement
<1> DEFINE Inv == BaseInv /\ GuardInv
<1>1. Init => Inv
  <2>1. Init => GuardInv BY DEF Init, GuardInv, Checked
  <2>2. QED BY <2>1, BaseInit
<1>2. Inv /\ [Next]_vars => Inv'
  <2>1. BaseInv => TypeOK BY DEF BaseInv
  <2>2. UNCHANGED vars /\ GuardInv => GuardInv' BY DEF vars, GuardInv, MayReplace, Checked
  <2>3. QED BY <2>1, <2>2, BaseStep, GuardStep, GuardOther DEF Next
<1>3. Inv /\ [Next]_vars => [\A p \in Exporter : Replaces(p) => MayReplace(p)]_vars
  BY ReplacesWithPermission DEF BaseInv
<1>4. QED BY <1>1, <1>2, <1>3, PTL DEF Spec, GuardedReplacement
------------------------------------------------------------------------------
\* The argument for PublishedInputsCoexisted.  Versions only grow, so an input
\* captured as snap and found unchanged later had that version all along.  For
\* each exporter one combination of versions w serves as the witness: the one
\* on disk when it assembled (official) or captured the bundle (legacy).  Every
\* later check pins one more component of w to the captured version.
AfterInstant(p) ==
  pc[p] \in {"replay", "build", "recheckOwn", "recheckIntake", "recheckBundle"}
    \cup (IF p \in Verified THEN {"recaptureIntake", "recaptureBundle"} ELSE {})

\* Roles whose version in w is known to be the captured one.
Pinned(p) ==
  IF p \in Verified
  THEN {"artifact"} \cup
       (IF pc[p] \in {"build", "recheckOwn", "recheckIntake", "recheckBundle"}
        THEN Rereadable ELSE {})
  ELSE {"bundle"} \cup
       (IF pc[p] \in {"recheckIntake", "recheckBundle"} THEN {"own"} ELSE {}) \cup
       (IF pc[p] = "recheckBundle" THEN {"intake"} ELSE {})

\* Roles the official exporter has captured again.
Again(p) ==
  IF p \in Legacy \/ pc[p] = "recaptureIntake" THEN {}
  ELSE IF pc[p] = "recaptureBundle" THEN {"intake"} ELSE Rereadable

Window(p, w) ==
  /\ \A r \in ReadBy(KindOf(p)) : snap[p][r] <= w[FileOf(KindOf(p), r)]
  /\ \A r \in Pinned(p) : w[FileOf(KindOf(p), r)] = snap[p][r]
  /\ \A r \in Again(p) : w[r] <= recap[p][r]

Good(e) ==
  /\ Coexisted(e)
  /\ e.allowed => e.by = "verified" /\ Verdict("verified", e.inputs) = "allowed"

SeenInv == version \in seen /\ \A v \in seen, f \in File : v[f] <= version[f]
SnapInv == \A p \in Exporter, r \in Role : snap[p][r] <= version[FileOf(KindOf(p), r)]
WindowInv == \A p \in Exporter : AfterInstant(p) => \E w \in seen : Window(p, w)
RecheckSteps == {"recheckOwn", "recheckIntake", "recheckBundle"}
EnvelopeInv ==
  \A p \in Exporter :
    /\ p \in Verified /\ pc[p] \in RecheckSteps \cup {"build"} =>
         \A r \in Rereadable : recap[p][r] = snap[p][r]
    /\ pc[p] \in RecheckSteps => cand[p] = Envelope(p)
GoodInv ==
  /\ output \in Export => Good(output)
  /\ \A p \in Exporter :
       /\ prior[p] \in Export => Good(prior[p])
       /\ pc[p] \in WriteStep \cup AfterWrite => cand[p] \in Export /\ Good(cand[p])
CoexistInv == SeenInv /\ SnapInv /\ WindowInv /\ EnvelopeInv /\ GoodInv

\* Which step a program counter before the write stands for.
LEMMA EarlyStep ==
  ASSUME NEW p \in Exporter, Run(p), pc[p] \in BeforeWrite
  PROVE  /\ \A r \in Input : pc[p] = CaptureStep[r] => Capture(p, r)
         /\ pc[p] = "assemble" => Assemble(p)
         /\ \A r \in Rereadable : pc[p] = RecaptureStep[r] => Recapture(p, r)
         /\ pc[p] = "replay" => Replay(p)
         /\ pc[p] = "build" => Build(p)
         /\ \A r \in Input : pc[p] = RecheckStep[r] => Recheck(p, r)
<1>1. pc[p] \notin WriteStep \cup AfterWrite BY DEF BeforeWrite, WriteStep, AfterWrite
<1>2. \/ (\E r \in Input : Capture(p, r) \/ Recheck(p, r)) \/ (\E r \in Rereadable : Recapture(p, r))
      \/ CheckOutput(p) \/ InspectPrior(p) \/ ReadPrior(p) \/ Assemble(p) \/ Replay(p) \/ Build(p)
  BY <1>1 DEF Run, Stage, Fill, Replace, WriteFails, Reread, Reload, Unlink, UnlinkFails,
              Restore, VerifyRestored, Inspect, WriteStep, AfterWrite
<1>3. CASE \E r \in Input : Capture(p, r) \/ Recheck(p, r)
  BY <1>3 DEF Capture, Recheck, CaptureStep, RecheckStep, RecaptureStep, Input, Rereadable
<1>4. CASE \E r \in Rereadable : Recapture(p, r)
  BY <1>4 DEF Recapture, CaptureStep, RecheckStep, RecaptureStep, Input, Rereadable
<1>5. CASE CheckOutput(p) \/ InspectPrior(p) \/ ReadPrior(p) \/ Assemble(p) \/ Replay(p) \/ Build(p)
  BY <1>5 DEF CheckOutput, InspectPrior, ReadPrior, Assemble, Replay, Build,
              CaptureStep, RecheckStep, RecaptureStep, Input, Rereadable
<1>6. QED BY <1>2, <1>3, <1>4, <1>5

\* A step that does not end the exporter took its successor.
LEMMA EarlyTarget ==
  ASSUME TypeOK, NEW p \in Exporter, Run(p), pc[p] \in BeforeWrite, pc[p] # "inspectPrior",
         pc'[p] # "done"
  PROVE  Advance(p) /\ pc'[p] = Successor(p)
<1>1. \A d : ~Refuse(p, d) BY DEF Refuse, Report, Go, TypeOK
<1>2. pc[p] \notin WriteStep \cup AfterWrite BY DEF BeforeWrite, WriteStep, AfterWrite
<1>3. Advance(p)
  BY <1>1, <1>2 DEF Run, Capture, CheckOutput, InspectPrior, ReadPrior, Assemble, Recapture,
     Replay, Build, Recheck, Stage, Fill, Replace, WriteFails, Reread, Reload, Unlink,
     UnlinkFails, Restore, VerifyRestored, Inspect, WriteStep, AfterWrite
<1>4. QED BY <1>3 DEF Advance, Go, TypeOK

\* What the exporter keeps in memory only changes in the steps that capture.
LEMMA MemoryFrame ==
  ASSUME NEW p \in Exporter, Run(p)
  PROVE  /\ UNCHANGED <<version, seen>>
         /\ snap' = snap \/ (\E r \in Input : Capture(p, r)) \/ Assemble(p)
         /\ recap' = recap \/ \E r \in Rereadable : Recapture(p, r)
         /\ cand' = cand \/ Build(p)
         /\ prior' = prior \/ ReadPrior(p)
BY DEF Run, Capture, CheckOutput, InspectPrior, ReadPrior, Assemble, Recapture,
       Replay, Build, Recheck, Stage, Fill, Replace, WriteFails, Reread, Reload, Unlink,
       UnlinkFails, Restore, VerifyRestored, Inspect, memory, inputs

LEMMA GoodStays ==
  ASSUME NEW e, Good(e), seen \subseteq seen'
  PROVE  Good(e)'
BY DEF Good, Coexisted

LEMMA FileOfType ==
  ASSUME NEW p \in Exporter, NEW r \in Role
  PROVE  FileOf(KindOf(p), r) \in File
BY DEF FileOf, KindOf, File, Role, Input

LEMMA SnapKept ==
  ASSUME TypeOK, SnapInv, NEW p \in Exporter, Run(p)
  PROVE  SnapInv'
<1> SUFFICES ASSUME NEW q \in Exporter, NEW r \in Role
             PROVE  snap'[q][r] <= version'[FileOf(KindOf(q), r)]
  BY DEF SnapInv
<1>1. version' = version BY MemoryFrame
<1>2. version[FileOf(KindOf(q), r)] \in Nat BY FileOfType DEF TypeOK
<1>3. \/ snap'[q][r] = snap[q][r] \/ snap'[q][r] = version[FileOf(KindOf(q), r)]
  <2>1. CASE q # p BY <2>1, StepFrame DEF Own
  <2>2. CASE q = p /\ \E s \in Input : Capture(p, s)
    BY <2>2 DEF Capture, TypeOK
  <2>3. CASE q = p /\ Assemble(p)
    BY <2>3 DEF Assemble, TypeOK, FileOf
  <2>4. QED BY <2>1, <2>2, <2>3, MemoryFrame
<1>4. QED BY <1>1, <1>2, <1>3 DEF SnapInv
LEMMA LaterTarget ==
  ASSUME TypeOK, NEW p \in Exporter, Run(p), pc[p] \notin BeforeWrite
  PROVE  pc'[p] \notin BeforeWrite
<1>1. \A t : Go(p, t) => pc'[p] = t BY DEF Go, TypeOK
<1>2. \/ pc'[p] \in WriteStep \cup AfterWrite \cup {"done"}
  BY <1>1, LaterSteps
     DEF Stage, Fill, Replace, WriteFails, Reread, Reload, Unlink, UnlinkFails, Restore,
         VerifyRestored, Inspect, Report, Refuse, Reject, Reraise, ReportInspected, WriteStep,
         AfterWrite
<1>3. QED BY <1>2 DEF WriteStep, AfterWrite, BeforeWrite

\* The instant of the official exporter is its evaluation ...
LEMMA InstantOfVerified ==
  ASSUME TypeOK, SeenInv, SnapInv', NEW p \in Verified, Assemble(p), Advance(p), pc'[p] = Successor(p)
  PROVE  Window(p, version)'
<1>1. p \in Exporter /\ p \notin Legacy /\ KindOf(p) = "verified"
  BY KindAssumption DEF Exporter, KindOf
<1>2. version' = version /\ pc'[p] = "recaptureIntake"
  BY DEF Assemble, Successor, VerifiedOrder, inputs
<1>3. snap'[p]["artifact"] = version["artifact"]
  <2>1. snap' = [snap EXCEPT ![p]["artifact"] = version["artifact"]]
    BY <1>2 DEF Assemble, Refuse, Report, Go, TypeOK
  <2>2. QED BY <1>1, <2>1 DEF TypeOK, Role
<1>4. Pinned(p)' = {"artifact"} /\ Again(p)' = {} BY <1>1, <1>2 DEF Pinned, Again
<1>5. FileOf("verified", "artifact") = "artifact" BY DEF FileOf
<1>6. \A r \in ReadBy(KindOf(p)) : snap'[p][r] <= version'[FileOf(KindOf(p), r)]
  BY <1>1 DEF SnapInv, ReadBy
<1>7. QED BY <1>1, <1>2, <1>3, <1>4, <1>5, <1>6 DEF Window

\* ... and that of the legacy exporter its last capture.
LEMMA InstantOfLegacy ==
  ASSUME TypeOK, SeenInv, SnapInv', NEW p \in Legacy, Capture(p, "bundle"), Advance(p),
         pc'[p] = Successor(p)
  PROVE  Window(p, version)'
<1>1. p \in Exporter /\ p \notin Verified /\ KindOf(p) = "legacy"
  BY KindAssumption DEF Exporter, KindOf
<1>2. version' = version /\ pc'[p] = "replay"
  BY <1>1 DEF Capture, Successor, LegacyOrder, CaptureStep, inputs
<1>3. snap'[p]["bundle"] = version["bundle"]
  <2>1. snap' = [snap EXCEPT ![p]["bundle"] = version["bundle"]]
    BY <1>1, <1>2 DEF Capture, Refuse, Report, Go, TypeOK, FileOf
  <2>2. QED BY <1>1, <2>1 DEF TypeOK, Role, Input
<1>4. Pinned(p)' = {"bundle"} /\ Again(p)' = {} BY <1>1, <1>2 DEF Pinned, Again
<1>5. FileOf("legacy", "bundle") = "bundle" BY DEF FileOf
<1>6. \A r \in ReadBy(KindOf(p)) : snap'[p][r] <= version'[FileOf(KindOf(p), r)]
  BY <1>1 DEF SnapInv, ReadBy, Role
<1>7. QED BY <1>1, <1>2, <1>3, <1>4, <1>5, <1>6 DEF Window

LEMMA WindowOfVerified ==
  ASSUME TypeOK, SeenInv, NEW p \in Verified, Run(p), AfterInstant(p), AfterInstant(p)',
         pc'[p] = Successor(p), NEW w \in seen, Window(p, w)
  PROVE  Window(p, w)'
<1>1. p \in Exporter /\ p \notin Legacy /\ KindOf(p) = "verified" /\ ReadBy("verified") = Role
  BY KindAssumption DEF Exporter, KindOf, ReadBy
<1>2. pc[p] \in BeforeWrite BY DEF AfterInstant, BeforeWrite
<1>3. version' = version /\ \A f \in File : w[f] \in Nat /\ w[f] <= version[f]
  BY <1>1, MemoryFrame DEF SeenInv, TypeOK
<1>4. snap' = snap
  <2>1. ~Assemble(p) BY DEF Assemble, AfterInstant
  <2>2. \A r \in Input : ~Capture(p, r) BY DEF Capture, AfterInstant, CaptureStep, Input
  <2>3. QED BY <1>1, <2>1, <2>2, MemoryFrame
<1>5. /\ snap[p] \in [Role -> Nat] /\ recap[p] \in [Rereadable -> Nat]
      /\ \A r \in Rereadable : r \in Role /\ r \in File /\ FileOf("verified", r) = r
  BY <1>1 DEF TypeOK, Rereadable, Role, Input, File, FileOf
<1>6. FileOf("verified", "artifact") = "artifact" /\ "artifact" \notin Rereadable
  BY DEF FileOf, Rereadable
<1>7. \A r \in Role : snap[p][r] <= w[FileOf("verified", r)] BY <1>1 DEF Window
<1>8. w["artifact"] = snap[p]["artifact"] BY <1>1, <1>6 DEF Window, Pinned
<1>9. CASE pc[p] = "recaptureIntake"
  <2>1. Recapture(p, "intake")
    BY <1>1, <1>2, <1>9, EarlyStep DEF RecaptureStep, Rereadable
  <2>2. pc'[p] = "recaptureBundle" BY <1>9 DEF Successor, VerifiedOrder
  <2>3. recap' = [recap EXCEPT ![p]["intake"] = version["intake"]]
    BY <1>1, <2>1, <2>2 DEF Recapture, Refuse, Report, Go, TypeOK
  <2>4. recap'[p]["intake"] = version["intake"] BY <1>1, <2>3 DEF TypeOK, Rereadable
  <2>5. Pinned(p)' = {"artifact"} /\ Again(p)' = {"intake"}
    BY <1>1, <2>2 DEF Pinned, Again
  <2>6. w["intake"] <= recap'[p]["intake"] BY <1>3, <2>4 DEF File
  <2>7. QED BY <1>1, <1>4, <1>6, <1>7, <1>8, <2>5, <2>6 DEF Window
<1>10. CASE pc[p] = "recaptureBundle"
  <2>1. Recapture(p, "bundle")
    BY <1>1, <1>2, <1>10, EarlyStep DEF RecaptureStep, Rereadable
  <2>2. pc'[p] = "replay" BY <1>10 DEF Successor, VerifiedOrder
  <2>3. recap' = [recap EXCEPT ![p]["bundle"] = version["bundle"]]
    BY <1>1, <2>1, <2>2 DEF Recapture, Refuse, Report, Go, TypeOK
  <2>4. recap'[p]["bundle"] = version["bundle"] /\ recap'[p]["intake"] = recap[p]["intake"]
    BY <1>1, <2>3 DEF TypeOK, Rereadable
  <2>5. Pinned(p)' = {"artifact"} /\ Again(p)' = Rereadable /\ Again(p) = {"intake"}
    BY <1>1, <1>10, <2>2 DEF Pinned, Again
  <2>6. w["intake"] <= recap'[p]["intake"] /\ w["bundle"] <= recap'[p]["bundle"]
    BY <1>3, <2>4, <2>5 DEF File, Window
  <2>7. QED BY <1>1, <1>4, <1>6, <1>7, <1>8, <2>5, <2>6 DEF Window, Rereadable
<1>11. recap' = recap \/ pc[p] \in {"recaptureIntake", "recaptureBundle"}
  BY <1>1, MemoryFrame DEF Recapture, RecaptureStep, Rereadable
<1>12. CASE pc[p] = "replay"
  <2>1. Replay(p) BY <1>1, <1>2, <1>12, EarlyStep
  <2>2. pc'[p] = "build" BY <1>12 DEF Successor, VerifiedOrder
  <2>3. Reproduces(p) BY <1>1, <2>1, <2>2 DEF Replay, Refuse, Report, Go, TypeOK
  <2>4. recap' = recap BY <1>11, <1>12
  <2>5. Again(p) = Rereadable /\ Again(p)' = Rereadable /\ Pinned(p)' = {"artifact"} \cup Rereadable
    BY <1>1, <1>12, <2>2 DEF Pinned, Again
  <2>6. \A r \in Rereadable : w[r] <= recap[p][r] BY <2>5 DEF Window
  <2>7. \A r \in Rereadable : w[r] = snap[p][r]
    BY <1>3, <1>5, <1>7, <2>3, <2>6 DEF Reproduces
  <2>8. QED BY <1>1, <1>4, <1>5, <1>6, <1>7, <1>8, <2>4, <2>5, <2>6, <2>7 DEF Window
<1>13. CASE pc[p] \in {"build", "recheckIntake", "recheckBundle", "recheckOwn"}
  <2>1. pc'[p] \in {"recheckIntake", "recheckBundle", "recheckOwn", "stage"}
    BY <1>13 DEF Successor, VerifiedOrder
  <2>2. pc'[p] # "stage" BY DEF AfterInstant
  <2>3. recap' = recap BY <1>11, <1>13
  <2>4. Pinned(p)' = Pinned(p) /\ Again(p)' = Again(p)
    BY <1>1, <1>13, <2>1, <2>2 DEF Pinned, Again
  <2>5. QED BY <1>4, <2>3, <2>4 DEF Window
<1>14. QED BY <1>9, <1>10, <1>12, <1>13 DEF AfterInstant

LEMMA WindowOfLegacy ==
  ASSUME TypeOK, SeenInv, NEW p \in Legacy, Run(p), AfterInstant(p), AfterInstant(p)',
         pc'[p] = Successor(p), NEW w \in seen, Window(p, w)
  PROVE  Window(p, w)'
<1>1. p \in Exporter /\ p \notin Verified /\ KindOf(p) = "legacy" /\ ReadBy("legacy") = Input
  BY KindAssumption DEF Exporter, KindOf, ReadBy
<1>2. pc[p] \in BeforeWrite BY DEF AfterInstant, BeforeWrite
<1>3. version' = version /\ \A f \in File : w[f] \in Nat /\ w[f] <= version[f]
  BY <1>1, MemoryFrame DEF SeenInv, TypeOK
<1>4. snap' = snap
  <2>1. ~Assemble(p) BY <1>1 DEF Assemble, AfterInstant
  <2>2. \A r \in Input : ~Capture(p, r) BY <1>1 DEF Capture, AfterInstant, CaptureStep, Input
  <2>3. QED BY <1>1, <2>1, <2>2, MemoryFrame
<1>5. snap[p] \in [Role -> Nat] /\ \A r \in Input : r \in Role /\ FileOf("legacy", r) \in File
  BY <1>1 DEF TypeOK, Role, Input, File, FileOf
<1>6. \A r \in Input : snap[p][r] <= w[FileOf("legacy", r)] BY <1>1 DEF Window
<1>7. \A r \in Pinned(p) : w[FileOf("legacy", r)] = snap[p][r] BY <1>1 DEF Window
<1>8. Again(p)' = {} BY <1>1 DEF Again
<1>9. ASSUME NEW r \in Input, pc[p] = RecheckStep[r]
      PROVE  w[FileOf("legacy", r)] = snap[p][r]
  <2>1. Recheck(p, r) BY <1>1, <1>2, <1>9, EarlyStep
  <2>2. pc'[p] # "done" BY DEF AfterInstant
  <2>3. version[FileOf("legacy", r)] = snap[p][r]
    BY <1>1, <2>1, <2>2 DEF Recheck, Captured, Refuse, Report, Go, TypeOK
  <2>4. QED BY <1>3, <1>5, <1>6, <2>3
<1>10. CASE pc[p] \in {"replay", "build"}
  <2>1. pc'[p] \in {"build", "recheckOwn"} BY <1>1, <1>10 DEF Successor, LegacyOrder
  <2>2. Pinned(p)' = Pinned(p) BY <1>1, <1>10, <2>1 DEF Pinned
  <2>3. QED BY <1>1, <1>4, <1>6, <1>7, <1>8, <2>2 DEF Window
<1>11. CASE pc[p] = "recheckOwn"
  <2>1. pc'[p] = "recheckIntake" BY <1>1, <1>11 DEF Successor, LegacyOrder
  <2>2. Pinned(p)' = Pinned(p) \cup {"own"} BY <1>1, <1>11, <2>1 DEF Pinned
  <2>3. w[FileOf("legacy", "own")] = snap[p]["own"] BY <1>9, <1>11 DEF Input, RecheckStep
  <2>4. QED BY <1>1, <1>4, <1>6, <1>7, <1>8, <2>2, <2>3 DEF Window
<1>12. CASE pc[p] = "recheckIntake"
  <2>1. pc'[p] = "recheckBundle" BY <1>1, <1>12 DEF Successor, LegacyOrder
  <2>2. Pinned(p)' = Pinned(p) \cup {"intake"} BY <1>1, <1>12, <2>1 DEF Pinned
  <2>3. w[FileOf("legacy", "intake")] = snap[p]["intake"] BY <1>9, <1>12 DEF Input, RecheckStep
  <2>4. QED BY <1>1, <1>4, <1>6, <1>7, <1>8, <2>2, <2>3 DEF Window
<1>13. pc[p] # "recheckBundle"
  BY <1>1 DEF Successor, LegacyOrder, AfterInstant
<1>14. QED BY <1>1, <1>10, <1>11, <1>12, <1>13 DEF AfterInstant
\* How an exporter comes to stand before the write.
LEMMA EarlyMove ==
  ASSUME TypeOK, NEW p \in Exporter, Run(p), pc'[p] \in BeforeWrite
  PROVE  /\ pc[p] \in BeforeWrite
         /\ \/ pc[p] = "inspectPrior" /\ pc'[p] \in {"assemble", "readPrior"}
            \/ pc[p] # "inspectPrior" /\ Advance(p) /\ pc'[p] = Successor(p)
<1>1. pc'[p] # "done" BY DEF BeforeWrite
<1>2. pc[p] \in BeforeWrite BY LaterTarget
<1>3. ASSUME pc[p] = "inspectPrior" PROVE pc'[p] \in {"assemble", "readPrior"}
  <2>1. PcOK /\ p \in Verified BY <1>3 DEF TypeOK, PcOK, OfficialStep, Exporter
  <2>2. InspectPrior(p)
    BY <1>2, <1>3
       DEF Run, Capture, CheckOutput, ReadPrior, Assemble, Recapture, Replay, Build, Recheck,
           Stage, Fill, Replace, WriteFails, Reread, Reload, Unlink, UnlinkFails, Restore,
           VerifyRestored, Inspect, WriteStep, CaptureStep, RecaptureStep, RecheckStep, Input,
           Rereadable
  <2>3. Advance(p) => pc'[p] = "readPrior"
    BY <1>3, <2>1 DEF Advance, Go, Successor, VerifiedOrder, PcOK
  <2>4. QED BY <1>1, <2>1, <2>2, <2>3 DEF InspectPrior, Refuse, Report, Go, PcOK
<1>4. QED BY <1>1, <1>2, <1>3, EarlyTarget

LEMMA WindowKept ==
  ASSUME TypeOK, SeenInv, SnapInv, WindowInv, NEW p \in Exporter, Run(p)
  PROVE  WindowInv'
<1> SUFFICES ASSUME NEW q \in Exporter, AfterInstant(q)' PROVE (\E w \in seen : Window(q, w))'
  BY DEF WindowInv
<1>1. version' = version /\ seen' = seen /\ version \in seen BY MemoryFrame DEF SeenInv
<1>2. SnapInv' BY SnapKept
<1>3. CASE q # p
  <2>1. pc'[q] = pc[q] /\ snap'[q] = snap[q] /\ recap'[q] = recap[q] BY <1>3, StepFrame DEF Own
  <2>2. AfterInstant(q) BY <2>1 DEF AfterInstant
  <2>3. PICK w \in seen : Window(q, w) BY <2>2 DEF WindowInv
  <2>4. Window(q, w)' BY <2>1, <2>3 DEF Window, Pinned, Again
  <2>5. QED BY <1>1, <2>4
<1>4. CASE q = p
  <2>1. pc'[p] \in BeforeWrite /\ pc'[p] # "done" BY <1>4 DEF AfterInstant, BeforeWrite
  <2>2. pc[p] \in BeforeWrite BY <2>1, EarlyMove
  <2>4. Advance(p) /\ pc'[p] = Successor(p)
    BY <1>4, <2>1, EarlyMove DEF AfterInstant
  <2>5. CASE AfterInstant(p)
    <3>1. PICK w \in seen : Window(p, w) BY <2>5 DEF WindowInv
    <3>2. Window(p, w)' BY <1>4, <2>4, <2>5, <3>1, WindowOfVerified, WindowOfLegacy DEF Exporter
    <3>3. QED BY <1>1, <1>4, <3>2
  <2>6. CASE ~AfterInstant(p)
    <3>1. CASE p \in Verified
      <4>1. pc[p] = "assemble"
        <5>1. VerifiedOrder[pc[p]] \in {"recaptureIntake", "recaptureBundle", "replay", "build",
                                         "recheckOwn", "recheckIntake", "recheckBundle"}
          BY <1>4, <2>4, <3>1 DEF Successor, AfterInstant
        <5>2. QED BY <2>2, <2>6, <3>1, <5>1 DEF VerifiedOrder, AfterInstant, BeforeWrite
      <4>2. Assemble(p) BY <2>2, <4>1, EarlyStep
      <4>3. QED BY <1>1, <1>2, <1>4, <2>4, <3>1, <4>2, InstantOfVerified
    <3>2. CASE p \in Legacy
      <4>0. p \notin Verified BY <3>2, KindAssumption
      <4>1. pc[p] = "captureBundle"
        <5>1. LegacyOrder[pc[p]] \in {"replay", "build", "recheckOwn", "recheckIntake",
                                       "recheckBundle"}
          BY <1>4, <2>4, <4>0 DEF Successor, AfterInstant
        <5>2. pc[p] \notin OfficialStep BY <3>2 DEF TypeOK
        <5>3. QED BY <2>2, <2>6, <4>0, <5>1, <5>2
              DEF LegacyOrder, AfterInstant, BeforeWrite, OfficialStep
      <4>2. Capture(p, "bundle") BY <2>2, <4>1, EarlyStep DEF Input, CaptureStep
      <4>3. QED BY <1>1, <1>2, <1>4, <2>4, <3>2, <4>2, InstantOfLegacy
    <3>3. QED BY <3>1, <3>2 DEF Exporter
  <2>7. QED BY <2>5, <2>6
<1>5. QED BY <1>3, <1>4

LEMMA EnvelopeKept ==
  ASSUME TypeOK, EnvelopeInv, NEW p \in Exporter, Run(p)
  PROVE  EnvelopeInv'
<1> DEFINE Same(q) == q \in Verified /\ pc[q] \in RecheckSteps \cup {"build"} =>
                        \A r \in Rereadable : recap[q][r] = snap[q][r]
           Built(q) == pc[q] \in RecheckSteps => cand[q] = Envelope(q)
<1>1. ASSUME NEW q \in Exporter, q # p PROVE Same(q)' /\ Built(q)'
  <2>1. /\ pc'[q] = pc[q] /\ snap'[q] = snap[q] /\ recap'[q] = recap[q] /\ cand'[q] = cand[q]
    BY <1>1, StepFrame DEF Own
  <2>2. QED BY <2>1 DEF EnvelopeInv, Envelope
<1>2. ASSUME pc'[p] \in RecheckSteps \cup {"build"} PROVE Same(p)' /\ Built(p)'
  <2>1. pc'[p] \in BeforeWrite /\ pc'[p] # "done" BY <1>2 DEF RecheckSteps, BeforeWrite
  <2>2. pc[p] \in BeforeWrite BY <2>1, EarlyMove
  <2>3. pc[p] \in {"replay", "build"} \cup RecheckSteps /\ pc'[p] = Successor(p)
    <3>2. pc'[p] = Successor(p) BY <1>2, <2>1, EarlyMove DEF RecheckSteps
    <3>3. p \in Legacy => p \notin Verified /\ pc[p] \notin OfficialStep
      BY KindAssumption DEF TypeOK
    <3>4. QED BY <1>2, <2>2, <3>2, <3>3
          DEF Successor, VerifiedOrder, LegacyOrder, BeforeWrite, RecheckSteps, Exporter,
              OfficialStep
  <2>4. snap' = snap /\ recap' = recap
    <3>1. ~Assemble(p) /\ (\A r \in Input : ~Capture(p, r)) /\ (\A r \in Rereadable : ~Recapture(p, r))
      BY <2>3 DEF Assemble, Capture, Recapture, CaptureStep, RecaptureStep, Input, Rereadable,
                  RecheckSteps
    <3>2. QED BY <3>1, MemoryFrame
  <2>5. CASE pc[p] = "replay"
    <3>1. Replay(p) BY <2>2, <2>5, EarlyStep
    <3>2. p \in Verified => Reproduces(p)
      BY <2>1, <3>1 DEF Replay, Refuse, Report, Go, TypeOK
    <3>3. pc'[p] = "build" BY <2>3, <2>5 DEF Successor, VerifiedOrder, LegacyOrder
    <3>4. QED BY <2>4, <3>2, <3>3 DEF Reproduces, RecheckSteps
  <2>6. CASE pc[p] = "build"
    <3>1. Build(p) BY <2>2, <2>6, EarlyStep
    <3>2. cand' = [cand EXCEPT ![p] = Envelope(p)]
      BY <2>1, <3>1 DEF Build, Refuse, Report, Go, TypeOK
    <3>3. cand'[p] = Envelope(p) BY <3>2 DEF TypeOK
    <3>4. QED BY <2>4, <2>6, <3>3 DEF EnvelopeInv, Envelope
  <2>7. CASE pc[p] \in RecheckSteps
    <3>1. cand' = cand BY <2>7, MemoryFrame DEF Build, RecheckSteps
    <3>2. QED BY <2>4, <2>7, <3>1 DEF EnvelopeInv, Envelope
  <2>8. QED BY <2>3, <2>5, <2>6, <2>7
<1>3. Same(p)' /\ Built(p)' BY <1>2
<1>4. QED BY <1>1, <1>3 DEF EnvelopeInv
LEMMA EnvelopeFields ==
  ASSUME NEW p \in Exporter
  PROVE  /\ Envelope(p).by = KindOf(p) /\ Envelope(p).inputs = snap[p]
         /\ Envelope(p).source =
              IF p \in Verified THEN recap[p] ELSE [r \in Rereadable |-> snap[p][r]]
         /\ Envelope(p).allowed =
              (p \in Verified /\ Verdict(KindOf(p), snap[p]) = "allowed")
BY Zenon DEF Envelope

\* What the last recheck lets through.
LEMMA RecheckedIsGood ==
  ASSUME TypeOK, SeenInv, WindowInv, EnvelopeInv, NEW p \in Exporter, Run(p),
         pc[p] \in BeforeWrite, pc'[p] = "stage"
  PROVE  cand[p] \in Export /\ Good(cand[p])
<1>1. pc[p] # "inspectPrior"
  <2>1. ASSUME pc[p] = "inspectPrior" PROVE FALSE
    <3>1. PcOK /\ p \in Verified BY <2>1 DEF TypeOK, PcOK, OfficialStep, Exporter
    <3>2. InspectPrior(p)
      BY <2>1 DEF Run, Capture, CheckOutput, ReadPrior, Assemble, Recapture, Replay, Build,
         Recheck, Stage, Fill, Replace, WriteFails, Reread, Reload, Unlink, UnlinkFails, Restore,
         VerifyRestored, Inspect, WriteStep, CaptureStep, RecaptureStep, RecheckStep, Input,
         Rereadable
    <3>3. QED BY <2>1, <3>1, <3>2
          DEF InspectPrior, Refuse, Report, Advance, Go, Successor, VerifiedOrder, PcOK
  <2>2. QED BY <2>1
<1>2. Advance(p) /\ Successor(p) = "stage" BY <1>1, EarlyTarget
<1>3. CASE p \in Verified
  <2>1. pc[p] = "recheckOwn" BY <1>2, <1>3 DEF Successor, VerifiedOrder, BeforeWrite
  <2>2. KindOf(p) = "verified" /\ ReadBy("verified") = Role BY <1>3 DEF KindOf, ReadBy
  <2>3. PICK w \in seen : Window(p, w) BY <2>1 DEF WindowInv, AfterInstant
  <2>4. Recheck(p, "own") BY <2>1, EarlyStep DEF Input, RecheckStep
  <2>5. version["draft"] = snap[p]["own"]
    BY <1>3, <2>2, <2>4 DEF Recheck, Captured, Refuse, Report, Go, TypeOK, FileOf, Rereadable
  <2>6. w["draft"] <= version["draft"] /\ w["draft"] \in Nat /\ version["draft"] \in Nat
    BY <2>3 DEF SeenInv, TypeOK, File
  <2>7. snap[p]["own"] <= w["draft"] BY <2>2, <2>3 DEF Window, Role, Input, FileOf
  <2>8. w["draft"] = snap[p]["own"] BY <2>5, <2>6, <2>7
  <2>9. \A r \in {"artifact"} \cup Rereadable : w[r] = snap[p][r]
    BY <1>3, <2>1, <2>2, <2>3 DEF Window, Pinned, FileOf, Rereadable
  <2>10. \A r \in Rereadable : recap[p][r] = snap[p][r]
    BY <1>3, <2>1 DEF EnvelopeInv, RecheckSteps
  <2>11. cand[p] = Envelope(p) BY <2>1 DEF EnvelopeInv, RecheckSteps
  <2>12. cand[p] \in Export BY <2>11, EnvelopeType
  <2>13. /\ cand[p].by = "verified" /\ cand[p].inputs = snap[p] /\ cand[p].source = recap[p]
         /\ cand[p].allowed => Verdict("verified", snap[p]) = "allowed"
    BY <1>3, <2>2, <2>11, EnvelopeFields
  <2>14. \A r \in Role : snap[p][r] = w[FileOf("verified", r)]
    BY <2>8, <2>9 DEF Role, Input, Rereadable, FileOf
  <2>15. Coexisted(cand[p])
    BY <2>2, <2>3, <2>9, <2>10, <2>13, <2>14 DEF Coexisted
  <2>16. QED BY <2>12, <2>13, <2>15 DEF Good
<1>4. CASE p \in Legacy
  <2>1. p \notin Verified /\ pc[p] = "recheckBundle"
    BY <1>2, <1>4, KindAssumption DEF Successor, LegacyOrder, BeforeWrite, TypeOK, OfficialStep
  <2>2. KindOf(p) = "legacy" /\ ReadBy("legacy") = Input BY <2>1 DEF KindOf, ReadBy
  <2>3. PICK w \in seen : Window(p, w) BY <2>1 DEF WindowInv, AfterInstant
  <2>4. \A r \in Input : w[FileOf("legacy", r)] = snap[p][r]
    BY <2>1, <2>2, <2>3 DEF Window, Pinned, Input
  <2>5. cand[p] = Envelope(p) BY <2>1 DEF EnvelopeInv, RecheckSteps
  <2>6. cand[p] \in Export BY <2>5, EnvelopeType
  <2>7. /\ cand[p].by = "legacy" /\ cand[p].inputs = snap[p] /\ ~cand[p].allowed
        /\ cand[p].source = [r \in Rereadable |-> snap[p][r]]
    BY <2>1, <2>2, <2>5, EnvelopeFields
  <2>8. \A r \in Rereadable : r \in Input /\ FileOf("legacy", r) = r
    BY DEF Rereadable, Input, FileOf
  <2>9. Coexisted(cand[p]) BY <2>2, <2>3, <2>4, <2>7, <2>8 DEF Coexisted
  <2>10. QED BY <2>6, <2>7, <2>9 DEF Good
<1>5. QED BY <1>3, <1>4 DEF Exporter

\* What lands at the output path was there before or is in the exporter's hands.
LEMMA OutputSource ==
  ASSUME TypeOK, CauseInv, WriteInv, NEW p \in Exporter, Run(p)
  PROVE  \/ output' \in {output, Absent}
         \/ output' = prior[p]
         \/ output' = cand[p] /\ pc[p] \in WriteStep
BY DEF Run, Capture, CheckOutput, InspectPrior, ReadPrior, Assemble, Recapture, Replay, Build,
       Recheck, Stage, Fill, Replace, WriteFails, Reread, Reload, Unlink, UnlinkFails, Restore,
       VerifyRestored, Inspect, Land, disk, WriteInv, Bytes, WriteStep

LEMMA GoodKept ==
  ASSUME BaseInv, SeenInv, WindowInv, EnvelopeInv, GoodInv, NEW p \in Exporter, Run(p)
  PROVE  GoodInv'
<1>1. TypeOK /\ CauseInv /\ WriteInv BY DEF BaseInv
<1>2. seen' = seen BY MemoryFrame
<1>3. \A e : Good(e) => Good(e)' BY <1>2, GoodStays
<1>4. output' \in Export => Good(output)'
  <2>1. Absent \notin Export BY MarkerAssumption
  <2>2. output' \in Export => Good(output')
    BY <1>1, <2>1, OutputSource DEF GoodInv
  <2>3. QED BY <1>2, <2>2 DEF Good, Coexisted
<1>5. ASSUME NEW q \in Exporter, prior'[q] \in Export PROVE Good(prior[q])'
  <2>1. prior'[q] \in {prior[q], output} BY <1>1, MemoryFrame DEF ReadPrior, TypeOK
  <2>2. Good(prior'[q]) BY <1>5, <2>1 DEF GoodInv
  <2>3. QED BY <1>2, <2>2 DEF Good, Coexisted
<1>6. ASSUME NEW q \in Exporter, pc'[q] \in WriteStep \cup AfterWrite
      PROVE  cand'[q] \in Export /\ Good(cand[q])'
  <2>1. cand'[q] = cand[q] /\ cand[q] \in Export /\ Good(cand[q])
    <3>1. CASE q # p BY <1>1, <1>6, <3>1, StepFrame DEF Own, GoodInv
    <3>2. CASE q = p /\ pc[p] \in BeforeWrite
      <4>1. pc'[p] = "stage"
        BY <1>1, <1>6, <3>2, BeforeWriteTarget DEF WriteStep, AfterWrite, BeforeWrite
      <4>2. ~Build(p)
        <5>1. ASSUME Build(p) PROVE pc'[p] \in {"recheckIntake", "recheckOwn", "done"}
          BY <1>1, <5>1 DEF Build, Refuse, Report, Advance, Go, Successor, VerifiedOrder,
                            LegacyOrder, TypeOK
        <5>2. QED BY <4>1, <5>1
      <4>3. QED BY <1>1, <3>2, <4>1, <4>2, MemoryFrame, RecheckedIsGood
    <3>3. CASE q = p /\ pc[p] \in WriteStep \cup AfterWrite
      BY <3>3, MemoryFrame DEF Build, WriteStep, AfterWrite, GoodInv
    <3>4. CASE q = p /\ pc[p] = "done"
      BY <3>4, LaterSteps
         DEF BeforeWrite, Stage, Fill, Replace, WriteFails, Reread, Reload, Unlink, UnlinkFails,
             Restore, VerifyRestored, Inspect, WriteStep
    <3>5. QED BY <1>1, <3>1, <3>2, <3>3, <3>4 DEF TypeOK, Step
  <2>2. QED BY <1>2, <2>1 DEF Good, Coexisted
<1>7. QED BY <1>4, <1>5, <1>6 DEF GoodInv

\* An edit makes the edited input newer than everything seen.
LEMMA CoexistOther ==
  ASSUME BaseInv, CoexistInv,
         (\E p \in Exporter : Crash(p)) \/ (\E f \in File : Edit(f)) \/ Outside
  PROVE  CoexistInv'
<1>1. TypeOK BY DEF BaseInv
<1>2. seen \subseteq seen' /\ SeenInv' /\ \A f \in File : version[f] <= version'[f]
  <2>1. CASE UNCHANGED <<version, seen>> BY <1>1, <2>1 DEF CoexistInv, SeenInv, TypeOK
  <2>2. ASSUME NEW f \in File, Edit(f)
        PROVE  seen \subseteq seen' /\ SeenInv' /\ \A g \in File : version[g] <= version'[g]
    <3>1. version' = [version EXCEPT ![f] = @ + 1] /\ seen' = seen \cup {version'}
      BY <2>2 DEF Edit
    <3>2. \A g \in File : version'[g] \in Nat /\ version[g] <= version'[g] BY <1>1, <3>1 DEF TypeOK
    <3>3. \A v \in seen, g \in File : v[g] \in Nat /\ version[g] \in Nat /\ v[g] <= version[g]
      BY <1>1 DEF CoexistInv, SeenInv, TypeOK
    <3>4. \A v \in seen, g \in File : v[g] <= version'[g] BY <3>2, <3>3
    <3>5. \A g \in File : version'[g] <= version'[g] BY <3>2
    <3>6. QED BY <3>1, <3>2, <3>4, <3>5 DEF SeenInv
  <2>3. QED BY <2>1, <2>2 DEF Crash, Outside, inputs
<1>3. \A q \in Exporter : Own(q)' = Own(q) BY OtherFrame
<1>4. SnapInv'
  <2>1. \A q \in Exporter, r \in Role :
          /\ FileOf(KindOf(q), r) \in File /\ version[FileOf(KindOf(q), r)] \in Nat
          /\ version'[FileOf(KindOf(q), r)] \in Nat /\ snap[q][r] \in Nat
    BY <1>1, FileOfType, OtherStepsTyped DEF TypeOK
  <2>2. QED BY <1>2, <1>3, <2>1 DEF CoexistInv, SnapInv, Own
<1>5. WindowInv'
  BY <1>2, <1>3 DEF CoexistInv, WindowInv, AfterInstant, Window, Pinned, Again, Own
<1>6. EnvelopeInv' BY <1>3 DEF CoexistInv, EnvelopeInv, Envelope, Own
<1>7. GoodInv'
  <2>1. output' = output \/ output' \notin Export
    BY MarkerAssumption DEF Crash, Edit, Outside, Land, disk
  <2>2. \A e : Good(e) => (\E v \in seen' :
           /\ \A r \in ReadBy(e.by) : e.inputs[r] = v[FileOf(e.by, r)]
           /\ \A r \in Rereadable : e.source[r] = v[r])
         /\ (e.allowed => e.by = "verified" /\ Verdict("verified", e.inputs) = "allowed")
    BY <1>2 DEF Good, Coexisted
  <2>3. output' \in Export => Good(output)' BY <2>1, <2>2 DEF CoexistInv, GoodInv, Good, Coexisted
  <2>4. ASSUME NEW q \in Exporter, prior'[q] \in Export PROVE Good(prior[q])'
    <3>1. prior'[q] = prior[q] BY <1>3 DEF Own
    <3>2. Good(prior[q]) BY <2>4, <3>1 DEF CoexistInv, GoodInv
    <3>3. QED BY <2>2, <3>1, <3>2 DEF Good, Coexisted
  <2>5. ASSUME NEW q \in Exporter, pc'[q] \in WriteStep \cup AfterWrite
        PROVE  cand'[q] \in Export /\ Good(cand[q])'
    <3>1. pc'[q] = pc[q] /\ cand'[q] = cand[q] BY <1>3 DEF Own
    <3>2. cand[q] \in Export /\ Good(cand[q]) BY <2>5, <3>1 DEF CoexistInv, GoodInv
    <3>3. QED BY <2>2, <3>1, <3>2 DEF Good, Coexisted
  <2>6. QED BY <2>3, <2>4, <2>5 DEF GoodInv
<1>8. QED BY <1>2, <1>4, <1>5, <1>6, <1>7 DEF CoexistInv

LEMMA CoexistStep ==
  ASSUME BaseInv, CoexistInv, [Next]_vars
  PROVE  CoexistInv'
<1>1. ASSUME NEW p \in Exporter, Run(p) PROVE CoexistInv'
  <2>1. TypeOK BY DEF BaseInv
  <2>2. SeenInv'
    BY <1>1, MemoryFrame DEF CoexistInv, SeenInv
  <2>3. QED
    BY <1>1, <2>1, <2>2, SnapKept, WindowKept, EnvelopeKept, GoodKept DEF CoexistInv
<1>2. CASE UNCHANGED vars
  BY <1>2 DEF vars, CoexistInv, SeenInv, SnapInv, WindowInv, AfterInstant, Window, Pinned, Again,
              EnvelopeInv, Envelope, GoodInv, Good, Coexisted
<1>3. QED BY <1>1, <1>2, CoexistOther DEF Next

LEMMA CoexistInit ==
  ASSUME Init
  PROVE  CoexistInv
<1>1. version = [f \in File |-> 0] /\ seen = {version} BY DEF Init
<1>2. SeenInv BY <1>1 DEF SeenInv
<1>3. SnapInv
  <2>1. \A p \in Exporter, r \in Role : snap[p][r] = 0 BY DEF Init
  <2>2. QED BY <1>1, <2>1, FileOfType DEF SnapInv
<1>4. \A p \in Exporter : pc[p] \in {"captureOwn", "checkOutput"} BY DEF Init
<1>5. WindowInv /\ EnvelopeInv
  BY <1>4 DEF WindowInv, AfterInstant, EnvelopeInv, RecheckSteps
<1>6. \A k \in Kind, a \in BOOLEAN : Coexisted(Earlier(k, a))
  <2>1. \A k \in Kind : \A r \in ReadBy(k) : r \in Role /\ FileOf(k, r) \in File
    BY DEF Kind, ReadBy, Role, Input, FileOf, File
  <2>2. \A r \in Rereadable : r \in File BY DEF Rereadable, File
  <2>3. QED BY <1>1, <2>1, <2>2 DEF Coexisted, Earlier
<1>7. output \in Export => Good(output)
  <2>1. Absent \notin Export /\ Foreign \notin Export BY MarkerAssumption
  <2>2. CASE output = Earlier("legacy", FALSE)
    <3>1. ~output.allowed BY <2>2 DEF Earlier
    <3>2. QED BY <1>6, <2>2, <3>1 DEF Good, Kind
  <2>3. CASE output = Earlier("verified", Verdict("verified", [r \in Role |-> 0]) = "allowed")
    <3>1. /\ output.by = "verified" /\ output.inputs = [r \in Role |-> 0]
          /\ output.allowed = (Verdict("verified", [r \in Role |-> 0]) = "allowed")
      BY <2>3, Zenon DEF Earlier
    <3>2. (Verdict("verified", [r \in Role |-> 0]) = "allowed") \in BOOLEAN OBVIOUS
    <3>3. Coexisted(output) BY <1>6, <2>3, <3>2 DEF Kind
    <3>4. QED BY <3>1, <3>3 DEF Good
  <2>4. QED BY <2>1, <2>2, <2>3 DEF Init
<1>8. GoodInv
  <2>1. \A p \in Exporter : prior[p] \notin Export BY MarkerAssumption DEF Init
  <2>2. QED BY <1>4, <1>7, <2>1 DEF GoodInv, WriteStep, AfterWrite
<1>9. QED BY <1>2, <1>3, <1>5, <1>8 DEF CoexistInv

LEMMA CoexistAlways == Spec => [](BaseInv /\ CoexistInv)
<1>1. Init => BaseInv /\ CoexistInv BY BaseInit, CoexistInit
<1>2. BaseInv /\ CoexistInv /\ [Next]_vars => (BaseInv /\ CoexistInv)' BY BaseStep, CoexistStep
<1>3. QED BY <1>1, <1>2, PTL DEF Spec

\* Whatever exporters, edits, failures and kills interleave, an artifact at the
\* output path was computed from inputs that were on disk together.
THEOREM InputsCoexisted == Spec => []PublishedInputsCoexisted
<1>1. BaseInv /\ CoexistInv => PublishedInputsCoexisted
  BY DEF CoexistInv, GoodInv, Good, PublishedInputsCoexisted
<1>2. QED BY <1>1, CoexistAlways, PTL

\* A handoff at the output path is the official exporter's, and one instant accounts for the
\* inputs of its payload, the sources of its envelope and the verdict.
THEOREM HandoffEarned == Spec => []HandoffIsEarned
<1>1. BaseInv /\ CoexistInv => HandoffIsEarned
  <2> SUFFICES ASSUME BaseInv, CoexistInv, output \in Export, output.allowed
               PROVE  /\ output.by = "verified"
                      /\ \E v \in seen :
                           /\ output.inputs = [r \in Role |-> v[FileOf("verified", r)]]
                           /\ output.source = [r \in Rereadable |-> v[r]]
                           /\ Verdict("verified", output.inputs) = "allowed"
    BY DEF HandoffIsEarned
  <2>1. /\ Coexisted(output) /\ output.by = "verified"
        /\ Verdict("verified", output.inputs) = "allowed"
    BY DEF CoexistInv, GoodInv, Good
  <2>2. PICK v \in seen : /\ \A r \in Role : output.inputs[r] = v[FileOf("verified", r)]
                          /\ \A r \in Rereadable : output.source[r] = v[r]
    BY <2>1 DEF Coexisted, ReadBy
  <2>3. output.inputs \in [Role -> Nat] /\ output.source \in [Rereadable -> Nat]
    BY DEF Export
  <2>4. output.inputs = [r \in Role |-> v[FileOf("verified", r)]]
    BY <2>2, <2>3
  <2>5. output.source = [r \in Rereadable |-> v[r]]
    BY <2>2, <2>3
  <2> QED BY <2>1, <2>4, <2>5
<1>2. QED BY <1>1, CoexistAlways, PTL
==============================================================================
