----------------------- MODULE ExportTransactionProofs -----------------------
(***************************************************************************)
(* Proofs about ExportTransaction for any number of exporters, edits,      *)
(* failures and outside writes.                                            *)
(***************************************************************************)
EXTENDS ExportTransaction, TLAPS

PcOK == pc \in [Exporter -> Step] /\ (\A p \in Legacy : pc[p] \notin OfficialStep)
ResultOK ==
  result \in [Exporter -> [status : Status, written : BOOLEAN, state : ArtifactState,
                           diags : SUBSET Diag]]

\* Moving on, refusing and reporting keep the types of pc and result.
LEMMA AdvanceType ==
  ASSUME NEW p \in Exporter, PcOK, pc[p] \in BeforeWrite, Advance(p)
  PROVE  PcOK' /\ result' = result
BY KindAssumption
   DEF PcOK, Advance, Go, Successor, BeforeWrite, OfficialStep, Step, WriteStep, AfterWrite,
       VerifiedOrder, LegacyOrder, Exporter

LEMMA GoType ==
  ASSUME NEW p \in Exporter, NEW s \in Step, PcOK, Go(p, s),
         p \in Verified \/ s \notin OfficialStep
  PROVE  PcOK'
BY KindAssumption DEF PcOK, Go, Exporter

LEMMA ReportType ==
  ASSUME NEW p \in Exporter, NEW status \in Status, NEW written \in BOOLEAN,
         NEW state \in ArtifactState, NEW diags \in SUBSET Diag,
         PcOK, ResultOK, Report(p, status, written, state, diags)
  PROVE  PcOK' /\ ResultOK'
<1>1. Go(p, "done") BY DEF Report
<1>2. PcOK' BY <1>1, GoType DEF Step, OfficialStep
<1>3. ResultOK' BY DEF Report, ResultOK
<1>4. QED BY <1>2, <1>3

LEMMA RefuseType ==
  ASSUME NEW p \in Exporter, NEW d \in Diag, PcOK, ResultOK, Refuse(p, d)
  PROVE  PcOK' /\ ResultOK'
<1> DEFINE state == IF p \in Verified THEN "unreported" ELSE "not_written"
<1>1. state \in ArtifactState BY DEF ArtifactState
<1>2. "invalid" \in Status /\ {d} \in SUBSET Diag BY DEF Status
<1>3. Report(p, "invalid", FALSE, state, {d}) BY DEF Refuse
<1> HIDE DEF state
<1>4. QED BY <1>1, <1>2, <1>3, ReportType

LEMMA FaultType ==
  ASSUME budget \in [edits : Nat, faults : Nat, outside : Nat], Fault
  PROVE  budget' \in [edits : Nat, faults : Nat, outside : Nat]
BY DEF Fault

LEMMA LandType ==
  ASSUME NEW c \in Content, Land(c)
  PROVE  output' \in Content /\ late' \subseteq Exporter
BY DEF Land

BudgetOK == budget \in [edits : Nat, faults : Nat, outside : Nat]

------------------------------------------------------------------------------
\* Each step of an exporter keeps the types.
LEMMA CaptureTyped ==
  ASSUME NEW p \in Exporter, NEW r \in Input, TypeOK, Capture(p, r)
  PROVE  TypeOK'
<1>1. PcOK /\ ResultOK BY DEF TypeOK, PcOK, ResultOK
<1>2. pc[p] \in BeforeWrite BY DEF Capture, CaptureStep, Input, BeforeWrite
<1>3. PcOK' /\ ResultOK'
  BY <1>1, <1>2, AdvanceType, RefuseType DEF Capture, Diag, ResultOK
<1>4. snap' \in [Exporter -> [Role -> Nat]]
  <2>1. FileOf(KindOf(p), r) \in File /\ r \in Role
    BY DEF FileOf, File, Input, Role
  <2>2. version[FileOf(KindOf(p), r)] \in Nat BY <2>1 DEF TypeOK
  <2>3. snap[p] \in [Role -> Nat] BY DEF TypeOK
  <2>4. [snap[p] EXCEPT ![r] = version[FileOf(KindOf(p), r)]] \in [Role -> Nat]
    BY <2>1, <2>2, <2>3
  <2>5. QED BY <2>4 DEF Capture, TypeOK
<1>5. QED
  BY <1>3, <1>4 DEF Capture, TypeOK, PcOK, ResultOK, inputs, disk, fixed

LEMMA CheckOutputTyped ==
  ASSUME NEW p \in Exporter, TypeOK, CheckOutput(p)
  PROVE  TypeOK'
<1>1. PcOK /\ ResultOK BY DEF TypeOK, PcOK, ResultOK
<1>2. pc[p] \in BeforeWrite BY DEF CheckOutput, BeforeWrite
<1>3. PcOK' /\ ResultOK'
  BY <1>1, <1>2, AdvanceType, RefuseType DEF CheckOutput, Diag, ResultOK
<1>4. QED
  BY <1>3 DEF CheckOutput, TypeOK, PcOK, ResultOK, inputs, disk, fixed, memory

LEMMA InspectPriorTyped ==
  ASSUME NEW p \in Exporter, TypeOK, InspectPrior(p)
  PROVE  TypeOK'
<1>1. PcOK /\ ResultOK /\ BudgetOK BY DEF TypeOK, PcOK, ResultOK, BudgetOK
<1>2. pc[p] \in BeforeWrite /\ p \in Verified
  BY KindAssumption DEF InspectPrior, BeforeWrite, TypeOK, OfficialStep, Exporter
<1>3. PcOK' /\ ResultOK'
  BY <1>1, <1>2, AdvanceType, RefuseType, GoType
     DEF InspectPrior, Diag, ResultOK, Step, BeforeWrite
<1>4. QED BY <1>1, <1>3 DEF InspectPrior, TypeOK, PcOK, ResultOK, BudgetOK, inputs, disk, fixed, memory

LEMMA ReadPriorTyped ==
  ASSUME NEW p \in Exporter, TypeOK, ReadPrior(p)
  PROVE  TypeOK'
<1>1. PcOK /\ ResultOK /\ BudgetOK BY DEF TypeOK, PcOK, ResultOK, BudgetOK
<1>2. pc[p] \in BeforeWrite BY DEF ReadPrior, BeforeWrite
<1>3. "assembly_failed" \in Diag /\ "refused" \in Diag BY DEF Diag
<1>4. PcOK' /\ ResultOK'
  BY <1>1, <1>2, <1>3, AdvanceType, RefuseType DEF ReadPrior, ResultOK
<1>5. BudgetOK' BY <1>1, FaultType DEF ReadPrior, BudgetOK, NoFault
<1>6. prior' \in [Exporter -> Content] BY DEF ReadPrior, TypeOK
<1>7. QED BY <1>4, <1>5, <1>6 DEF ReadPrior, TypeOK, PcOK, ResultOK, BudgetOK, inputs, disk, fixed, memory

LEMMA AssembleTyped ==
  ASSUME NEW p \in Exporter, TypeOK, Assemble(p)
  PROVE  TypeOK'
<1>1. PcOK /\ ResultOK /\ BudgetOK BY DEF TypeOK, PcOK, ResultOK, BudgetOK
<1>2. pc[p] \in BeforeWrite BY DEF Assemble, BeforeWrite
<1>3. PcOK' /\ ResultOK'
  BY <1>1, <1>2, AdvanceType, RefuseType DEF Assemble, Diag, ResultOK
<1>4. snap' \in [Exporter -> [Role -> Nat]]
  <2>1. version["artifact"] \in Nat /\ "artifact" \in Role BY DEF TypeOK, File, Role
  <2>2. snap[p] \in [Role -> Nat] BY DEF TypeOK
  <2>3. [snap[p] EXCEPT !["artifact"] = version["artifact"]] \in [Role -> Nat]
    BY <2>1, <2>2
  <2>4. QED BY <2>3 DEF Assemble, TypeOK
<1>5. QED BY <1>1, <1>3, <1>4 DEF Assemble, TypeOK, PcOK, ResultOK, BudgetOK, inputs, disk, fixed, memory

LEMMA RecaptureTyped ==
  ASSUME NEW p \in Exporter, NEW r \in Rereadable, TypeOK, Recapture(p, r)
  PROVE  TypeOK'
<1>1. PcOK /\ ResultOK /\ BudgetOK BY DEF TypeOK, PcOK, ResultOK, BudgetOK
<1>2. pc[p] \in BeforeWrite BY DEF Recapture, RecaptureStep, Rereadable, BeforeWrite
<1>3. PcOK' /\ ResultOK'
  BY <1>1, <1>2, AdvanceType, RefuseType DEF Recapture, Diag, ResultOK
<1>4. recap' \in [Exporter -> [Rereadable -> Nat]]
  <2>1. version[r] \in Nat BY DEF TypeOK, File, Rereadable
  <2>2. recap[p] \in [Rereadable -> Nat] BY DEF TypeOK
  <2>3. [recap[p] EXCEPT ![r] = version[r]] \in [Rereadable -> Nat] BY <2>1, <2>2
  <2>4. QED BY <2>3 DEF Recapture, TypeOK
<1>5. QED BY <1>1, <1>3, <1>4 DEF Recapture, TypeOK, PcOK, ResultOK, BudgetOK, inputs, disk, fixed, memory

LEMMA ReplayTyped ==
  ASSUME NEW p \in Exporter, TypeOK, Replay(p)
  PROVE  TypeOK'
<1>1. PcOK /\ ResultOK /\ BudgetOK BY DEF TypeOK, PcOK, ResultOK, BudgetOK
<1>2. pc[p] \in BeforeWrite BY DEF Replay, BeforeWrite
<1>3. PcOK' /\ ResultOK'
  BY <1>1, <1>2, AdvanceType, RefuseType DEF Replay, Diag, ResultOK
<1>4. BudgetOK' BY <1>1, FaultType DEF Replay, BudgetOK, NoFault
<1>5. scratch' \in [Exporter -> BOOLEAN] BY DEF Replay, TypeOK
<1>6. QED BY <1>3, <1>4, <1>5 DEF Replay, TypeOK, PcOK, ResultOK, BudgetOK, inputs, disk, fixed, memory

LEMMA EnvelopeType ==
  ASSUME NEW p \in Exporter, TypeOK
  PROVE  Envelope(p) \in Export
<1>1. snap[p] \in [Role -> Nat] /\ recap[p] \in [Rereadable -> Nat] BY DEF TypeOK
<1>2. [r \in Rereadable |-> snap[p][r]] \in [Rereadable -> Nat]
  BY <1>1 DEF Rereadable, Role, Input
<1>3. KindOf(p) \in Kind BY DEF KindOf, Kind
<1>4. QED BY <1>1, <1>2, <1>3 DEF Envelope, Export

LEMMA BuildTyped ==
  ASSUME NEW p \in Exporter, TypeOK, Build(p)
  PROVE  TypeOK'
<1>1. PcOK /\ ResultOK /\ BudgetOK BY DEF TypeOK, PcOK, ResultOK, BudgetOK
<1>2. pc[p] \in BeforeWrite BY DEF Build, BeforeWrite
<1>3. PcOK' /\ ResultOK'
  BY <1>1, <1>2, AdvanceType, RefuseType DEF Build, Diag, ResultOK
<1>4. BudgetOK' BY <1>1, FaultType DEF Build, BudgetOK, NoFault
<1>5. scratch' \in [Exporter -> BOOLEAN] BY DEF Build, SnapshotsRemoved, TypeOK
<1>6. cand' \in [Exporter -> Export \cup {Absent}] BY EnvelopeType DEF Build, TypeOK
<1>7. QED BY <1>3, <1>4, <1>5, <1>6 DEF Build, TypeOK, PcOK, ResultOK, BudgetOK, inputs, disk, fixed, memory

LEMMA RecheckTyped ==
  ASSUME NEW p \in Exporter, NEW r \in Input, TypeOK, Recheck(p, r)
  PROVE  TypeOK'
<1>1. PcOK /\ ResultOK /\ BudgetOK BY DEF TypeOK, PcOK, ResultOK, BudgetOK
<1>2. pc[p] \in BeforeWrite BY DEF Recheck, RecheckStep, Input, BeforeWrite
<1>3. PcOK' /\ ResultOK'
  BY <1>1, <1>2, AdvanceType, RefuseType DEF Recheck, Diag, ResultOK
<1>4. BudgetOK' BY <1>1, FaultType DEF Recheck, BudgetOK, NoFault
<1>5. QED BY <1>3, <1>4 DEF Recheck, TypeOK, PcOK, ResultOK, BudgetOK, inputs, disk, fixed, memory

------------------------------------------------------------------------------
\* The atomic write puts into place what it was given.
WriteInv == \A p \in Exporter : pc[p] = "replace" => temp[p] = Bytes(p)

LEMMA BytesType ==
  ASSUME NEW p \in Exporter, TypeOK
  PROVE  Bytes(p) \in Content
BY DEF Bytes, TypeOK, Content

LEMMA ReraiseType ==
  ASSUME NEW p \in Exporter, TypeOK, Restoring(p), Reraise(p)
  PROVE  PcOK' /\ ResultOK'
<1>1. PcOK /\ ResultOK BY DEF TypeOK, PcOK, ResultOK
<1>2. {cause[p]} \in SUBSET Diag BY DEF TypeOK, Restoring, Rejection, Diag
<1>3. {} \in SUBSET Diag /\ {"assembly_failed"} \in SUBSET Diag BY DEF Diag
<1>4. {"invalid", "raised"} \subseteq Status /\ {"unreported", "none"} \subseteq ArtifactState
  BY DEF Status, ArtifactState
<1>5. QED BY <1>1, <1>2, <1>3, <1>4, ReportType DEF Reraise

LEMMA StageTyped ==
  ASSUME NEW p \in Exporter, TypeOK, Stage(p)
  PROVE  TypeOK'
<1>1. PcOK /\ ResultOK /\ BudgetOK BY DEF TypeOK, PcOK, ResultOK, BudgetOK
<1>2. PcOK' BY <1>1, GoType DEF Stage, Step, WriteStep, OfficialStep
<1>3. temp' \in [Exporter -> Content \cup {Partial}] BY DEF Stage, TypeOK
<1>4. QED BY <1>1, <1>2, <1>3 DEF Stage, TypeOK, PcOK, ResultOK, BudgetOK, inputs, disk, fixed, memory

LEMMA FillTyped ==
  ASSUME NEW p \in Exporter, TypeOK, Fill(p)
  PROVE  TypeOK'
<1>1. PcOK /\ ResultOK /\ BudgetOK BY DEF TypeOK, PcOK, ResultOK, BudgetOK
<1>2. PcOK' BY <1>1, GoType DEF Fill, Step, WriteStep, OfficialStep
<1>3. temp' \in [Exporter -> Content \cup {Partial}] BY BytesType DEF Fill, TypeOK
<1>4. QED BY <1>1, <1>2, <1>3 DEF Fill, TypeOK, PcOK, ResultOK, BudgetOK, inputs, disk, fixed, memory

LEMMA ReplaceTyped ==
  ASSUME NEW p \in Exporter, WriteInv, TypeOK, Replace(p)
  PROVE  TypeOK'
<1>1. PcOK /\ ResultOK /\ BudgetOK BY DEF TypeOK, PcOK, ResultOK, BudgetOK
<1>2. PcOK' /\ ResultOK'
  <2>1. CASE ~Restoring(p) /\ Go(p, "reread") /\ UNCHANGED result
    BY <1>1, <2>1, GoType DEF Step, AfterWrite, OfficialStep, ResultOK
  <2>2. CASE Restoring(p) /\ p \in Verified /\ Reraise(p) BY <2>2, ReraiseType
  <2>3. CASE Restoring(p) /\ p \in Legacy /\ Go(p, "verify") /\ UNCHANGED result
    BY <1>1, <2>3, GoType DEF Step, AfterWrite, OfficialStep, ResultOK
  <2>4. QED BY <2>1, <2>2, <2>3 DEF Replace
<1>3. temp[p] \in Content BY BytesType DEF Replace, WriteInv
<1>4. output' \in Content /\ late' \subseteq Exporter BY <1>3, LandType DEF Replace
<1>5. temp' \in [Exporter -> Content \cup {Partial}] BY DEF Replace, TypeOK, Content
<1>6. QED BY <1>2, <1>4, <1>5 DEF Replace, TypeOK, PcOK, ResultOK, BudgetOK, inputs, disk, fixed, memory

LEMMA WriteFailsTyped ==
  ASSUME NEW p \in Exporter, TypeOK, WriteFails(p)
  PROVE  TypeOK'
<1>1. PcOK /\ ResultOK /\ BudgetOK BY DEF TypeOK, PcOK, ResultOK, BudgetOK
<1>2. PcOK' /\ ResultOK'
  <2>1. CASE Refuse(p, "write_failed") BY <1>1, <2>1, RefuseType DEF Diag
  <2>2. CASE Go(p, "inspect") /\ UNCHANGED result
    BY <1>1, <2>2, GoType DEF Step, AfterWrite, OfficialStep, ResultOK
  <2>3. QED BY <2>1, <2>2 DEF WriteFails
<1>3. BudgetOK' BY <1>1 DEF WriteFails, BudgetOK
<1>4. temp' \in [Exporter -> Content \cup {Partial}] BY DEF WriteFails, TypeOK, Content
<1>5. QED BY <1>2, <1>3, <1>4 DEF WriteFails, TypeOK, PcOK, ResultOK, BudgetOK, inputs, disk, fixed, memory

LEMMA RejectType ==
  ASSUME NEW p \in Exporter, NEW why \in Rejection, TypeOK, Reject(p, why)
  PROVE  PcOK' /\ result' = result /\ cause' \in [Exporter -> Rejection]
<1>1. PcOK BY DEF TypeOK, PcOK
<1>2. PcOK' BY <1>1, GoType DEF Reject, Step, AfterWrite, OfficialStep
<1>3. QED BY <1>2 DEF Reject, TypeOK

LEMMA RereadTyped ==
  ASSUME NEW p \in Exporter, TypeOK, Reread(p)
  PROVE  TypeOK'
<1>1. PcOK /\ ResultOK /\ BudgetOK BY DEF TypeOK, PcOK, ResultOK, BudgetOK
<1>2. PcOK' /\ ResultOK' /\ cause' \in [Exporter -> Rejection]
  <2>1. CASE Go(p, "reload") /\ UNCHANGED <<cause, result>>
    BY <1>1, <2>1, GoType DEF Step, AfterWrite, OfficialStep, ResultOK, TypeOK
  <2>2. CASE Reject(p, "unreadable") BY <1>1, <2>2, RejectType DEF Rejection, ResultOK
  <2>3. CASE Reject(p, "mismatch") BY <1>1, <2>3, RejectType DEF Rejection, ResultOK
  <2>4. QED BY <2>1, <2>2, <2>3 DEF Reread
<1>3. BudgetOK' BY <1>1, FaultType DEF Reread, BudgetOK, NoFault
<1>4. QED BY <1>2, <1>3 DEF Reread, TypeOK, PcOK, ResultOK, BudgetOK, inputs, disk, fixed, memory

LEMMA ReloadTyped ==
  ASSUME NEW p \in Exporter, TypeOK, Reload(p)
  PROVE  TypeOK'
<1>1. PcOK /\ ResultOK /\ BudgetOK BY DEF TypeOK, PcOK, ResultOK, BudgetOK
<1>2. PcOK' /\ ResultOK' /\ cause' \in [Exporter -> Rejection]
  <2>1. CASE Report(p, "successful", TRUE, "published", {}) /\ UNCHANGED cause
    <3>1. {} \in SUBSET Diag OBVIOUS
    <3>2. "successful" \in Status /\ "published" \in ArtifactState BY DEF Status, ArtifactState
    <3>3. cause' \in [Exporter -> Rejection] BY <2>1 DEF TypeOK
    <3>4. QED BY <1>1, <2>1, <3>1, <3>2, <3>3, ReportType
  <2>2. CASE Reject(p, "unreadable") BY <1>1, <2>2, RejectType DEF Rejection, ResultOK
  <2>3. CASE Reject(p, "unrecognized") BY <1>1, <2>3, RejectType DEF Rejection, ResultOK
  <2>4. QED BY <2>1, <2>2, <2>3 DEF Reload
<1>3. BudgetOK' BY <1>1, FaultType DEF Reload, BudgetOK, NoFault
<1>4. QED BY <1>2, <1>3 DEF Reload, TypeOK, PcOK, ResultOK, BudgetOK, inputs, disk, fixed, memory
LEMMA RestoringCause ==
  ASSUME NEW p \in Exporter, TypeOK
  PROVE  {cause[p], "cleanup_failed"} \in SUBSET Diag <=> Restoring(p)
BY DEF TypeOK, Restoring, Rejection, Diag

\* A rollback only follows a rejection.
CauseInv ==
  \A p \in Exporter : pc[p] \in {"rollback", "verify", "inspect"} => Restoring(p)

LEMMA UnlinkTyped ==
  ASSUME NEW p \in Exporter, CauseInv, TypeOK, Unlink(p)
  PROVE  TypeOK'
<1>1. PcOK /\ ResultOK /\ BudgetOK /\ Restoring(p)
  BY DEF TypeOK, PcOK, ResultOK, BudgetOK, CauseInv, Unlink
<1>2. PcOK' /\ ResultOK'
  <2>1. CASE Reraise(p) BY <1>1, <2>1, ReraiseType
  <2>2. CASE Report(p, "invalid", FALSE, "removed", {cause[p]})
    <3>1. {cause[p]} \in SUBSET Diag BY <1>1 DEF TypeOK, Restoring, Rejection, Diag
    <3>2. "invalid" \in Status /\ "removed" \in ArtifactState BY DEF Status, ArtifactState
    <3>3. QED BY <1>1, <2>2, <3>1, <3>2, ReportType
  <2>3. QED BY <2>1, <2>2 DEF Unlink
<1>3. output' \in Content /\ late' \subseteq Exporter BY LandType DEF Unlink, Content
<1>4. QED BY <1>1, <1>2, <1>3 DEF Unlink, TypeOK, PcOK, ResultOK, BudgetOK, inputs, fixed, memory

LEMMA UnlinkFailsTyped ==
  ASSUME NEW p \in Exporter, TypeOK, UnlinkFails(p)
  PROVE  TypeOK'
<1>1. PcOK /\ ResultOK /\ BudgetOK BY DEF TypeOK, PcOK, ResultOK, BudgetOK
<1>2. PcOK' /\ ResultOK'
  <2>1. CASE Refuse(p, "assembly_failed") BY <1>1, <2>1, RefuseType DEF Diag
  <2>2. CASE Go(p, "inspect") /\ UNCHANGED result
    BY <1>1, <2>2, GoType DEF Step, AfterWrite, OfficialStep, ResultOK
  <2>3. QED BY <2>1, <2>2 DEF UnlinkFails
<1>3. BudgetOK' BY <1>1, FaultType DEF UnlinkFails, BudgetOK
<1>4. output' \in Content /\ late' \subseteq Exporter
  BY LandType DEF UnlinkFails, Content, TypeOK
<1>5. QED BY <1>2, <1>3, <1>4 DEF UnlinkFails, TypeOK, PcOK, ResultOK, BudgetOK, inputs, fixed, memory

LEMMA RestoreTyped ==
  ASSUME NEW p \in Exporter, TypeOK, Restore(p)
  PROVE  TypeOK'
<1>1. PcOK /\ ResultOK /\ BudgetOK BY DEF TypeOK, PcOK, ResultOK, BudgetOK
<1>2. PcOK' BY <1>1, GoType DEF Restore, Step, WriteStep, OfficialStep
<1>3. QED BY <1>1, <1>2 DEF Restore, TypeOK, PcOK, ResultOK, BudgetOK, inputs, disk, fixed, memory

LEMMA VerifyRestoredTyped ==
  ASSUME NEW p \in Exporter, CauseInv, TypeOK, VerifyRestored(p)
  PROVE  TypeOK'
<1>1. PcOK /\ ResultOK /\ BudgetOK /\ Restoring(p)
  BY DEF TypeOK, PcOK, ResultOK, BudgetOK, CauseInv, VerifyRestored
<1>2. PcOK' /\ ResultOK'
  <2>1. CASE Report(p, "invalid", FALSE, "restored", {cause[p]})
    <3>1. {cause[p]} \in SUBSET Diag BY <1>1 DEF TypeOK, Restoring, Rejection, Diag
    <3>2. "invalid" \in Status /\ "restored" \in ArtifactState BY DEF Status, ArtifactState
    <3>3. QED BY <1>1, <2>1, <3>1, <3>2, ReportType
  <2>2. CASE Go(p, "inspect") /\ UNCHANGED result
    BY <1>1, <2>2, GoType DEF Step, AfterWrite, OfficialStep, ResultOK
  <2>3. QED BY <2>1, <2>2 DEF VerifyRestored
<1>3. BudgetOK' BY <1>1, FaultType DEF VerifyRestored, BudgetOK, NoFault
<1>4. QED BY <1>2, <1>3 DEF VerifyRestored, TypeOK, PcOK, ResultOK, BudgetOK, inputs, disk, fixed, memory

LEMMA InspectTyped ==
  ASSUME NEW p \in Exporter, CauseInv, TypeOK, Inspect(p)
  PROVE  TypeOK'
<1>1. PcOK /\ ResultOK /\ BudgetOK /\ Restoring(p)
  BY DEF TypeOK, PcOK, ResultOK, BudgetOK, CauseInv, Inspect
<1>2. PcOK' /\ ResultOK'
  <2>1. {cause[p], "cleanup_failed"} \in SUBSET Diag BY <1>1, RestoringCause
  <2>2. PICK written \in BOOLEAN, state \in {"removed", "restored", "persisted", "unconfirmed"} :
          ReportInspected(p, written, state)
    BY DEF Inspect
  <2>3. state \in ArtifactState /\ "invalid" \in Status BY DEF ArtifactState, Status
  <2>4. QED BY <1>1, <2>1, <2>2, <2>3, ReportType DEF ReportInspected
<1>3. BudgetOK' BY <1>1, FaultType DEF Inspect, BudgetOK, NoFault
<1>4. QED BY <1>2, <1>3 DEF Inspect, TypeOK, PcOK, ResultOK, BudgetOK, inputs, disk, fixed, memory

\* Steps that are not an exporter's.
LEMMA OtherStepsTyped ==
  ASSUME TypeOK, (\E p \in Exporter : Crash(p)) \/ (\E f \in File : Edit(f)) \/ Outside
  PROVE  TypeOK'
<1>1. CASE \E p \in Exporter : Crash(p)
  BY <1>1 DEF Crash, TypeOK, inputs, disk, memory
<1>2. ASSUME NEW f \in File, Edit(f) PROVE TypeOK'
  <2>1. version' \in [File -> Nat] BY <1>2 DEF Edit, TypeOK
  <2>2. seen' \subseteq [File -> Nat] BY <1>2, <2>1 DEF Edit, TypeOK
  <2>3. BudgetOK'
    <3>1. BudgetOK BY DEF TypeOK, BudgetOK
    <3>2. QED BY <1>2, <3>1 DEF Edit, BudgetOK
  <2>4. QED BY <1>2, <2>1, <2>2, <2>3 DEF Edit, TypeOK, BudgetOK, disk, memory, fixed
<1>3. CASE Outside
  <2>1. PICK c \in {Absent, Foreign} : Land(c) BY <1>3 DEF Outside
  <2>2. output' \in Content /\ late' \subseteq Exporter BY <2>1, LandType DEF Content
  <2>3. BudgetOK'
    <3>1. BudgetOK BY DEF TypeOK, BudgetOK
    <3>2. QED BY <1>3, <3>1 DEF Outside, BudgetOK
  <2>4. QED BY <1>3, <2>2, <2>3 DEF Outside, TypeOK, BudgetOK, inputs, memory, fixed
<1>4. QED BY <1>1, <1>2, <1>3
------------------------------------------------------------------------------
\* A step of one exporter leaves what another one keeps for itself alone.
Own(p) == <<pc[p], snap[p], recap[p], cand[p], prior[p], temp[p], cause[p], overwrite[p]>>

LEMMA StepFrame ==
  ASSUME TypeOK, NEW p \in Exporter, Run(p), NEW q \in Exporter, q # p
  PROVE  Own(q)' = Own(q)
<1> USE DEF Go, Report, Refuse
<1>1. pc'[q] = pc[q]
  <2>1. \A s : pc[q] = [pc EXCEPT ![p] = s][q] BY DEF TypeOK
  <2>2. pc' = pc \/ \E s : pc' = [pc EXCEPT ![p] = s]
    BY DEF Run, Capture, CheckOutput, InspectPrior, ReadPrior, Assemble, Recapture, Replay,
           Build, Recheck, Stage, Fill, Replace, WriteFails, Reread, Reload, Unlink,
           UnlinkFails, Restore, VerifyRestored, Inspect, Advance, Reraise, Reject,
           ReportInspected
  <2>3. QED BY <2>1, <2>2
<1>2. snap'[q] = snap[q] /\ recap'[q] = recap[q]
  BY DEF TypeOK, Run, Capture, CheckOutput, InspectPrior, ReadPrior, Assemble, Recapture,
         Replay, Build, Recheck, Stage, Fill, Replace, WriteFails, Reread, Reload, Unlink,
         UnlinkFails, Restore, VerifyRestored, Inspect, memory
<1>3. cand'[q] = cand[q] /\ prior'[q] = prior[q]
  BY DEF TypeOK, Run, Capture, CheckOutput, InspectPrior, ReadPrior, Assemble, Recapture,
         Replay, Build, Recheck, Stage, Fill, Replace, WriteFails, Reread, Reload, Unlink,
         UnlinkFails, Restore, VerifyRestored, Inspect, memory
<1>4. temp'[q] = temp[q]
  BY DEF TypeOK, Run, Capture, CheckOutput, InspectPrior, ReadPrior, Assemble, Recapture,
         Replay, Build, Recheck, Stage, Fill, Replace, WriteFails, Reread, Reload, Unlink,
         UnlinkFails, Restore, VerifyRestored, Inspect, disk
<1>5. cause'[q] = cause[q]
  BY DEF TypeOK, Run, Capture, CheckOutput, InspectPrior, ReadPrior, Assemble, Recapture,
         Replay, Build, Recheck, Stage, Fill, Replace, WriteFails, Reread, Reload, Unlink,
         UnlinkFails, Restore, VerifyRestored, Inspect, Reject
<1>6. overwrite' = overwrite
  BY DEF Run, Capture, CheckOutput, InspectPrior, ReadPrior, Assemble, Recapture,
         Replay, Build, Recheck, Stage, Fill, Replace, WriteFails, Reread, Reload, Unlink,
         UnlinkFails, Restore, VerifyRestored, Inspect, fixed
<1>7. QED BY <1>1, <1>2, <1>3, <1>4, <1>5, <1>6 DEF Own

\* Kills, edits and outside writes leave what every exporter keeps alone.
LEMMA OtherFrame ==
  ASSUME (\E p \in Exporter : Crash(p)) \/ (\E f \in File : Edit(f)) \/ Outside,
         NEW q \in Exporter
  PROVE  Own(q)' = Own(q)
BY DEF Crash, Edit, Outside, Own, disk, memory, fixed
LEMMA AdvanceTarget ==
  ASSUME NEW p \in Exporter, PcOK, pc[p] \in BeforeWrite, Advance(p)
  PROVE  pc'[p] \in BeforeWrite \cup {"stage"}
BY KindAssumption
   DEF PcOK, Advance, Go, Successor, BeforeWrite, OfficialStep, Step, WriteStep, AfterWrite,
       VerifiedOrder, LegacyOrder, Exporter

\* Once the write has begun, only its steps and those after it are left.
LEMMA LaterSteps ==
  ASSUME NEW p \in Exporter, Run(p), pc[p] \notin BeforeWrite
  PROVE  \/ Stage(p) \/ Fill(p) \/ Replace(p) \/ WriteFails(p) \/ Reread(p) \/ Reload(p)
         \/ Unlink(p) \/ UnlinkFails(p) \/ Restore(p) \/ VerifyRestored(p) \/ Inspect(p)
<1>1. \A r \in Input : CaptureStep[r] \in BeforeWrite /\ RecheckStep[r] \in BeforeWrite
  BY DEF Input, CaptureStep, RecheckStep, BeforeWrite
<1>2. \A r \in Rereadable : RecaptureStep[r] \in BeforeWrite
  BY DEF Rereadable, RecaptureStep, BeforeWrite
<1>3. {"checkOutput", "inspectPrior", "readPrior", "assemble", "replay", "build"} \subseteq BeforeWrite
  BY DEF BeforeWrite
<1>4. QED
  BY <1>1, <1>2, <1>3
     DEF Run, Capture, CheckOutput, InspectPrior, ReadPrior, Assemble, Recapture, Replay, Build,
         Recheck

\* Before the write a step only advances or ends.
LEMMA BeforeWriteTarget ==
  ASSUME TypeOK, NEW p \in Exporter, Run(p), pc[p] \in BeforeWrite
  PROVE  pc'[p] \in BeforeWrite \cup {"stage", "done"} /\ cause' = cause
<1>1. PcOK /\ "assemble" \in BeforeWrite BY DEF TypeOK, PcOK, BeforeWrite
<1>2. pc[p] \notin WriteStep \cup AfterWrite BY DEF BeforeWrite, WriteStep, AfterWrite
<1>3. Advance(p) => pc'[p] \in BeforeWrite \cup {"stage"} BY <1>1, AdvanceTarget
<1>4. \A s : Go(p, s) => pc'[p] = s BY <1>1 DEF Go, PcOK
<1>5. \A d : Refuse(p, d) => pc'[p] = "done" BY <1>4 DEF Refuse, Report
<1>6. QED
  BY <1>1, <1>2, <1>3, <1>4, <1>5
     DEF Run, Capture, CheckOutput, InspectPrior, ReadPrior, Assemble, Recapture, Replay, Build,
         Recheck, Stage, Fill, Replace, WriteFails, Reread, Reload, Unlink, UnlinkFails, Restore,
         VerifyRestored, Inspect, WriteStep, AfterWrite

LEMMA CauseKept ==
  ASSUME TypeOK, CauseInv, NEW p \in Exporter, Run(p)
  PROVE  CauseInv'
<1> DEFINE Kept(q) == pc[q] \in {"rollback", "verify", "inspect"} => Restoring(q)
<1>1. ASSUME NEW q \in Exporter, q # p PROVE Kept(q)'
  BY <1>1, StepFrame DEF CauseInv, Own, Restoring
<1>2. Kept(p)'
  <2>1. CASE pc[p] \in BeforeWrite
    BY <2>1, BeforeWriteTarget DEF BeforeWrite
  <2>2. CASE pc[p] \in WriteStep
    <3>1. cause' = cause
      BY <2>2 DEF Run, Capture, CheckOutput, InspectPrior, ReadPrior, Assemble, Recapture,
         Replay, Build, Recheck, Stage, Fill, Replace, WriteFails, Reread, Reload, Unlink,
         UnlinkFails, Restore, VerifyRestored, Inspect, WriteStep
    <3>2. Restoring(p) \/ pc'[p] \in {"fill", "replace", "reread", "done"}
      <4>1. Stage(p) \/ Fill(p) \/ Replace(p) \/ WriteFails(p)
        BY <2>2, LaterSteps
           DEF Reread, Reload, Unlink, UnlinkFails, Restore, VerifyRestored, Inspect, WriteStep,
               BeforeWrite
      <4>2. \A t : Go(p, t) => pc'[p] = t BY DEF Go, TypeOK
      <4>3. QED
        BY <4>1, <4>2 DEF Stage, Fill, Replace, WriteFails, Refuse, Report
    <3>3. QED BY <3>1, <3>2 DEF Restoring
  <2>3. CASE pc[p] \in {"reread", "reload"}
    <3>1. \A why : Reject(p, why) => cause'[p] = why BY DEF Reject, TypeOK
    <3>2. pc'[p] \in {"reload", "done"} \/ \E why \in {"unreadable", "mismatch", "unrecognized"} :
             Reject(p, why)
      <4>1. Reread(p) \/ Reload(p)
        BY <2>3, LaterSteps
           DEF Stage, Fill, Replace, WriteFails, Unlink, UnlinkFails, Restore, VerifyRestored,
               Inspect, WriteStep, BeforeWrite
      <4>2. \A t : Go(p, t) => pc'[p] = t BY DEF Go, TypeOK
      <4>3. QED BY <4>1, <4>2 DEF Reread, Reload, Report
    <3>3. QED BY <3>1, <3>2 DEF Restoring
  <2>4. CASE pc[p] \in {"rollback", "verify", "inspect"}
    <3>1. cause' = cause
      BY <2>4 DEF Run, Capture, CheckOutput, InspectPrior, ReadPrior, Assemble, Recapture,
         Replay, Build, Recheck, Stage, Fill, Replace, WriteFails, Reread, Reload, Unlink,
         UnlinkFails, Restore, VerifyRestored, Inspect
    <3>2. QED BY <2>4, <3>1 DEF CauseInv, Restoring
  <2>5. CASE pc[p] = "done"
    BY <2>5 DEF Run, Capture, CheckOutput, InspectPrior, ReadPrior, Assemble, Recapture,
         Replay, Build, Recheck, Stage, Fill, Replace, WriteFails, Reread, Reload, Unlink,
         UnlinkFails, Restore, VerifyRestored, Inspect, CaptureStep, RecaptureStep, RecheckStep,
         Input, Rereadable, WriteStep
  <2>6. QED BY <2>1, <2>2, <2>3, <2>4, <2>5 DEF TypeOK, Step, AfterWrite, WriteStep
<1>3. QED BY <1>1, <1>2 DEF CauseInv

LEMMA WriteKept ==
  ASSUME TypeOK, WriteInv, NEW p \in Exporter, Run(p)
  PROVE  WriteInv'
<1> DEFINE Kept(q) == pc[q] = "replace" => temp[q] = Bytes(q)
<1>1. ASSUME NEW q \in Exporter, q # p PROVE Kept(q)'
  BY <1>1, StepFrame DEF WriteInv, Own, Restoring, Bytes
<1>2. Kept(p)'
  <2>1. CASE Fill(p) BY <2>1 DEF Fill, TypeOK, Bytes, Restoring, memory
  <2>2. CASE ~Fill(p)
    <3>1. CASE pc[p] \in BeforeWrite BY <3>1, BeforeWriteTarget DEF BeforeWrite
    <3>2. CASE pc[p] \notin BeforeWrite
      BY <2>2, <3>2 DEF TypeOK, Run, Capture, CheckOutput, InspectPrior, ReadPrior, Assemble,
         Recapture, Replay, Build, Recheck, Stage, Fill, Replace, WriteFails, Reread, Reload,
         Unlink, UnlinkFails, Restore, VerifyRestored, Inspect, Go, Refuse, Report, Reject,
         Reraise, ReportInspected, CaptureStep, RecaptureStep, RecheckStep, Input, Rereadable,
         BeforeWrite
    <3>3. QED BY <3>1, <3>2
  <2>3. QED BY <2>1, <2>2
<1>3. QED BY <1>1, <1>2 DEF WriteInv

LEMMA RunTyped ==
  ASSUME TypeOK, CauseInv, WriteInv, NEW p \in Exporter, Run(p)
  PROVE  TypeOK'
BY CaptureTyped, CheckOutputTyped, InspectPriorTyped, ReadPriorTyped, AssembleTyped,
   RecaptureTyped, ReplayTyped, BuildTyped, RecheckTyped, StageTyped, FillTyped, ReplaceTyped,
   WriteFailsTyped, RereadTyped, ReloadTyped, UnlinkTyped, UnlinkFailsTyped, RestoreTyped,
   VerifyRestoredTyped, InspectTyped
   DEF Run

------------------------------------------------------------------------------
\* The invariant that is inductive: the types, that a restoration only follows
\* a rejection, and that the temporary file is complete when it is renamed.
BaseInv == TypeOK /\ CauseInv /\ WriteInv

LEMMA BaseInit == ASSUME Init PROVE BaseInv
<1>1. \A k \in Kind, a \in BOOLEAN : Earlier(k, a) \in Export
  BY DEF Earlier, Export
<1>2. output \in Content
  BY <1>1 DEF Init, Content, Kind
<1>3. pc \in [Exporter -> Step] /\ (\A p \in Legacy : pc[p] \notin OfficialStep)
  BY KindAssumption DEF Init, Exporter, Step, BeforeWrite, OfficialStep
<1>4. version \in [File -> Nat] /\ seen \subseteq [File -> Nat] BY DEF Init
<1>5. result \in [Exporter -> [status : Status, written : BOOLEAN, state : ArtifactState,
                               diags : SUBSET Diag]]
  <2>1. {} \in SUBSET Diag OBVIOUS
  <2>2. QED BY <2>1 DEF Init, Status, ArtifactState
<1>6. TypeOK
  BY <1>2, <1>3, <1>4, <1>5, BoundsAssumption DEF Init, TypeOK, Content, Rejection
<1>7. CauseInv /\ WriteInv BY DEF Init, CauseInv, WriteInv
<1>8. QED BY <1>6, <1>7 DEF BaseInv

LEMMA BaseStep == ASSUME BaseInv, [Next]_vars PROVE BaseInv'
<1>1. ASSUME NEW p \in Exporter, Run(p) PROVE BaseInv'
  BY <1>1, RunTyped, CauseKept, WriteKept DEF BaseInv
<1>2. ASSUME (\E p \in Exporter : Crash(p)) \/ (\E f \in File : Edit(f)) \/ Outside PROVE BaseInv'
  BY <1>2, OtherStepsTyped, OtherFrame
     DEF BaseInv, CauseInv, WriteInv, Own, Restoring, Bytes
<1>3. CASE UNCHANGED vars
  BY <1>3 DEF vars, BaseInv, TypeOK, CauseInv, WriteInv, Restoring, Bytes
<1>4. QED BY <1>1, <1>2, <1>3 DEF Next

\* Every state of the program has its type.
THEOREM TypeCorrect == Spec => []TypeOK
<1>1. Init => BaseInv BY BaseInit
<1>2. BaseInv /\ [Next]_vars => BaseInv' BY BaseStep
<1>3. BaseInv => TypeOK BY DEF BaseInv
<1>4. QED BY <1>1, <1>2, <1>3, PTL DEF Spec

\* However exporters race and wherever they are killed, the file at the output
\* path is never a partly written one.
THEOREM NeverTorn == Spec => []NoTornOutput
<1>1. TypeOK => NoTornOutput BY MarkerAssumption DEF TypeOK, NoTornOutput
<1>2. QED BY <1>1, TypeCorrect, PTL
------------------------------------------------------------------------------
(* What an exporter says when it ends, for any number of exporters, edits, *)
(* failures and outside writes.                                            *)

\* What else of an exporter another one leaves alone.
LEMMA ReportFrame ==
  ASSUME TypeOK, NEW p \in Exporter, Run(p), NEW q \in Exporter, q # p
  PROVE  scratch'[q] = scratch[q] /\ result'[q] = result[q]
<1>1. scratch'[q] = scratch[q]
  BY DEF TypeOK, Run, Capture, CheckOutput, InspectPrior, ReadPrior, Assemble, Recapture,
         Replay, Build, Recheck, Stage, Fill, Replace, WriteFails, Reread, Reload, Unlink,
         UnlinkFails, Restore, VerifyRestored, Inspect, SnapshotsRemoved
<1>2. result'[q] = result[q]
  <2>1. result' = result \/ \E x : result' = [result EXCEPT ![p] = x]
    BY DEF Run, Capture, CheckOutput, InspectPrior, ReadPrior, Assemble, Recapture, Replay,
           Build, Recheck, Stage, Fill, Replace, WriteFails, Reread, Reload, Unlink,
           UnlinkFails, Restore, VerifyRestored, Inspect, Advance, Reraise, Reject,
           ReportInspected, Report, Refuse
  <2>2. QED BY <2>1 DEF TypeOK
<1>3. QED BY <1>1, <1>2

\* The successor of a step, and what a report leaves.
LEMMA AfterAdvance ==
  ASSUME TypeOK, NEW p \in Exporter, Advance(p)
  PROVE  pc'[p] = Successor(p) /\ result' = result
BY DEF TypeOK, Advance, Go

LEMMA AfterReport ==
  ASSUME TypeOK, NEW p \in Exporter, NEW status, NEW written, NEW state, NEW diags,
         Report(p, status, written, state, diags)
  PROVE  pc'[p] = "done" /\ result'[p].diags = diags /\ result'[p].status = status
BY DEF TypeOK, Report, Go

LEMMA AfterRefuse ==
  ASSUME TypeOK, NEW p \in Exporter, NEW d, Refuse(p, d)
  PROVE  pc'[p] = "done" /\ result'[p].diags = {d} /\ result'[p].status = "invalid"
BY AfterReport DEF Refuse

------------------------------------------------------------------------------
(* Nothing is left without a word.                                         *)

\* The private snapshots exist only while the export is built, the temporary file only while
\* it is written or after that failed, unless the result tells of them.
Residue(p) ==
  /\ scratch[p] =>
       pc[p] = "build" \/ (pc[p] = "done" /\ "scratch_left" \in result[p].diags)
  /\ temp[p] # Absent =>
       \/ pc[p] \in {"fill", "replace", "inspect"}
       \/ pc[p] = "done" /\ result[p].diags \cap {"write_failed", "cleanup_failed"} # {}

LEMMA ResidueStep ==
  ASSUME TypeOK, NEW p \in Exporter, Residue(p), Run(p)
  PROVE  Residue(p)'
<1>0. /\ temp \in [Exporter -> Content \cup {Partial}] /\ scratch \in [Exporter -> BOOLEAN]
      /\ pc \in [Exporter -> Step]
  BY DEF TypeOK
<1>1. CASE /\ UNCHANGED <<temp, scratch>>
           /\ pc[p] \notin {"build", "done", "fill", "replace", "inspect"}
  BY <1>1 DEF Residue
<1>2. CASE Replay(p)
  <2>1. pc[p] = "replay" /\ UNCHANGED temp /\ temp[p] = Absent /\ ~scratch[p]
    BY <1>2 DEF Replay, disk, Residue
  <2>2. CASE Advance(p)
    <3>1. pc'[p] = "build"
      BY <2>1, <2>2, AfterAdvance DEF Successor, VerifiedOrder, LegacyOrder
    <3> QED BY <2>1, <3>1 DEF Residue
  <2>3. CASE UNCHANGED scratch
    BY <2>1, <2>3 DEF Residue
  <2> QED BY <1>2, <2>2, <2>3 DEF Replay
<1>3. CASE Build(p)
  <2>1. pc[p] = "build" /\ UNCHANGED temp /\ temp[p] = Absent
    BY <1>3 DEF Build, disk, Residue
  <2>2. CASE SnapshotsRemoved(p)
    BY <1>0, <2>1, <2>2 DEF SnapshotsRemoved, Residue
  <2>3. CASE Refuse(p, "scratch_left")
    BY <2>1, <2>3, AfterRefuse DEF Residue
  <2> QED BY <1>3, <2>2, <2>3 DEF Build
<1>4. CASE Stage(p) \/ Fill(p)
  BY <1>0, <1>4 DEF Stage, Fill, Go, Residue
<1>5. CASE Replace(p)
  <2>1. temp'[p] = Absent /\ ~scratch'[p]
    BY <1>0, <1>5 DEF Replace, Residue
  <2> QED BY <2>1 DEF Residue
<1>6. CASE WriteFails(p)
  <2>1. UNCHANGED scratch /\ ~scratch[p]
    BY <1>6 DEF WriteFails, WriteStep, Residue
  <2>2. CASE Refuse(p, "write_failed")
    BY <2>1, <2>2, AfterRefuse DEF Residue
  <2>3. CASE Go(p, "inspect")
    BY <1>0, <2>1, <2>3 DEF Go, Residue
  <2> QED BY <1>6, <2>2, <2>3 DEF WriteFails
<1>7. CASE Inspect(p)
  <2>1. pc[p] = "inspect" /\ UNCHANGED <<temp, scratch>> /\ ~scratch[p]
    BY <1>7 DEF Inspect, disk, Residue
  <2>2. pc'[p] = "done" /\ "cleanup_failed" \in result'[p].diags
    <3>1. PICK w, s : Report(p, "invalid", w, s, {cause[p], "cleanup_failed"})
      BY <1>7 DEF Inspect, ReportInspected
    <3> QED BY <3>1, AfterReport
  <2> QED BY <2>1, <2>2 DEF Residue
<1>8. CASE \/ \E r \in Input : Capture(p, r) \/ Recheck(p, r)
           \/ \E r \in Rereadable : Recapture(p, r)
  BY <1>1, <1>8 DEF Capture, Recheck, Recapture, CaptureStep, RecheckStep, RecaptureStep, Input,
                    Rereadable, disk
<1>9. CASE \/ CheckOutput(p) \/ InspectPrior(p) \/ ReadPrior(p) \/ Assemble(p)
           \/ Reread(p) \/ Reload(p) \/ Unlink(p) \/ UnlinkFails(p) \/ Restore(p)
           \/ VerifyRestored(p)
  BY <1>1, <1>9 DEF CheckOutput, InspectPrior, ReadPrior, Assemble, Reread, Reload, Unlink,
                    UnlinkFails, Restore, VerifyRestored, disk
<1> QED
  BY <1>2, <1>3, <1>4, <1>5, <1>6, <1>7, <1>8, <1>9 DEF Run

ResidueInv == \A p \in Exporter : Residue(p)

LEMMA ResidueKept == BaseInv /\ ResidueInv /\ [Next]_vars => ResidueInv'
<1> SUFFICES ASSUME BaseInv, ResidueInv, [Next]_vars, NEW q \in Exporter PROVE Residue(q)'
  BY DEF ResidueInv
<1>1. TypeOK /\ Residue(q)
  BY DEF BaseInv, ResidueInv
<1>2. ASSUME NEW p \in Exporter, Run(p) PROVE Residue(q)'
  <2>1. CASE q = p
    BY <1>1, <1>2, <2>1, ResidueStep
  <2>2. CASE q # p
    BY <1>1, <1>2, <2>2, StepFrame, ReportFrame DEF Residue, Own
  <2> QED BY <2>1, <2>2
<1>3. CASE UNCHANGED <<pc, temp, scratch, result>>
  BY <1>1, <1>3 DEF Residue
<1> QED BY <1>2, <1>3 DEF Next, vars, Crash, Edit, Outside, disk

\* An exporter that ends without a word of a failed write or cleanup leaves neither its temporary
\* file nor its private snapshots behind, whatever the others do.
THEOREM NoResidueUnreported == Spec => []NoSilentResidue
<1>1. Init => ResidueInv
  BY DEF Init, ResidueInv, Residue
<1>2. ResidueInv => NoSilentResidue
  BY DEF ResidueInv, Residue, NoSilentResidue
<1>3. Init => BaseInv
  BY BaseInit
<1>4. BaseInv /\ [Next]_vars => BaseInv'
  BY BaseStep
<1> QED BY <1>1, <1>2, <1>3, <1>4, ResidueKept, PTL DEF Spec
------------------------------------------------------------------------------
(* The reason of a rejection is not lost by the preview exporter, whatever *)
(* fails.                                                                  *)

\* A candidate is rejected once, after the write; until an exporter ends it has said nothing.
Retained(p) ==
  /\ cause[p] # "none" => pc[p] \in WriteStep \cup {"rollback", "verify", "inspect", "done"}
  /\ pc[p] # "done" => result[p].status = "running"
  /\ result[p].status = "invalid" /\ cause[p] # "none" => cause[p] \in result[p].diags

LEMMA RetainedBeforeWrite ==
  ASSUME TypeOK, NEW p \in Exporter, Retained(p), pc[p] \in BeforeWrite,
         \/ Advance(p)
         \/ Go(p, "assemble") /\ UNCHANGED result
         \/ \E d : Refuse(p, d),
         UNCHANGED cause
  PROVE  Retained(p)'
<1>1. cause[p] = "none" /\ cause'[p] = "none" /\ result[p].status = "running"
  BY DEF Retained, BeforeWrite, WriteStep
<1>2. CASE Advance(p)
  <2>1. pc'[p] # "done"
    <3>1. pc'[p] \in BeforeWrite \cup {"stage"}
      BY <1>2, AdvanceTarget DEF PcOK, TypeOK
    <3> QED BY <3>1 DEF BeforeWrite
  <2> QED BY <1>1, <1>2, <2>1, AfterAdvance DEF Retained
<1>3. CASE UNCHANGED result
  BY <1>1, <1>3 DEF Retained
<1>4. CASE \E d : Refuse(p, d)
  BY <1>1, <1>4, AfterRefuse DEF Retained
<1> QED BY <1>2, <1>3, <1>4

LEMMA RetainedRejection ==
  ASSUME TypeOK, NEW p \in Exporter, Retained(p), NEW why, pc[p] # "done", Reject(p, why)
  PROVE  Retained(p)'
<1>1. pc'[p] = "rollback" /\ UNCHANGED result
  BY DEF Reject, Go, TypeOK
<1> QED BY <1>1 DEF Retained

LEMMA RetainedStep ==
  ASSUME TypeOK, CauseInv, NEW p \in Legacy, Retained(p), Run(p)
  PROVE  Retained(p)'
<1>0. /\ p \notin Verified /\ p \in Exporter
      /\ pc \in [Exporter -> Step]
  BY KindAssumption DEF Exporter, TypeOK
<1>1. CASE pc[p] \in BeforeWrite
  <2>1. \/ \E r \in Input : Capture(p, r) \/ Recheck(p, r)
        \/ \E r \in Rereadable : Recapture(p, r)
        \/ CheckOutput(p) \/ InspectPrior(p) \/ ReadPrior(p) \/ Assemble(p)
        \/ Replay(p) \/ Build(p)
    BY <1>1 DEF Run, Stage, Fill, Replace, WriteFails, Reread, Reload, Unlink, UnlinkFails,
                Restore, VerifyRestored, Inspect, BeforeWrite, WriteStep
  <2>2. \/ Advance(p)
        \/ Go(p, "assemble") /\ UNCHANGED result
        \/ \E d : Refuse(p, d)
    BY <2>1 DEF Capture, Recheck, Recapture, CheckOutput, InspectPrior, ReadPrior, Assemble,
                Replay, Build
  <2>3. UNCHANGED cause
    BY <2>1 DEF Capture, Recheck, Recapture, CheckOutput, InspectPrior, ReadPrior, Assemble,
                Replay, Build
  <2> QED BY <1>0, <1>1, <2>2, <2>3, RetainedBeforeWrite
<1>2. CASE Stage(p) \/ Fill(p) \/ Restore(p)
  BY <1>0, <1>2 DEF Stage, Fill, Restore, Go, Retained, WriteStep
<1>3. CASE Replace(p)
  <2>1. /\ pc[p] = "replace" /\ UNCHANGED <<cause, result>>
        /\ \/ cause[p] = "none" /\ pc'[p] = "reread"
           \/ pc'[p] = "verify"
    BY <1>0, <1>3 DEF Replace, Restoring, Go
  <2> QED BY <2>1 DEF Retained
<1>4. CASE WriteFails(p)
  <2>1. pc[p] \in WriteStep /\ UNCHANGED cause
    BY <1>4 DEF WriteFails
  <2>2. CASE cause[p] = "none" /\ Refuse(p, "write_failed")
    BY <1>0, <2>1, <2>2, AfterRefuse DEF Retained
  <2>3. CASE Go(p, "inspect") /\ UNCHANGED result
    BY <1>0, <2>1, <2>3 DEF Go, Retained, WriteStep
  <2> QED BY <1>0, <1>4, <2>2, <2>3 DEF WriteFails, Restoring
<1>5. CASE Reread(p) \/ Reload(p)
  <2>1. pc[p] \in {"reread", "reload"} /\ cause[p] = "none" /\ result[p].status = "running"
    BY <1>5 DEF Reread, Reload, Retained, WriteStep
  <2>2. CASE \E why : Reject(p, why)
    BY <1>0, <2>1, <2>2, RetainedRejection
  <2>3. CASE UNCHANGED cause
    BY <1>0, <1>5, <2>1, <2>3, AfterReport DEF Reread, Reload, Reject, Go, Retained
  <2> QED BY <1>5, <2>2, <2>3 DEF Reread, Reload
<1>6. CASE Unlink(p) \/ UnlinkFails(p) \/ VerifyRestored(p) \/ Inspect(p)
  <2>1. pc[p] \in {"rollback", "verify", "inspect"} /\ UNCHANGED cause
    BY <1>6 DEF Unlink, UnlinkFails, VerifyRestored, Inspect
  <2>2. \/ Go(p, "inspect") /\ UNCHANGED result
        \/ \E w, s, d : Report(p, "invalid", w, s, d) /\ cause[p] \in d
    <3>1. CASE Unlink(p)
      BY <1>0, <3>1 DEF Unlink
    <3>2. CASE UnlinkFails(p)
      BY <1>0, <3>2 DEF UnlinkFails
    <3>3. CASE VerifyRestored(p)
      BY <3>3 DEF VerifyRestored
    <3>4. CASE Inspect(p)
      <4>1. PICK w, s : Report(p, "invalid", w, s, {cause[p], "cleanup_failed"})
        BY <3>4 DEF Inspect, ReportInspected
      <4> QED BY <4>1
    <3> QED BY <1>6, <3>1, <3>2, <3>3, <3>4
  <2>3. CASE Go(p, "inspect") /\ UNCHANGED result
    BY <1>0, <2>1, <2>3 DEF Go, Retained
  <2>4. CASE \E w, s, d : Report(p, "invalid", w, s, d) /\ cause[p] \in d
    BY <1>0, <2>1, <2>4, AfterReport DEF Retained
  <2> QED BY <2>2, <2>3, <2>4
<1> QED
  BY <1>0, <1>1, <1>2, <1>3, <1>4, <1>5, <1>6, LaterSteps

RetainedInv == \A p \in Legacy : Retained(p)

LEMMA RetainedKept == BaseInv /\ RetainedInv /\ [Next]_vars => RetainedInv'
<1> SUFFICES ASSUME BaseInv, RetainedInv, [Next]_vars, NEW q \in Legacy
             PROVE  Retained(q)'
  BY DEF RetainedInv
<1>1. TypeOK /\ CauseInv /\ Retained(q) /\ q \in Exporter
  BY DEF BaseInv, RetainedInv, Exporter
<1>2. ASSUME NEW p \in Exporter, Run(p) PROVE Retained(q)'
  <2>1. CASE q = p
    BY <1>1, <1>2, <2>1, RetainedStep
  <2>2. CASE q # p
    BY <1>1, <1>2, <2>2, StepFrame, ReportFrame DEF Retained, Own
  <2> QED BY <2>1, <2>2
<1>3. CASE UNCHANGED <<pc, cause, result>>
  BY <1>1, <1>3 DEF Retained
<1> QED BY <1>2, <1>3 DEF Next, vars, Crash, Edit, Outside

\* No later failure hides what a candidate of a preview exporter was rejected for, whatever other
\* exporters, edits, kills, outside writes and failures there are.
THEOREM RejectionsRetained == Spec => []RejectionRetained
<1>1. Init => RetainedInv
  BY DEF Init, RetainedInv, Retained, Exporter
<1>2. RetainedInv => RejectionRetained
  BY DEF RetainedInv, Retained, RejectionRetained
<1>3. Init => BaseInv
  BY BaseInit
<1>4. BaseInv /\ [Next]_vars => BaseInv'
  BY BaseStep
<1> QED BY <1>1, <1>2, <1>3, <1>4, RetainedKept, PTL DEF Spec

------------------------------------------------------------------------------
(* Every transaction has an end in sight.                                  *)

\* How many steps an exporter may still take; a restoration takes those of the write once more.
VerifiedLeft ==
  [captureOwn |-> 25, captureIntake |-> 24, captureBundle |-> 23, checkOutput |-> 22,
   inspectPrior |-> 21, readPrior |-> 20, assemble |-> 19, recaptureIntake |-> 18,
   recaptureBundle |-> 17, replay |-> 16, build |-> 15, recheckIntake |-> 14,
   recheckBundle |-> 13, recheckOwn |-> 12]
LegacyLeft ==
  [checkOutput |-> 21, readPrior |-> 20, captureOwn |-> 19, captureIntake |-> 18,
   captureBundle |-> 17, replay |-> 16, build |-> 15, recheckOwn |-> 14, recheckIntake |-> 13,
   recheckBundle |-> 12]
WriteLeft == [stage |-> 5, fill |-> 4, replace |-> 3]
AfterLeft == [reread |-> 8, reload |-> 7, rollback |-> 6, verify |-> 2, inspect |-> 1, done |-> 0]

Left(p) ==
  IF pc[p] \in BeforeWrite THEN IF p \in Verified THEN VerifiedLeft[pc[p]] ELSE LegacyLeft[pc[p]]
  ELSE IF pc[p] \in WriteStep THEN WriteLeft[pc[p]] + IF Restoring(p) THEN 0 ELSE 6
  ELSE AfterLeft[pc[p]]

LEMMA LeftBeforeWrite ==
  ASSUME PcOK, NEW p \in Exporter, pc[p] \in BeforeWrite
  PROVE  Left(p) \in 12..25
<1>1. CASE p \in Verified
  <2>1. VerifiedLeft[pc[p]] \in 12..25
    BY DEF VerifiedLeft, BeforeWrite
  <2> QED BY <1>1, <2>1 DEF Left
<1>2. CASE p \notin Verified
  <2>1. p \in Legacy
    BY <1>2 DEF Exporter
  <2>2. LegacyLeft[pc[p]] \in 12..25
    BY <2>1 DEF LegacyLeft, BeforeWrite, PcOK, OfficialStep
  <2> QED BY <1>2, <2>2 DEF Left
<1> QED BY <1>1, <1>2

LEMMA LeftAfter ==
  ASSUME NEW p
  PROVE  /\ pc[p] \in {"stage", "fill", "replace"} =>
              Left(p) = (IF pc[p] = "stage" THEN 5 ELSE IF pc[p] = "fill" THEN 4 ELSE 3)
                          + (IF Restoring(p) THEN 0 ELSE 6)
         /\ pc[p] = "reread" => Left(p) = 8
         /\ pc[p] = "reload" => Left(p) = 7
         /\ pc[p] = "rollback" => Left(p) = 6
         /\ pc[p] = "verify" => Left(p) = 2
         /\ pc[p] = "inspect" => Left(p) = 1
         /\ pc[p] = "done" => Left(p) = 0
BY DEF Left, BeforeWrite, WriteStep, WriteLeft, AfterLeft

LEMMA LeftAfterwards ==
  ASSUME NEW p
  PROVE  /\ pc'[p] \in {"stage", "fill", "replace"} =>
              Left(p)' = (IF pc'[p] = "stage" THEN 5 ELSE IF pc'[p] = "fill" THEN 4 ELSE 3)
                          + (IF Restoring(p)' THEN 0 ELSE 6)
         /\ pc'[p] = "reread" => Left(p)' = 8
         /\ pc'[p] = "reload" => Left(p)' = 7
         /\ pc'[p] = "rollback" => Left(p)' = 6
         /\ pc'[p] = "verify" => Left(p)' = 2
         /\ pc'[p] = "inspect" => Left(p)' = 1
         /\ pc'[p] = "done" => Left(p)' = 0
BY DEF Left, BeforeWrite, WriteStep, WriteLeft, AfterLeft

\* Before the write a step that goes on takes the next step, or leaves out the prior output.
LEMMA EarlyMoves ==
  ASSUME TypeOK, NEW p \in Exporter, Run(p), pc[p] \in BeforeWrite, pc'[p] \in BeforeWrite
  PROVE  pc'[p] = Successor(p) \/ (pc[p] = "inspectPrior" /\ p \in Verified /\ pc'[p] = "assemble")
<1>1. \/ \E r \in Input : Capture(p, r) \/ Recheck(p, r)
      \/ \E r \in Rereadable : Recapture(p, r)
      \/ CheckOutput(p) \/ InspectPrior(p) \/ ReadPrior(p) \/ Assemble(p)
      \/ Replay(p) \/ Build(p)
  BY DEF Run, Stage, Fill, Replace, WriteFails, Reread, Reload, Unlink, UnlinkFails,
         Restore, VerifyRestored, Inspect, BeforeWrite, WriteStep
<1>2. \/ Advance(p)
      \/ pc[p] = "inspectPrior" /\ Go(p, "assemble")
      \/ \E d : Refuse(p, d)
  BY <1>1 DEF Capture, Recheck, Recapture, CheckOutput, InspectPrior, ReadPrior, Assemble,
              Replay, Build
<1>3. Advance(p) => pc'[p] = Successor(p)
  BY AfterAdvance
<1>4. ~ \E d : Refuse(p, d)
  BY AfterRefuse DEF BeforeWrite
<1>5. pc[p] = "inspectPrior" /\ Go(p, "assemble") => p \in Verified /\ pc'[p] = "assemble"
  BY DEF TypeOK, Go, OfficialStep, Exporter
<1> QED BY <1>2, <1>3, <1>4, <1>5

LEMMA LeftRange ==
  ASSUME TypeOK, NEW p \in Exporter
  PROVE  Left(p) \in 0..25
<1>1. pc[p] \in Step
  BY DEF TypeOK
<1>2. CASE pc[p] \in BeforeWrite
  BY <1>2, LeftBeforeWrite DEF TypeOK, PcOK
<1>3. CASE pc[p] \notin BeforeWrite
  BY <1>1, <1>3, LeftAfter DEF Step, WriteStep, AfterWrite
<1> QED BY <1>2, <1>3

LEMMA AdvanceCounts ==
  ASSUME TypeOK, NEW p \in Exporter, pc[p] \in BeforeWrite, pc'[p] = Successor(p),
         pc'[p] \in BeforeWrite
  PROVE  Left(p)' < Left(p)
<1>1. CASE p \in Verified
  <2>1. VerifiedLeft[VerifiedOrder[pc[p]]] < VerifiedLeft[pc[p]]
    BY <1>1 DEF VerifiedLeft, VerifiedOrder, BeforeWrite, Successor
  <2> QED BY <1>1, <2>1 DEF Left, Successor
<1>2. CASE p \notin Verified
  <2>1. p \in Legacy
    BY <1>2 DEF Exporter
  <2>2. LegacyLeft[LegacyOrder[pc[p]]] < LegacyLeft[pc[p]]
    BY <1>2, <2>1 DEF LegacyLeft, LegacyOrder, BeforeWrite, Successor, TypeOK, OfficialStep
  <2> QED BY <1>2, <2>2 DEF Left, Successor
<1> QED BY <1>1, <1>2

LEMMA StepCounts ==
  ASSUME BaseInv, NEW p \in Exporter, Run(p)
  PROVE  Left(p)' < Left(p)
<1>0. /\ TypeOK /\ CauseInv /\ TypeOK'
      /\ p \in Legacy <=> p \notin Verified
      /\ \A s : Go(p, s) => pc'[p] = s
  BY RunTyped, KindAssumption DEF BaseInv, Exporter, TypeOK, Go
<1>1. CASE pc[p] \in BeforeWrite
  <2>0. Left(p) \in 12..25
    BY <1>0, <1>1, LeftBeforeWrite DEF TypeOK, PcOK
  <2>1. pc'[p] \in {"stage", "done"} => Left(p)' \in 0..11
    BY LeftAfterwards
  <2>2. CASE pc'[p] \in {"stage", "done"}
    BY <2>0, <2>1, <2>2
  <2>3. CASE pc'[p] \in BeforeWrite
    <3>1. pc'[p] = Successor(p) \/ (pc[p] = "inspectPrior" /\ p \in Verified /\ pc'[p] = "assemble")
      BY <1>0, <1>1, <2>3, EarlyMoves
    <3>2. CASE pc'[p] = Successor(p)
      BY <1>0, <1>1, <2>3, <3>2, AdvanceCounts
    <3>3. CASE pc[p] = "inspectPrior" /\ p \in Verified /\ pc'[p] = "assemble"
      BY <3>3 DEF Left, VerifiedLeft, BeforeWrite
    <3> QED BY <3>1, <3>2, <3>3
  <2> QED BY <1>0, <1>1, <2>2, <2>3, BeforeWriteTarget
<1>2. CASE pc[p] \notin BeforeWrite
  <2>1. \A s, w, a, d : Report(p, s, w, a, d) => pc'[p] = "done"
    BY <1>0 DEF Report
  <2>2. CASE Stage(p)
    <3>1. pc[p] = "stage" /\ pc'[p] = "fill" /\ Restoring(p)' = Restoring(p)
      BY <1>0, <2>1, <2>2 DEF Stage, Restoring
    <3> QED BY <3>1, LeftAfter, LeftAfterwards
  <2>3. CASE Fill(p)
    <3>1. pc[p] = "fill" /\ pc'[p] = "replace" /\ Restoring(p)' = Restoring(p)
      BY <1>0, <2>1, <2>3 DEF Fill, Restoring
    <3> QED BY <3>1, LeftAfter, LeftAfterwards
  <2>4. CASE Replace(p)
    <3>1. pc[p] = "replace" /\ (pc'[p] \in {"verify", "done"} \/ (pc'[p] = "reread" /\ ~Restoring(p)))
      BY <1>0, <2>1, <2>4 DEF Replace, Reraise
    <3> QED BY <3>1, LeftAfter, LeftAfterwards
  <2>5. CASE WriteFails(p)
    <3>1. pc[p] \in WriteStep /\ pc'[p] \in {"inspect", "done"}
      BY <1>0, <2>1, <2>5 DEF WriteFails, Refuse
    <3> QED BY <3>1, LeftAfter, LeftAfterwards DEF WriteStep
  <2>6. CASE Reread(p)
    <3>1. pc[p] = "reread" /\ pc'[p] \in {"reload", "rollback"}
      BY <1>0, <2>1, <2>6 DEF Reread, Reject
    <3> QED BY <3>1, LeftAfter, LeftAfterwards
  <2>7. CASE Reload(p)
    <3>1. pc[p] = "reload" /\ pc'[p] \in {"rollback", "done"}
      BY <1>0, <2>1, <2>7 DEF Reload, Reject
    <3> QED BY <3>1, LeftAfter, LeftAfterwards
  <2>8. CASE Unlink(p)
    <3>1. pc[p] = "rollback" /\ pc'[p] = "done"
      BY <1>0, <2>1, <2>8 DEF Unlink, Reraise
    <3> QED BY <3>1, LeftAfter, LeftAfterwards
  <2>9. CASE UnlinkFails(p)
    <3>1. pc[p] = "rollback" /\ pc'[p] \in {"inspect", "done"}
      BY <1>0, <2>1, <2>9 DEF UnlinkFails, Refuse
    <3> QED BY <3>1, LeftAfter, LeftAfterwards
  <2>10. CASE Restore(p)
    <3>1. pc[p] = "rollback" /\ pc'[p] = "stage" /\ Restoring(p)'
      BY <1>0, <2>1, <2>10 DEF Restore, CauseInv, Restoring
    <3> QED BY <3>1, LeftAfter, LeftAfterwards
  <2>11. CASE VerifyRestored(p)
    <3>1. pc[p] = "verify" /\ pc'[p] \in {"inspect", "done"}
      BY <1>0, <2>1, <2>11 DEF VerifyRestored
    <3> QED BY <3>1, LeftAfter, LeftAfterwards
  <2>12. CASE Inspect(p)
    <3>1. pc[p] = "inspect" /\ pc'[p] = "done"
      BY <1>0, <2>1, <2>12 DEF Inspect, ReportInspected
    <3> QED BY <3>1, LeftAfter, LeftAfterwards
  <2> QED
    BY <1>2, <2>2, <2>3, <2>4, <2>5, <2>6, <2>7, <2>8, <2>9, <2>10, <2>11, <2>12, LaterSteps
<1> QED BY <1>1, <1>2

\* A step of an exporter brings its own end nearer, whatever there is on the disk, and nothing
\* that anyone else does puts it off: an exporter ends within 25 steps of its own.
EndsAreNear ==
  \A p \in Exporter : IF Run(p) THEN Left(p)' < Left(p) ELSE Left(p)' = Left(p)

THEOREM StepsAreCounted ==
  Spec => [](\A p \in Exporter : Left(p) \in 0..25) /\ [][EndsAreNear]_vars
<1>1. BaseInv => \A p \in Exporter : Left(p) \in 0..25
  BY LeftRange DEF BaseInv
<1>2. BaseInv /\ [Next]_vars => [EndsAreNear]_vars
  <2> SUFFICES ASSUME BaseInv, Next, NEW p \in Exporter
               PROVE  IF Run(p) THEN Left(p)' < Left(p) ELSE Left(p)' = Left(p)
    BY DEF EndsAreNear
  <2>1. CASE Run(p)
    BY <2>1, StepCounts
  <2>2. CASE ~Run(p)
    <3>1. ASSUME NEW q \in Exporter, Run(q) PROVE Own(p)' = Own(p)
      BY <2>2, <3>1, StepFrame DEF BaseInv
    <3>2. Own(p)' = Own(p)
      BY <3>1, OtherFrame DEF Next
    <3>3. pc'[p] = pc[p] /\ cause'[p] = cause[p]
      BY <3>2 DEF Own
    <3>4. Left(p)' = Left(p)
      BY <3>3 DEF Left, Restoring
    <3> QED BY <2>2, <3>4
  <2> QED BY <2>1, <2>2
<1>3. Init => BaseInv
  BY BaseInit
<1>4. BaseInv /\ [Next]_vars => BaseInv'
  BY BaseStep
<1> QED BY <1>1, <1>2, <1>3, <1>4, PTL DEF Spec
==============================================================================
