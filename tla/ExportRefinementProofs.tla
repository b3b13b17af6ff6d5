------------------------ MODULE ExportRefinementProofs ------------------------
(***************************************************************************)
(* A lone exporter implements the atomic publication of AtomicPublish, for *)
(* any edits of the inputs: the preview exporter however often its file    *)
(* operations fail, the official one when at most one of them does (with a *)
(* second failure its rollback may be the one that is not reported).       *)
(***************************************************************************)
EXTENDS ExportTransactionProofs, ExportRefinement

Tolerated == MaxOutside = 0 /\ (Self \in Verified => MaxFaults <= 1)

\* The steps at which there is a candidate.
Built == {"recheckOwn", "recheckIntake", "recheckBundle"} \cup WriteStep \cup AfterWrite

\* Nothing is said before the end, the prior output is known once it was read, and after a
\* rejection no failure is left to the official exporter.
ReportInv ==
  /\ budget.outside = 0
  /\ pc[Self] # "done" => result[Self].status = "running"
  /\ cause[Self] # "none" => pc[Self] \in WriteStep \cup {"rollback", "verify", "inspect", "done"}
  /\ Self \in Verified =>
       /\ budget.faults <= 1
       /\ cause[Self] # "none" => budget.faults = 0 /\ cause[Self] = "unreadable"
       /\ pc[Self] \notin {"verify", "inspect"}
  /\ BeforeSave(Self) => prior[Self] = Absent

\* While the candidate is on trial, the output is that candidate or what it replaced.
TrialInv ==
  /\ pc[Self] \in Built => cand[Self] \in Export /\ cand[Self].by = KindOf(Self)
  /\ pc[Self] \in {"reread", "reload"} => output = cand[Self]
  /\ OnTrial(Self) => output \in {cand[Self], prior[Self]}

SoloInv == BaseInv /\ ReportInv /\ TrialInv

------------------------------------------------------------------------------
\* The effect of a step before the write.
LEMMA EarlyStep ==
  ASSUME TypeOK, pc[Self] \in BeforeWrite, Run(Self)
  PROVE  /\ UNCHANGED <<output, cause, crashed>>
         /\ budget'.outside = budget.outside /\ budget'.faults <= budget.faults
         /\ \/ pc'[Self] = Successor(Self) /\ UNCHANGED result
            \/ pc[Self] = "inspectPrior" /\ output = Absent /\ pc'[Self] = "assemble"
               /\ UNCHANGED result
            \/ pc'[Self] = "done" /\ result'[Self].status = "invalid" /\ ~result'[Self].written
               /\ result'[Self].state \in {"unreported", "not_written"}
         /\ pc[Self] # "readPrior" => UNCHANGED prior
         /\ pc[Self] = "readPrior" =>
              IF pc'[Self] = "done" THEN UNCHANGED prior ELSE prior'[Self] = output
         /\ pc[Self] # "build" => UNCHANGED cand
         /\ pc[Self] = "build" =>
              IF pc'[Self] = "done" THEN UNCHANGED cand ELSE cand'[Self] = Envelope(Self)
<1>0. Self \in Exporter
  BY SoloAssumption
<1>1. \/ \E r \in Input : Capture(Self, r) \/ Recheck(Self, r)
      \/ \E r \in Rereadable : Recapture(Self, r)
      \/ CheckOutput(Self) \/ InspectPrior(Self) \/ ReadPrior(Self) \/ Assemble(Self)
      \/ Replay(Self) \/ Build(Self)
  BY DEF Run, Stage, Fill, Replace, WriteFails, Reread, Reload, Unlink, UnlinkFails,
         Restore, VerifyRestored, Inspect, BeforeWrite, WriteStep
<1>2. UNCHANGED <<output, cause, crashed>>
  BY <1>1 DEF Capture, Recheck, Recapture, CheckOutput, InspectPrior, ReadPrior, Assemble,
              Replay, Build, disk, fixed
<1>3. budget'.outside = budget.outside /\ budget'.faults <= budget.faults
  <2>1. budget \in [edits : Nat, faults : Nat, outside : Nat]
    BY DEF TypeOK
  <2>2. UNCHANGED budget \/ Fault
    BY <1>1 DEF Capture, Recheck, Recapture, CheckOutput, InspectPrior, ReadPrior, Assemble,
                Replay, Build, NoFault
  <2> QED BY <2>1, <2>2 DEF Fault
<1>4. \/ pc'[Self] = Successor(Self) /\ UNCHANGED result
      \/ pc[Self] = "inspectPrior" /\ output = Absent /\ pc'[Self] = "assemble" /\ UNCHANGED result
      \/ pc'[Self] = "done" /\ result'[Self].status = "invalid" /\ ~result'[Self].written
         /\ result'[Self].state \in {"unreported", "not_written"}
  <2>1. \/ Advance(Self)
        \/ pc[Self] = "inspectPrior" /\ output = Absent /\ Go(Self, "assemble") /\ UNCHANGED result
        \/ \E d : Refuse(Self, d)
    BY <1>1 DEF Capture, Recheck, Recapture, CheckOutput, InspectPrior, ReadPrior, Assemble,
                Replay, Build
  <2>2. CASE Advance(Self)
    BY <1>0, <2>2, AfterAdvance
  <2>3. CASE /\ pc[Self] = "inspectPrior" /\ output = Absent /\ Go(Self, "assemble")
             /\ UNCHANGED result
    BY <1>0, <2>3 DEF Go, TypeOK
  <2>4. CASE \E d : Refuse(Self, d)
    BY <1>0, <2>4 DEF Refuse, Report, Go, TypeOK
  <2> QED BY <2>1, <2>2, <2>3, <2>4
<1>5. pc[Self] # "readPrior" => UNCHANGED prior
  BY <1>1 DEF Capture, Recheck, Recapture, CheckOutput, InspectPrior, ReadPrior, Assemble,
              Replay, Build, memory
<1>6. pc[Self] # "build" => UNCHANGED cand
  BY <1>1 DEF Capture, Recheck, Recapture, CheckOutput, InspectPrior, ReadPrior, Assemble,
              Replay, Build, memory
<1>7. ASSUME pc[Self] = "readPrior"
      PROVE  IF pc'[Self] = "done" THEN UNCHANGED prior ELSE prior'[Self] = output
  <2>1. ReadPrior(Self)
    BY <1>1, <1>7 DEF Capture, Recheck, Recapture, CheckOutput, InspectPrior, Assemble,
       Replay, Build, CaptureStep, RecaptureStep, RecheckStep, Input, Rereadable
  <2>2. CASE Advance(Self) /\ prior' = [prior EXCEPT ![Self] = output]
    <3>1. pc'[Self] # "done"
      BY <1>0, <1>7, <2>2, AfterAdvance DEF Successor, VerifiedOrder, LegacyOrder
    <3> QED BY <1>0, <2>2, <3>1 DEF TypeOK
  <2>3. CASE UNCHANGED prior /\ \E d : Refuse(Self, d)
    BY <1>0, <2>3, AfterRefuse
  <2> QED BY <2>1, <2>2, <2>3 DEF ReadPrior
<1>8. ASSUME pc[Self] = "build"
      PROVE  IF pc'[Self] = "done" THEN UNCHANGED cand ELSE cand'[Self] = Envelope(Self)
  <2>1. Build(Self)
    BY <1>1, <1>8 DEF Capture, Recheck, Recapture, CheckOutput, InspectPrior, ReadPrior, Assemble,
       Replay, CaptureStep, RecaptureStep, RecheckStep, Input, Rereadable
  <2>2. CASE Advance(Self) /\ cand' = [cand EXCEPT ![Self] = Envelope(Self)]
    <3>1. pc'[Self] # "done"
      BY <1>0, <1>8, <2>2, AfterAdvance DEF Successor, VerifiedOrder, LegacyOrder
    <3> QED BY <1>0, <2>2, <3>1 DEF TypeOK
  <2>3. CASE UNCHANGED cand /\ \E d : Refuse(Self, d)
    BY <1>0, <2>3, AfterRefuse
  <2> QED BY <2>1, <2>2, <2>3 DEF Build
<1> QED BY <1>2, <1>3, <1>4, <1>5, <1>6, <1>7, <1>8
\* The phase in which each step is.
PhaseFacts ==
  /\ Self \in crashed => PhaseOf(Self) = IF OnTrial(Self) THEN "stranded" ELSE "abandoned"
  /\ Self \notin crashed =>
       /\ pc[Self] = "done" => PhaseOf(Self) = Outcome(Self)
       /\ BeforeSave(Self) => PhaseOf(Self) = "open"
       /\ OnTrial(Self) => PhaseOf(Self) = "trial"
       /\ pc[Self] # "done" /\ ~BeforeSave(Self) /\ ~OnTrial(Self) => PhaseOf(Self) = "saved"

LEMMA PhaseIs == PhaseFacts /\ PhaseFacts'
<1>1. PhaseFacts
  BY DEF PhaseFacts, PhaseOf, BeforeSave, OnTrial, AfterWrite, WriteStep
<1>2. PhaseFacts'
  BY DEF PhaseFacts, PhaseOf, BeforeSave, OnTrial, AfterWrite, WriteStep
<1> QED BY <1>1, <1>2

\* What the readers are promised of the steps of an exporter.
PromisedStep == [Publication!Next]_(Publication!vars)

\* The moves of the exporter that keep the promise, by the phases a and b before and after.
Moves(a, b) ==
  \/ a = b /\ UNCHANGED <<output, prior[Self]>> /\ (a = "saved" \/ UNCHANGED cand[Self])
  \/ a = "open" /\ b = "saved" /\ UNCHANGED output /\ prior'[Self] = output
  \/ a \in {"open", "saved"} /\ b = "abandoned" /\ UNCHANGED <<output, prior[Self], cand[Self]>>
  \/ a = "saved" /\ b = "trial" /\ output' \in Export /\ output' = cand'[Self]
     /\ UNCHANGED prior[Self]
  \/ /\ a = "trial" /\ UNCHANGED <<prior[Self], cand[Self]>>
     /\ \/ b = "trial" /\ output' = prior[Self]
        \/ b = "kept" /\ output = cand[Self] /\ UNCHANGED output
        \/ b = "reverted" /\ output' = prior[Self]
        \/ b = "stranded" /\ UNCHANGED output

LEMMA MovesKeepPromise == Moves(PhaseOf(Self), PhaseOf(Self)') => PromisedStep
<1> SUFFICES ASSUME Moves(PhaseOf(Self), PhaseOf(Self)') PROVE PromisedStep
  OBVIOUS
<1> QED
  BY DEF Moves, PromisedStep, Publication!vars, Publication!Next, Publication!Save,
         Publication!Offer, Publication!Withdraw, Publication!Keep, Publication!Revert,
         Publication!Strand, Publication!GiveUp, Publication!End

LEMMA SoloFacts ==
  ASSUME TypeOK
  PROVE  /\ Self \in Exporter /\ pc[Self] \in Step
         /\ Self \in Legacy => pc[Self] \notin OfficialStep
         /\ Self \in Legacy <=> Self \notin Verified
         /\ prior[Self] \in Content /\ cand[Self] \in Export \cup {Absent} /\ Absent \notin Export
BY SoloAssumption, KindAssumption, MarkerAssumption DEF TypeOK, Exporter

\* Where a step before the write leads, and what is known then.
LEMMA EarlyTarget ==
  ASSUME TypeOK, pc[Self] \in BeforeWrite
  PROVE  /\ BeforeSave(Self) /\ pc[Self] # "readPrior" =>
              Successor(Self) \in {"captureIntake", "captureBundle", "checkOutput", "inspectPrior",
                                   "readPrior"}
         /\ BeforeSave(Self) /\ pc[Self] # "readPrior" /\ Self \in Legacy => Successor(Self) = "readPrior"
         /\ pc[Self] = "readPrior" => Successor(Self) \in {"assemble", "captureOwn"}
         /\ pc[Self] = "readPrior" /\ Self \in Verified => Successor(Self) = "assemble"
         /\ ~BeforeSave(Self) => Successor(Self) \in (BeforeWrite \ {"checkOutput", "readPrior", "inspectPrior"})
                                                      \cup {"stage"}
         /\ ~BeforeSave(Self) /\ Self \in Verified =>
              Successor(Self) \notin {"captureOwn", "captureIntake", "captureBundle"}
         /\ Successor(Self) \in Built => pc[Self] \in Built \cup {"build"}
BY SoloFacts
   DEF BeforeSave, Successor, VerifiedOrder, LegacyOrder, BeforeWrite, OfficialStep, Built,
       WriteStep, AfterWrite

------------------------------------------------------------------------------
\* What a step of the exporter has to keep and may show.
Kept == ReportInv' /\ TrialInv' /\ Moves(PhaseOf(Self), PhaseOf(Self)')

\* Before the write, the exporter saves what it finds or gives up.
LEMMA EarlyKept ==
  ASSUME SoloInv, Self \notin crashed, pc[Self] \in BeforeWrite, Run(Self)
  PROVE  Kept
<1>0. TypeOK /\ ReportInv /\ TrialInv
  BY DEF SoloInv, BaseInv
<1>1. /\ cause[Self] = "none" /\ cause'[Self] = "none" /\ output' = output /\ crashed' = crashed
      /\ budget'.outside = 0 /\ budget'.faults <= budget.faults
      /\ pc'[Self] \in BeforeWrite \cup {"stage", "done"}
  BY <1>0, SoloFacts, EarlyStep, BeforeWriteTarget DEF ReportInv, BeforeWrite, WriteStep
<1>2. ~OnTrial(Self) /\ ~OnTrial(Self)'
  BY <1>1 DEF OnTrial, BeforeWrite, AfterWrite, WriteStep, Restoring
<1>3. Self \in Verified => budget'.faults <= 1
  <2>1. budget.faults \in Nat /\ budget'.faults \in Nat
    <3>1. TypeOK'
      BY SoloFacts, RunTyped DEF SoloInv, BaseInv
    <3> QED BY <1>0, <3>1 DEF TypeOK
  <2> QED BY <1>0, <1>1, <2>1 DEF ReportInv
<1>4. CASE pc'[Self] = "done" /\ result'[Self].status = "invalid" /\ ~result'[Self].written
  <2>1. PhaseOf(Self) \in {"open", "saved"}
    BY <1>2, PhaseIs DEF PhaseFacts, BeforeWrite
  <2>2. PhaseOf(Self)' = "abandoned"
    BY <1>1, <1>4, PhaseIs DEF PhaseFacts, Outcome
  <2>3. UNCHANGED <<prior[Self], cand[Self]>>
    BY <1>0, <1>4, EarlyStep
  <2> QED
    BY <1>1, <1>2, <1>3, <1>4, <2>1, <2>2, <2>3
       DEF Kept, Moves, ReportInv, TrialInv, Built, WriteStep, AfterWrite, BeforeSave, BeforeWrite
<1>5. CASE /\ UNCHANGED result
           /\ \/ pc'[Self] = Successor(Self)
              \/ pc[Self] = "inspectPrior" /\ output = Absent /\ pc'[Self] = "assemble"
  <2>1. pc'[Self] # "done" /\ (BeforeSave(Self)' => BeforeSave(Self) /\ pc[Self] # "readPrior")
    BY <1>0, <1>5, SoloFacts, EarlyTarget DEF BeforeSave, BeforeWrite
  <2>2. IF BeforeSave(Self) /\ ~BeforeSave(Self)' THEN prior'[Self] = output ELSE UNCHANGED prior
    <3>1. BeforeSave(Self) /\ ~BeforeSave(Self)' =>
            pc[Self] = "readPrior" \/ (output = Absent /\ pc[Self] = "inspectPrior")
      BY <1>0, <1>5, SoloFacts, EarlyTarget DEF BeforeSave, OfficialStep
    <3>2. pc[Self] = "readPrior" => BeforeSave(Self)
      BY DEF BeforeSave
    <3> QED BY <1>0, <2>1, <3>1, <3>2, EarlyStep DEF ReportInv
  <2>3. ReportInv'
    BY <1>0, <1>1, <1>3, <1>5, <2>1, <2>2 DEF ReportInv, BeforeWrite
  <2>4. TrialInv'
    <3>1. ASSUME pc'[Self] \in Built
          PROVE  cand'[Self] \in Export /\ cand'[Self].by = KindOf(Self)
      <4>1. CASE pc[Self] = "build"
        <5>1. cand'[Self] = Envelope(Self)
          BY <1>0, <2>1, <4>1, EarlyStep
        <5>2. Envelope(Self) \in Export /\ Envelope(Self).by = KindOf(Self)
          BY <1>0, SoloFacts, EnvelopeType DEF Envelope
        <5> QED BY <5>1, <5>2
      <4>2. CASE pc[Self] # "build"
        BY <1>0, <1>5, <3>1, <4>2, EarlyStep, EarlyTarget
           DEF TrialInv, Built, WriteStep, AfterWrite
      <4> QED BY <4>1, <4>2
    <3> QED BY <1>1, <1>2, <3>1 DEF TrialInv, BeforeWrite
  <2>5. Moves(PhaseOf(Self), PhaseOf(Self)')
    <3>1. PhaseOf(Self) = IF BeforeSave(Self) THEN "open" ELSE "saved"
      BY <1>2, PhaseIs DEF PhaseFacts, BeforeWrite
    <3>2. PhaseOf(Self)' = IF BeforeSave(Self)' THEN "open" ELSE "saved"
      BY <1>1, <1>2, <2>1, PhaseIs DEF PhaseFacts
    <3>3. BeforeSave(Self) => UNCHANGED cand
      BY <1>0, EarlyStep DEF BeforeSave
    <3> QED BY <1>1, <2>1, <2>2, <3>1, <3>2, <3>3 DEF Moves
  <2> QED BY <2>3, <2>4, <2>5 DEF Kept
<1> QED
  BY <1>0, <1>4, <1>5, EarlyStep

\* A step of the write and of what follows it leaves this alone.
LEMMA LateFrame ==
  ASSUME SoloInv, pc[Self] \notin BeforeWrite, Run(Self)
  PROVE  /\ UNCHANGED <<cand, prior, crashed>> /\ budget'.outside = 0
         /\ budget'.faults <= budget.faults /\ (Self \in Verified => budget'.faults <= 1)
         /\ ~BeforeSave(Self) /\ pc[Self] # "done"
         /\ Self \in Exporter /\ pc \in [Exporter -> Step] /\ cause \in [Exporter -> Rejection]
         /\ \A status, written, state, diags : Report(Self, status, written, state, diags) =>
              /\ pc'[Self] = "done" /\ result'[Self].status = status
              /\ result'[Self].written = written /\ result'[Self].state = state
              /\ result'[Self].diags = diags
<1>0. TypeOK /\ ReportInv /\ TrialInv /\ Self \in Exporter
  BY SoloFacts DEF SoloInv, BaseInv
<1>1. \/ Stage(Self) \/ Fill(Self) \/ Replace(Self) \/ WriteFails(Self) \/ Reread(Self)
      \/ Reload(Self) \/ Unlink(Self) \/ UnlinkFails(Self) \/ Restore(Self)
      \/ VerifyRestored(Self) \/ Inspect(Self)
  BY <1>0, LaterSteps
<1>2. UNCHANGED <<cand, prior, crashed>>
  BY <1>1 DEF Stage, Fill, Replace, WriteFails, Reread, Reload, Unlink, UnlinkFails, Restore,
              VerifyRestored, Inspect, memory, fixed
<1>3. /\ budget'.outside = 0 /\ budget'.faults <= budget.faults
      /\ Self \in Verified => budget'.faults <= 1
  <2>1. budget \in [edits : Nat, faults : Nat, outside : Nat]
    BY <1>0 DEF TypeOK
  <2>2. \/ UNCHANGED budget \/ Fault
        \/ budget.faults > 1 /\ budget' = [budget EXCEPT !.faults = @ - 2]
    BY <1>1 DEF Stage, Fill, Replace, WriteFails, Reread, Reload, Unlink, UnlinkFails, Restore,
                VerifyRestored, Inspect, NoFault, Fault
  <2>3. budget'.outside = budget.outside /\ budget'.faults <= budget.faults /\ budget'.faults \in Nat
    BY <2>1, <2>2 DEF Fault
  <2> QED BY <1>0, <2>1, <2>3 DEF ReportInv
<1>4. ~BeforeSave(Self) /\ pc[Self] # "done"
  BY <1>1 DEF Stage, Fill, Replace, WriteFails, Reread, Reload, Unlink, UnlinkFails, Restore,
              VerifyRestored, Inspect, BeforeSave, WriteStep, BeforeWrite
<1>5. ASSUME NEW status, NEW written, NEW state, NEW diags,
             Report(Self, status, written, state, diags)
      PROVE  /\ pc'[Self] = "done" /\ result'[Self].status = status
             /\ result'[Self].written = written /\ result'[Self].state = state
             /\ result'[Self].diags = diags
  BY <1>0, <1>5 DEF Report, Go, TypeOK
<1> QED BY <1>0, <1>2, <1>3, <1>4, <1>5 DEF TypeOK

\* Writing the temporary file shows nothing.
LEMMA WritingKept ==
  ASSUME SoloInv, Self \notin crashed, Stage(Self) \/ Fill(Self) \/ Restore(Self)
  PROVE  Kept
<1>0. TypeOK /\ ReportInv /\ TrialInv /\ Run(Self)
  BY DEF SoloInv, BaseInv, Run
<1>1. pc[Self] \notin BeforeWrite
  BY DEF Stage, Fill, Restore, BeforeWrite
<1>2. /\ UNCHANGED <<cand, prior, crashed, output, cause, result>>
      /\ pc[Self] \in {"stage", "fill", "rollback"} /\ pc'[Self] \in WriteStep
      /\ pc[Self] = "rollback" => Restoring(Self)
  BY <1>0, <1>1, LateFrame DEF Stage, Fill, Restore, memory, disk, Go, WriteStep, SoloInv, BaseInv, CauseInv
<1>3. OnTrial(Self)' = OnTrial(Self)
  BY <1>2 DEF OnTrial, WriteStep, AfterWrite, Restoring
<1>4. ReportInv'
  BY <1>0, <1>1, <1>2, LateFrame DEF ReportInv, WriteStep, BeforeSave, Stage, Fill, Restore
<1>5. TrialInv'
  BY <1>0, <1>2, <1>3 DEF TrialInv, Built, WriteStep, AfterWrite
<1>6. PhaseOf(Self)' = PhaseOf(Self) /\ PhaseOf(Self) \in {"saved", "trial"}
  BY <1>1, <1>2, <1>3, LateFrame, PhaseIs DEF PhaseFacts, WriteStep, BeforeSave
<1> QED BY <1>2, <1>4, <1>5, <1>6 DEF Kept, Moves

\* The rename puts the candidate on trial, or the prior output back.
LEMMA ReplaceKept ==
  ASSUME SoloInv, Self \notin crashed, Replace(Self)
  PROVE  Kept
<1>0. TypeOK /\ ReportInv /\ TrialInv /\ Run(Self)
  BY DEF SoloInv, BaseInv, Run
<1>1. pc[Self] \notin BeforeWrite /\ pc[Self] = "replace" /\ UNCHANGED <<cause, budget>>
  BY DEF Replace, BeforeWrite
<1>2. output' = IF Restoring(Self) THEN prior[Self] ELSE cand[Self]
  BY <1>0, <1>1, LateFrame DEF SoloInv, BaseInv, WriteInv, Bytes, Replace, Land
<1>3. CASE ~Restoring(Self)
  <2>1. pc'[Self] = "reread" /\ result' = result
    BY <1>0, <1>1, <1>3, LateFrame DEF Replace, Go
  <2>2. PhaseOf(Self) = "saved" /\ PhaseOf(Self)' = "trial"
    BY <1>0, <1>1, <1>3, <2>1, LateFrame, PhaseIs
       DEF PhaseFacts, OnTrial, AfterWrite, WriteStep, BeforeSave, Restoring
  <2>3. cand[Self] \in Export /\ cand[Self].by = KindOf(Self)
    BY <1>0, <1>1 DEF TrialInv, Built, WriteStep
  <2>4. ReportInv'
    BY <1>0, <1>1, <1>3, <2>1, LateFrame DEF ReportInv, BeforeSave, Restoring
  <2>5. TrialInv'
    BY <1>0, <1>1, <1>2, <1>3, <2>1, <2>3, LateFrame DEF TrialInv
  <2> QED BY <1>0, <1>1, <1>2, <1>3, <2>2, <2>3, <2>4, <2>5, LateFrame DEF Kept, Moves
<1>4. CASE Restoring(Self)
  <2>1. PhaseOf(Self) = "trial"
    BY <1>0, <1>1, <1>4, PhaseIs DEF PhaseFacts, OnTrial, WriteStep
  <2>2. CASE Self \in Verified
    <3>1. cause[Self] = "unreadable"
      BY <1>0, <1>4, <2>2 DEF ReportInv, Restoring
    <3>2. Report(Self, "invalid", FALSE, "unreported", {"assembly_failed"})
      BY <1>4, <2>2, <3>1, SoloFacts, <1>0 DEF Replace, Reraise
    <3>3. pc'[Self] = "done" /\ result'[Self].status = "invalid" /\ result'[Self].written = FALSE
      BY <1>0, <1>1, <3>2, LateFrame
    <3>4. PhaseOf(Self)' = "reverted"
      BY <1>0, <1>1, <3>1, <3>3, LateFrame, PhaseIs DEF PhaseFacts, Outcome
    <3>5. ReportInv'
      BY <1>0, <1>1, <3>3, LateFrame DEF ReportInv, BeforeSave
    <3>6. TrialInv'
      BY <3>3 DEF TrialInv, Built, OnTrial, WriteStep, AfterWrite
    <3> QED BY <1>0, <1>1, <1>2, <1>4, <2>1, <3>4, <3>5, <3>6, LateFrame DEF Kept, Moves
  <2>3. CASE Self \in Legacy
    <3>1. pc'[Self] = "verify" /\ result' = result
      BY <1>0, <1>1, <1>4, <2>3, SoloFacts, LateFrame DEF Replace, Go
    <3>2. PhaseOf(Self)' = "trial"
      BY <1>0, <1>1, <3>1, LateFrame, PhaseIs DEF PhaseFacts, OnTrial, AfterWrite
    <3>3. ReportInv'
      BY <1>0, <1>1, <2>3, <3>1, SoloFacts, LateFrame DEF ReportInv, BeforeSave
    <3>4. TrialInv'
      BY <1>0, <1>1, <1>2, <1>4, <3>1, LateFrame DEF TrialInv, Built, WriteStep
    <3> QED BY <1>0, <1>1, <1>2, <1>4, <2>1, <3>2, <3>3, <3>4, LateFrame DEF Kept, Moves
  <2> QED BY <1>0, <2>2, <2>3, SoloFacts
<1> QED BY <1>3, <1>4

\* A step that ends the exporter keeps the invariant.
LEMMA EndKept ==
  ASSUME SoloInv, pc[Self] \notin BeforeWrite, Run(Self), pc'[Self] = "done", UNCHANGED cause
  PROVE  ReportInv' /\ TrialInv'
<1>0. TypeOK /\ ReportInv /\ TypeOK'
  BY SoloFacts, RunTyped DEF SoloInv, BaseInv
<1>1. budget.faults = 0 => budget'.faults = 0
  <2>1. budget.faults \in Nat /\ budget'.faults \in Nat
    BY <1>0 DEF TypeOK
  <2> QED BY <2>1, LateFrame
<1>2. ReportInv'
  BY <1>0, <1>1, LateFrame DEF ReportInv, BeforeSave
<1>3. TrialInv'
  BY DEF TrialInv, Built, OnTrial, WriteStep, AfterWrite
<1> QED BY <1>2, <1>3

\* A failing write leaves the output alone.
LEMMA WriteFailsKept ==
  ASSUME SoloInv, Self \notin crashed, WriteFails(Self)
  PROVE  Kept
<1>0. TypeOK /\ ReportInv /\ TrialInv /\ Run(Self) /\ Self \in Exporter
  BY SoloFacts DEF SoloInv, BaseInv, Run
<1>1. pc[Self] \notin BeforeWrite /\ pc[Self] \in WriteStep /\ UNCHANGED <<cause, output>>
  BY DEF WriteFails, BeforeWrite, WriteStep
<1>2. CASE ~Restoring(Self)
  <2>1. Refuse(Self, "write_failed")
    BY <1>2 DEF WriteFails
  <2>2. pc'[Self] = "done" /\ result'[Self].status = "invalid" /\ result'[Self].written = FALSE
    BY <1>0, <1>1, <2>1, LateFrame DEF Refuse
  <2>3. PhaseOf(Self) = "saved"
    BY <1>0, <1>1, <1>2, LateFrame, PhaseIs DEF PhaseFacts, OnTrial, AfterWrite, WriteStep
  <2>4. PhaseOf(Self)' = "abandoned"
    BY <1>0, <1>1, <1>2, <2>2, LateFrame, PhaseIs DEF PhaseFacts, Outcome, Restoring
  <2> QED BY <1>0, <1>1, <2>2, <2>3, <2>4, EndKept, LateFrame DEF Kept, Moves
<1>3. CASE Restoring(Self)
  <2>1. Self \in Legacy
    <3>1. budget.faults # 0
      BY <1>0 DEF WriteFails, TypeOK
    <3> QED BY <1>0, <1>3, <3>1, SoloFacts DEF ReportInv, Restoring
  <2>2. pc'[Self] = "inspect" /\ result' = result
    BY <1>0, <1>1, <1>3, <2>1, LateFrame DEF WriteFails, Go
  <2>3. PhaseOf(Self) = "trial" /\ PhaseOf(Self)' = "trial"
    BY <1>0, <1>1, <1>3, <2>2, LateFrame, PhaseIs DEF PhaseFacts, OnTrial, AfterWrite
  <2>4. ReportInv'
    BY <1>0, <1>1, <2>1, <2>2, SoloFacts, LateFrame DEF ReportInv, BeforeSave
  <2>5. TrialInv'
    BY <1>0, <1>1, <1>3, <2>2, LateFrame DEF TrialInv, Built, OnTrial
  <2> QED BY <1>0, <1>1, <2>3, <2>4, <2>5, LateFrame DEF Kept, Moves
<1> QED BY <1>2, <1>3

\* Nobody else writes, so only a failing read rejects the candidate.
LEMMA RejectKept ==
  ASSUME SoloInv, Self \notin crashed, pc[Self] \in {"reread", "reload"}, Run(Self),
         UNCHANGED output, Reject(Self, "unreadable"), Fault
  PROVE  Kept
<1>0. TypeOK /\ ReportInv /\ TrialInv /\ pc[Self] \notin BeforeWrite /\ TypeOK'
  BY SoloFacts, RunTyped DEF SoloInv, BaseInv, BeforeWrite
<1>1. pc'[Self] = "rollback" /\ cause'[Self] = "unreadable" /\ result' = result
  BY <1>0, LateFrame DEF Reject, Go
<1>2. Self \in Verified => budget'.faults = 0
  <2>1. budget \in [edits : Nat, faults : Nat, outside : Nat] /\ budget.faults > 0
    BY <1>0 DEF TypeOK, Fault
  <2>2. Self \in Verified => budget.faults = 1
    BY <1>0, <2>1 DEF ReportInv
  <2> QED BY <2>1, <2>2 DEF Fault
<1>3. PhaseOf(Self) = "trial" /\ PhaseOf(Self)' = "trial"
  BY <1>0, <1>1, LateFrame, PhaseIs DEF PhaseFacts, OnTrial, AfterWrite
<1>4. ReportInv'
  BY <1>0, <1>1, <1>2, LateFrame DEF ReportInv, BeforeSave
<1>5. TrialInv'
  BY <1>0, <1>1, LateFrame DEF TrialInv, Built, OnTrial, AfterWrite
<1> QED BY <1>0, <1>3, <1>4, <1>5, LateFrame DEF Kept, Moves

LEMMA RereadKept ==
  ASSUME SoloInv, Self \notin crashed, Reread(Self)
  PROVE  Kept
<1>0. TypeOK /\ ReportInv /\ TrialInv /\ Run(Self) /\ pc[Self] = "reread" /\ UNCHANGED output
  BY DEF SoloInv, BaseInv, Run, Reread, disk
<1>1. pc[Self] \notin BeforeWrite
  BY <1>0 DEF BeforeWrite
<1>2. output = cand[Self] /\ output # Absent
  BY <1>0, SoloFacts DEF TrialInv, Built, AfterWrite
<1>3. CASE Go(Self, "reload") /\ UNCHANGED <<cause, result, budget>>
  <2>1. pc'[Self] = "reload"
    BY <1>0, <1>1, <1>3, LateFrame DEF Go
  <2>2. PhaseOf(Self) = "trial" /\ PhaseOf(Self)' = "trial"
    BY <1>0, <1>1, <2>1, LateFrame, PhaseIs DEF PhaseFacts, OnTrial, AfterWrite
  <2>3. ReportInv'
    BY <1>0, <1>1, <1>3, <2>1, LateFrame DEF ReportInv, BeforeSave, WriteStep
  <2>4. TrialInv'
    BY <1>0, <1>1, <1>2, <2>1, LateFrame DEF TrialInv, Built, OnTrial, AfterWrite
  <2> QED BY <1>0, <1>1, <2>2, <2>3, <2>4, LateFrame DEF Kept, Moves
<1>4. CASE Fault /\ Reject(Self, "unreadable")
  BY <1>0, <1>4, RejectKept
<1> QED BY <1>2, <1>3, <1>4 DEF Reread, NoFault

LEMMA ReloadKept ==
  ASSUME SoloInv, Self \notin crashed, Reload(Self)
  PROVE  Kept
<1>0. TypeOK /\ ReportInv /\ TrialInv /\ Run(Self) /\ pc[Self] = "reload" /\ UNCHANGED output
  BY DEF SoloInv, BaseInv, Run, Reload, disk
<1>1. pc[Self] \notin BeforeWrite
  BY <1>0 DEF BeforeWrite
<1>2. output = cand[Self] /\ output \in Export /\ output.by = KindOf(Self) /\ output # Absent
  BY <1>0, SoloFacts DEF TrialInv, Built, AfterWrite
<1>3. CASE Report(Self, "successful", TRUE, "published", {}) /\ UNCHANGED cause
  <2>1. pc'[Self] = "done" /\ result'[Self].status = "successful"
    BY <1>0, <1>1, <1>3, LateFrame
  <2>2. PhaseOf(Self) = "trial"
    BY <1>0, PhaseIs DEF PhaseFacts, OnTrial, AfterWrite
  <2>3. PhaseOf(Self)' = "kept"
    BY <1>0, <1>1, <2>1, LateFrame, PhaseIs DEF PhaseFacts, Outcome
  <2> QED BY <1>0, <1>1, <1>2, <1>3, <2>1, <2>2, <2>3, EndKept, LateFrame DEF Kept, Moves
<1>4. CASE Fault /\ Reject(Self, "unreadable")
  BY <1>0, <1>4, RejectKept
<1> QED BY <1>2, <1>3, <1>4 DEF Reload

\* A report after the rollback that claims no written output, made with the output restored.
LEMMA RevertKept ==
  ASSUME SoloInv, Self \notin crashed, pc[Self] \in {"rollback", "verify", "inspect"}, Run(Self),
         output' = prior[Self], UNCHANGED cause,
         \E state, diags : Report(Self, "invalid", FALSE, state, diags)
  PROVE  Kept
<1>0. Restoring(Self) /\ pc[Self] \notin BeforeWrite
  BY SoloFacts DEF SoloInv, BaseInv, CauseInv, BeforeWrite
<1>1. pc'[Self] = "done" /\ result'[Self].status = "invalid" /\ result'[Self].written = FALSE
  BY <1>0, LateFrame
<1>2. PhaseOf(Self) = "trial"
  BY PhaseIs DEF PhaseFacts, OnTrial, AfterWrite
<1>3. PhaseOf(Self)' = "reverted"
  BY <1>0, <1>1, LateFrame, PhaseIs DEF PhaseFacts, Outcome, Restoring
<1> QED BY <1>0, <1>1, <1>2, <1>3, EndKept, LateFrame DEF Kept, Moves

\* The rollback goes on to look at what there is.
LEMMA LookKept ==
  ASSUME SoloInv, Self \notin crashed, pc[Self] \in {"rollback", "verify"}, Run(Self),
         Self \in Legacy, output' \in {output, prior[Self]}, UNCHANGED cause,
         Go(Self, "inspect"), UNCHANGED result
  PROVE  Kept
<1>0. /\ ReportInv /\ TrialInv /\ Restoring(Self) /\ pc[Self] \notin BeforeWrite
      /\ Self \notin Verified
  BY SoloFacts DEF SoloInv, BaseInv, CauseInv, BeforeWrite
<1>1. pc'[Self] = "inspect"
  BY <1>0, LateFrame DEF Go
<1>2. PhaseOf(Self) = "trial" /\ PhaseOf(Self)' = "trial"
  BY <1>0, <1>1, LateFrame, PhaseIs DEF PhaseFacts, OnTrial, AfterWrite
<1>3. ReportInv'
  BY <1>0, <1>1, LateFrame DEF ReportInv, BeforeSave
<1>4. TrialInv'
  BY <1>0, <1>1, LateFrame DEF TrialInv, Built, OnTrial, AfterWrite
<1> QED BY <1>0, <1>2, <1>3, <1>4, LateFrame DEF Kept, Moves

LEMMA UnlinkKept ==
  ASSUME SoloInv, Self \notin crashed, Unlink(Self)
  PROVE  Kept
<1>0. TypeOK /\ ReportInv /\ Run(Self) /\ Restoring(Self)
  BY SoloFacts DEF SoloInv, BaseInv, CauseInv, Run, Unlink
<1>1. pc[Self] = "rollback" /\ output' = prior[Self] /\ UNCHANGED cause
  BY DEF Unlink, Land
<1>2. Self \in Verified => cause[Self] = "unreadable"
  BY <1>0 DEF ReportInv, Restoring
<1>3. \E state, diags : Report(Self, "invalid", FALSE, state, diags)
  BY <1>2 DEF Unlink, Reraise
<1> QED BY <1>0, <1>1, <1>3, RevertKept

LEMMA UnlinkFailsKept ==
  ASSUME SoloInv, Self \notin crashed, UnlinkFails(Self)
  PROVE  Kept
<1>0. TypeOK /\ ReportInv /\ Run(Self) /\ Restoring(Self)
  BY SoloFacts DEF SoloInv, BaseInv, CauseInv, Run, UnlinkFails
<1>1. Self \in Legacy
  <2>1. budget.faults # 0
    BY <1>0 DEF UnlinkFails, Fault, TypeOK
  <2> QED BY <1>0, <2>1, SoloFacts DEF ReportInv, Restoring
<1>2. Go(Self, "inspect") /\ UNCHANGED <<result, cause>>
  BY <1>0, <1>1, SoloFacts DEF UnlinkFails
<1>3. pc[Self] = "rollback" /\ output' \in {output, prior[Self]}
  BY DEF UnlinkFails, Land
<1> QED BY <1>0, <1>1, <1>2, <1>3, LookKept

LEMMA VerifyRestoredKept ==
  ASSUME SoloInv, Self \notin crashed, VerifyRestored(Self)
  PROVE  Kept
<1>0. TypeOK /\ ReportInv /\ Run(Self) /\ pc[Self] = "verify" /\ UNCHANGED <<output, cause>>
  BY DEF SoloInv, BaseInv, Run, VerifyRestored, disk
<1>1. CASE output = prior[Self] /\ Report(Self, "invalid", FALSE, "restored", {cause[Self]})
  BY <1>0, <1>1, RevertKept
<1>2. CASE Go(Self, "inspect") /\ UNCHANGED result
  BY <1>0, <1>2, SoloFacts, LookKept DEF ReportInv
<1> QED BY <1>1, <1>2 DEF VerifyRestored

LEMMA InspectKept ==
  ASSUME SoloInv, Self \notin crashed, Inspect(Self)
  PROVE  Kept
<1>0. /\ TypeOK /\ TrialInv /\ Run(Self) /\ pc[Self] = "inspect" /\ UNCHANGED <<output, cause>>
      /\ pc[Self] \notin BeforeWrite
  BY DEF SoloInv, BaseInv, Run, Inspect, disk, BeforeWrite
<1>1. output \in {cand[Self], prior[Self]} /\ cand[Self] # Absent
  BY <1>0, SoloFacts DEF TrialInv, Built, OnTrial, AfterWrite
<1>2. CASE output = prior[Self] /\ \E state, diags : Report(Self, "invalid", FALSE, state, diags)
  BY <1>0, <1>2, RevertKept
<1>3. CASE \E state, diags : Report(Self, "invalid", TRUE, state, diags)
  <2>1. pc'[Self] = "done" /\ result'[Self].status = "invalid" /\ result'[Self].written
    BY <1>0, <1>3, LateFrame
  <2>2. PhaseOf(Self) = "trial"
    BY <1>0, PhaseIs DEF PhaseFacts, OnTrial, AfterWrite
  <2>3. PhaseOf(Self)' = "stranded"
    <3>1. PhaseOf(Self)' = Outcome(Self)'
      BY <1>0, <2>1, LateFrame, PhaseIs DEF PhaseFacts
    <3>2. Outcome(Self)' = "stranded"
      BY <2>1 DEF Outcome
    <3> QED BY <3>1, <3>2
  <2> QED BY <1>0, <2>1, <2>2, <2>3, EndKept, LateFrame DEF Kept, Moves
<1> QED BY <1>1, <1>2, <1>3 DEF Inspect, ReportInspected

------------------------------------------------------------------------------
LEMMA RunKept ==
  ASSUME SoloInv, Self \notin crashed, Run(Self)
  PROVE  Kept
<1>1. CASE pc[Self] \in BeforeWrite
  BY <1>1, EarlyKept
<1>2. CASE pc[Self] \notin BeforeWrite
  <2>1. \/ Stage(Self) \/ Fill(Self) \/ Replace(Self) \/ WriteFails(Self) \/ Reread(Self)
        \/ Reload(Self) \/ Unlink(Self) \/ UnlinkFails(Self) \/ Restore(Self)
        \/ VerifyRestored(Self) \/ Inspect(Self)
    BY <1>2, SoloFacts, LaterSteps DEF SoloInv, BaseInv
  <2> QED
    BY <2>1, WritingKept, ReplaceKept, WriteFailsKept, RereadKept, ReloadKept, UnlinkKept,
       UnlinkFailsKept, VerifyRestoredKept, InspectKept
<1> QED BY <1>1, <1>2

\* A kill at any step is an ending that the promise allows, and an edit is none of its business.
LEMMA CrashKept ==
  ASSUME SoloInv, Crash(Self)
  PROVE  Kept
<1>0. /\ UNCHANGED <<output, prior, cand, pc, cause, result, budget>>
      /\ pc[Self] # "done" /\ Self \notin crashed /\ Self \in crashed'
  BY DEF Crash, disk, memory
<1>1. ReportInv' /\ TrialInv'
  BY <1>0 DEF SoloInv, ReportInv, TrialInv, BeforeSave, OnTrial, Restoring
<1>2. OnTrial(Self)' = OnTrial(Self)
  BY <1>0 DEF OnTrial, Restoring
<1>3. PhaseOf(Self) \in IF OnTrial(Self) THEN {"trial"} ELSE {"open", "saved"}
  BY <1>0, PhaseIs DEF PhaseFacts
<1>4. PhaseOf(Self)' = IF OnTrial(Self) THEN "stranded" ELSE "abandoned"
  BY <1>0, <1>2, PhaseIs DEF PhaseFacts
<1> QED BY <1>0, <1>1, <1>3, <1>4 DEF Kept, Moves

LEMMA StillKept ==
  ASSUME SoloInv, UNCHANGED <<output, prior, cand, pc, cause, result, crashed>>,
         budget'.outside = budget.outside /\ budget'.faults = budget.faults
  PROVE  Kept
<1>1. ReportInv' /\ TrialInv'
  BY DEF SoloInv, ReportInv, TrialInv, BeforeSave, OnTrial, Restoring
<1>2. PhaseOf(Self)' = PhaseOf(Self)
  BY DEF PhaseOf, Outcome, BeforeSave, OnTrial, Restoring
<1> QED BY <1>1, <1>2 DEF Kept, Moves

LEMMA NextKept == SoloInv /\ [Next]_vars => SoloInv' /\ PromisedStep
<1> SUFFICES ASSUME SoloInv, [Next]_vars PROVE SoloInv' /\ PromisedStep
  OBVIOUS
<1>0. BaseInv' /\ budget \in [edits : Nat, faults : Nat, outside : Nat] /\ budget.outside = 0
  BY BaseStep DEF SoloInv, BaseInv, TypeOK, ReportInv
<1>1. ASSUME NEW p \in Exporter, p \notin crashed, Run(p) PROVE Kept
  <2>1. p = Self
    BY SoloAssumption
  <2>2. Self \notin crashed /\ Run(Self)
    BY <1>1, <2>1
  <2> QED BY <2>2, RunKept
<1>2. ASSUME NEW p \in Exporter, Crash(p) PROVE Kept
  <2>1. p = Self
    BY SoloAssumption
  <2>2. Crash(Self)
    BY <1>2, <2>1
  <2> QED BY <2>2, CrashKept
<1>3. ASSUME NEW f \in File, Edit(f) PROVE Kept
  <2>1. UNCHANGED <<output, prior, cand, pc, cause, result, crashed>>
    BY <1>3 DEF Edit, disk, memory, fixed
  <2>2. budget'.outside = budget.outside /\ budget'.faults = budget.faults
    BY <1>0, <1>3 DEF Edit
  <2> QED BY <2>1, <2>2, StillKept
<1>4. ~Outside
  BY <1>0 DEF Outside
<1>5. ASSUME UNCHANGED vars PROVE Kept
  BY <1>5, StillKept DEF vars
<1>6. Kept
  BY <1>1, <1>2, <1>3, <1>4, <1>5 DEF Next
<1> QED BY <1>0, <1>6, MovesKeepPromise DEF Kept, SoloInv

LEMMA InitKept == Tolerated /\ Init => SoloInv /\ Publication!Init
<1> SUFFICES ASSUME Tolerated, Init PROVE SoloInv /\ Publication!Init
  OBVIOUS
<1>1. BaseInv
  BY BaseInit
<1>2. /\ pc[Self] = IF Self \in Verified THEN "captureOwn" ELSE "checkOutput"
      /\ cause[Self] = "none" /\ prior[Self] = Absent /\ crashed = {}
      /\ result[Self].status = "running" /\ budget.outside = 0
      /\ Self \in Verified => budget.faults <= 1
  BY SoloFacts, <1>1, BoundsAssumption DEF Init, Tolerated, BaseInv
<1>3. BeforeSave(Self) /\ ~OnTrial(Self)
  BY <1>1, <1>2, SoloFacts DEF BeforeSave, OnTrial, AfterWrite, WriteStep, BaseInv
<1>4. ReportInv /\ TrialInv
  BY <1>2, <1>3 DEF ReportInv, TrialInv, Built, WriteStep, AfterWrite
<1>5. PhaseOf(Self) = "open"
  BY <1>2, <1>3, PhaseIs DEF PhaseFacts
<1> QED BY <1>1, <1>2, <1>4, <1>5 DEF SoloInv, Publication!Init

\* What the report of a lone exporter says of the output is true of the file, whenever the
\* inputs are edited, operations fail (any number of them in the preview exporter, one in the
\* official one) and the process is killed: it implements the atomic publication.
THEOREM PublishesAtomically == Tolerated => (Spec => ImplementsAtomicPublish)
<1>1. Tolerated /\ Init => SoloInv /\ Publication!Init
  BY InitKept
<1>2. SoloInv /\ [Next]_vars => SoloInv' /\ [Publication!Next]_(Publication!vars)
  BY NextKept DEF PromisedStep
<1> QED BY <1>1, <1>2, PTL DEF Spec, ImplementsAtomicPublish, Publication!Spec, Tolerated

------------------------------------------------------------------------------
(* What the report says of the output is true of the file.                 *)

\* What each phase says of the output.
PhaseInv ==
  /\ PhaseOf(Self) = "open" => cand[Self] = Absent
  /\ PhaseOf(Self) \in {"saved", "reverted"} => output = prior[Self]
  /\ PhaseOf(Self) = "kept" => output = cand[Self]
  /\ PhaseOf(Self) = "abandoned" => output = prior[Self] \/ cand[Self] = Absent

\* What the report itself says.
Truthful ==
  /\ result[Self].status \in {"successful", "invalid"}
  /\ result[Self].status = "successful" => result[Self].written = TRUE
  /\ result[Self].status = "invalid" /\ result[Self].written = TRUE =>
       "cleanup_failed" \in result[Self].diags
  /\ result[Self].state = "removed" => output = Absent
  /\ result[Self].state = "restored" => output = prior[Self]
  /\ result[Self].state = "persisted" => output \notin {Absent, prior[Self]}

SettledInv ==
  /\ PhaseInv
  /\ cause[Self] # "none" => cand[Self] # Absent
  /\ pc[Self] = "done" => Self \notin crashed /\ Truthful

LEMMA MovesKeepPhase ==
  ASSUME PhaseInv, Moves(PhaseOf(Self), PhaseOf(Self)')
  PROVE  PhaseInv'
BY DEF Moves, PhaseInv

\* A step that ends the exporter reports what is so.
LEMMA RunTruthful ==
  ASSUME SoloInv, Self \notin crashed, Run(Self), pc'[Self] = "done"
  PROVE  Truthful'
<1>0. TypeOK /\ ReportInv /\ TrialInv /\ CauseInv
  BY DEF SoloInv, BaseInv
<1>1. CASE pc[Self] \in BeforeWrite
  <2>1. pc'[Self] = Successor(Self) => pc'[Self] # "done"
    BY <1>0, <1>1, EarlyTarget, SoloFacts DEF BeforeSave, BeforeWrite, OfficialStep
  <2> QED BY <1>0, <1>1, <2>1, EarlyStep DEF Truthful
<1>2. CASE pc[Self] \notin BeforeWrite
  <2>1. \/ Stage(Self) \/ Fill(Self) \/ Replace(Self) \/ WriteFails(Self) \/ Reread(Self)
        \/ Reload(Self) \/ Unlink(Self) \/ UnlinkFails(Self) \/ Restore(Self)
        \/ VerifyRestored(Self) \/ Inspect(Self)
    BY <1>0, <1>2, SoloFacts, LaterSteps
  <2>2. ASSUME NEW state \in {"unreported", "not_written"}, NEW diags,
               Report(Self, "invalid", FALSE, state, diags)
        PROVE  Truthful'
    <3>1. result'[Self] = [status |-> "invalid", written |-> FALSE, state |-> state, diags |-> diags]
      BY <1>0, <2>2, SoloFacts DEF Report, TypeOK
    <3> QED BY <3>1 DEF Truthful
  <2>3. CASE Stage(Self) \/ Fill(Self) \/ Restore(Self) \/ Reread(Self)
    BY <1>2, <2>3, LateFrame DEF Stage, Fill, Restore, Reread, Go, Reject
  <2>4. Restoring(Self) /\ Self \in Verified => cause[Self] # "unrecognized"
    BY <1>0 DEF ReportInv, Restoring
  <2>5. CASE Replace(Self)
    BY <1>2, <2>2, <2>4, <2>5, LateFrame DEF Replace, Reraise, Go
  <2>6. CASE WriteFails(Self)
    <3>1. Refuse(Self, "write_failed")
      BY <1>2, <2>6, LateFrame DEF WriteFails, Go
    <3> QED BY <2>2, <3>1 DEF Refuse
  <2>7. CASE Reload(Self)
    <3>1. Report(Self, "successful", TRUE, "published", {})
      BY <1>2, <2>7, LateFrame DEF Reload, Reject, Go
    <3>2. result'[Self] = [status |-> "successful", written |-> TRUE, state |-> "published",
                           diags |-> {}]
      BY <1>0, <3>1, SoloFacts DEF Report, TypeOK
    <3> QED BY <3>2 DEF Truthful
  <2>8. CASE Unlink(Self)
    <3>1. Restoring(Self) /\ output' = Absent
      BY <1>0, <2>8, SoloFacts DEF CauseInv, Unlink, Land
    <3>2. CASE Self \in Verified
      BY <2>2, <2>4, <2>8, <3>1, <3>2, SoloFacts, <1>0 DEF Unlink, Reraise
    <3>3. CASE Self \in Legacy
      <4>1. Report(Self, "invalid", FALSE, "removed", {cause[Self]})
        BY <2>8, <3>3, SoloFacts, <1>0 DEF Unlink
      <4>2. result'[Self] = [status |-> "invalid", written |-> FALSE, state |-> "removed",
                             diags |-> {cause[Self]}]
        BY <1>0, <4>1, SoloFacts DEF Report, TypeOK
      <4> QED BY <3>1, <4>2 DEF Truthful
    <3> QED BY <1>0, <3>2, <3>3, SoloFacts
  <2>9. CASE UnlinkFails(Self)
    <3>1. Refuse(Self, "assembly_failed")
      BY <1>2, <2>9, LateFrame DEF UnlinkFails, Go
    <3> QED BY <2>2, <3>1 DEF Refuse
  <2>10. CASE VerifyRestored(Self)
    <3>1. output = prior[Self] /\ Report(Self, "invalid", FALSE, "restored", {cause[Self]})
      BY <1>2, <2>10, LateFrame DEF VerifyRestored, Go
    <3>2. output' = output
      BY <2>10 DEF VerifyRestored, disk
    <3>3. result'[Self] = [status |-> "invalid", written |-> FALSE, state |-> "restored",
                           diags |-> {cause[Self]}]
      BY <1>0, <3>1, SoloFacts DEF Report, TypeOK
    <3>4. prior' = prior
      BY <1>2, LateFrame
    <3> QED BY <3>1, <3>2, <3>3, <3>4 DEF Truthful
  <2>11. CASE Inspect(Self)
    <3>1. output' = output
      BY <2>11 DEF Inspect, disk
    <3> DEFINE Says(written, state) ==
                 result'[Self] = [status |-> "invalid", written |-> written, state |-> state,
                                  diags |-> {cause[Self], "cleanup_failed"}]
    <3>2. \A written, state : ReportInspected(Self, written, state) => Says(written, state)
      BY <1>0, SoloFacts DEF ReportInspected, Report, TypeOK
    <3>3. \/ output = Absent /\ Says(FALSE, "removed")
          \/ output = prior[Self] /\ Says(FALSE, "restored")
          \/ output \notin {Absent, prior[Self]} /\ Says(TRUE, "persisted")
          \/ Says(TRUE, "unconfirmed")
      <4> HIDE DEF Says
      <4> QED BY <2>11, <3>2 DEF Inspect
    <3>4. prior' = prior
      BY <1>2, LateFrame
    <3> QED BY <3>1, <3>3, <3>4 DEF Truthful
  <2> QED
    BY <2>1, <2>3, <2>5, <2>6, <2>7, <2>8, <2>9, <2>10, <2>11
<1> QED BY <1>1, <1>2

\* Once a candidate was rejected there is one.
LEMMA CauseHasCandidate ==
  ASSUME SoloInv, SettledInv, Self \notin crashed, Run(Self)
  PROVE  cause'[Self] # "none" => cand'[Self] # Absent
<1>0. TypeOK /\ ReportInv /\ TrialInv
  BY DEF SoloInv, BaseInv
<1>1. CASE pc[Self] \in BeforeWrite
  BY <1>0, <1>1, EarlyStep DEF ReportInv, BeforeWrite, WriteStep
<1>2. CASE pc[Self] \notin BeforeWrite
  <2>1. UNCHANGED cause \/ pc[Self] \in {"reread", "reload"}
    BY <1>0, <1>2, SoloFacts, LaterSteps
       DEF Stage, Fill, Replace, WriteFails, Reread, Reload, Unlink, UnlinkFails, Restore,
           VerifyRestored, Inspect
  <2>2. pc[Self] \in {"reread", "reload"} => cand[Self] # Absent
    BY <1>0, SoloFacts DEF TrialInv, Built, AfterWrite
  <2> QED BY <1>2, <2>1, <2>2, LateFrame DEF SettledInv
<1> QED BY <1>1, <1>2

LEMMA SettledKept == SoloInv /\ SettledInv /\ [Next]_vars => SettledInv'
<1> SUFFICES ASSUME SoloInv, SettledInv, [Next]_vars PROVE SettledInv'
  OBVIOUS
<1>0. TypeOK /\ budget.outside = 0
  BY DEF SoloInv, BaseInv, ReportInv
<1>1. ASSUME NEW p \in Exporter, p \notin crashed, Run(p) PROVE SettledInv'
  <2>1. p = Self
    BY SoloAssumption
  <2>2. Self \notin crashed /\ Run(Self)
    BY <1>1, <2>1
  <2>3. PhaseInv'
    BY <2>2, RunKept, MovesKeepPhase DEF Kept, SettledInv
  <2>4. crashed' = crashed
    BY <1>0, <2>2, EarlyStep, LateFrame
  <2> QED BY <2>2, <2>3, <2>4, CauseHasCandidate, RunTruthful DEF SettledInv
<1>2. ASSUME NEW p \in Exporter, Crash(p) PROVE SettledInv'
  <2>1. p = Self
    BY SoloAssumption
  <2>2. Crash(Self)
    BY <1>2, <2>1
  <2>3. PhaseInv'
    BY <2>2, CrashKept, MovesKeepPhase DEF Kept, SettledInv
  <2> QED BY <2>2, <2>3 DEF Crash, memory, SettledInv
<1>3. ASSUME UNCHANGED <<output, prior, cand, pc, cause, result, crashed>>
      PROVE  SettledInv'
  <2>1. PhaseOf(Self)' = PhaseOf(Self)
    BY <1>3 DEF PhaseOf, Outcome, BeforeSave, OnTrial, Restoring
  <2>2. PhaseInv' /\ (Truthful => Truthful')
    BY <1>3, <2>1 DEF SettledInv, PhaseInv, Truthful
  <2> QED BY <1>3, <2>2 DEF SettledInv
<1>4. ASSUME NEW f \in File, Edit(f) PROVE SettledInv'
  BY <1>3, <1>4 DEF Edit, disk, memory, fixed
<1>5. ~Outside
  BY <1>0 DEF Outside
<1>6. ASSUME UNCHANGED vars PROVE SettledInv'
  BY <1>3, <1>6 DEF vars
<1> QED BY <1>1, <1>2, <1>4, <1>5, <1>6 DEF Next

LEMMA InitSettled == Tolerated /\ Init => SettledInv
<1> SUFFICES ASSUME Tolerated, Init PROVE SettledInv
  OBVIOUS
<1>1. SoloInv /\ Publication!Init /\ Self \in Exporter
  BY InitKept, SoloFacts DEF SoloInv, BaseInv
<1>2. PhaseOf(Self) = "open"
  BY <1>1 DEF Publication!Init
<1>3. cand[Self] = Absent /\ cause[Self] = "none" /\ pc[Self] # "done"
  BY <1>1 DEF Init
<1> QED BY <1>2, <1>3 DEF SettledInv, PhaseInv

\* The outcome of an exporter that ended, in terms of its report.
LEMMA SettledMeans == SoloInv /\ SettledInv => ReportMatchesDisk /\ FailedCleanupIsReported
<1> SUFFICES ASSUME SoloInv, SettledInv PROVE ReportMatchesDisk /\ FailedCleanupIsReported
  OBVIOUS
<1>0. TypeOK /\ ReportInv /\ result[Self].written \in BOOLEAN
  BY SoloFacts DEF SoloInv, BaseInv, TypeOK
<1>1. ASSUME pc[Self] = "done"
      PROVE  /\ Truthful
             /\ result[Self].status = "successful" => output = cand[Self]
             /\ ~result[Self].written => output = prior[Self] \/ cand[Self] = Absent
             /\ ~result[Self].written /\ cause[Self] # "none" => output = prior[Self]
  <2>1. Self \notin crashed /\ Truthful
    BY <1>1 DEF SettledInv
  <2>2. PhaseOf(Self) = Outcome(Self)
    BY <1>1, <2>1, PhaseIs DEF PhaseFacts
  <2>3. CASE result[Self].status = "successful"
    <3>1. Outcome(Self) = "kept"
      BY <2>3 DEF Outcome
    <3>2. output = cand[Self]
      BY <2>2, <3>1 DEF SettledInv, PhaseInv
    <3>3. result[Self].written
      BY <1>0, <2>1, <2>3 DEF Truthful
    <3> QED BY <2>1, <3>2, <3>3
  <2>4. CASE result[Self].status = "invalid" /\ ~result[Self].written /\ cause[Self] # "none"
    <3>1. Outcome(Self) = "reverted"
      BY <2>4 DEF Outcome
    <3> QED BY <2>1, <2>2, <2>4, <3>1 DEF SettledInv, PhaseInv
  <2>5. CASE result[Self].status = "invalid" /\ ~result[Self].written /\ cause[Self] = "none"
    <3>1. Outcome(Self) = "abandoned"
      BY <2>5 DEF Outcome
    <3> QED BY <2>1, <2>2, <2>5, <3>1 DEF SettledInv, PhaseInv
  <2>6. CASE result[Self].status = "invalid" /\ result[Self].written
    BY <2>1, <2>6
  <2> QED BY <2>1, <2>3, <2>4, <2>5, <2>6 DEF Truthful
<1>2. ReportMatchesDisk
  BY <1>1, SoloAssumption DEF ReportMatchesDisk, Truthful
<1>3. FailedCleanupIsReported
  <2> SUFFICES ASSUME result[Self].status = "invalid", cause[Self] # "none",
                      output = cand[Self], prior[Self] # cand[Self]
               PROVE  result[Self].written /\ "cleanup_failed" \in result[Self].diags
    BY SoloAssumption DEF FailedCleanupIsReported
  <2>1. pc[Self] = "done"
    BY <1>0 DEF ReportInv
  <2>2. result[Self].written = TRUE
    BY <1>0, <1>1, <2>1
  <2> QED BY <1>1, <2>1, <2>2 DEF Truthful
<1> QED BY <1>2, <1>3

\* What a lone exporter says of its candidate, and of what it removed, restored or left, is so.
THEOREM ReportsAreTrue == Tolerated => (Spec => []ReportMatchesDisk)
<1>1. Tolerated /\ Init => SoloInv /\ SettledInv
  BY InitKept, InitSettled
<1>2. SoloInv /\ SettledInv /\ [Next]_vars => SoloInv' /\ SettledInv'
  BY NextKept, SettledKept
<1>3. SoloInv /\ SettledInv => ReportMatchesDisk
  BY SettledMeans
<1> QED BY <1>1, <1>2, <1>3, PTL DEF Spec, Tolerated

\* A rejected candidate that a lone exporter could not take back is reported as written.
THEOREM LeftoversAreReported == Tolerated => (Spec => []FailedCleanupIsReported)
<1>1. Tolerated /\ Init => SoloInv /\ SettledInv
  BY InitKept, InitSettled
<1>2. SoloInv /\ SettledInv /\ [Next]_vars => SoloInv' /\ SettledInv'
  BY NextKept, SettledKept
<1>3. SoloInv /\ SettledInv => FailedCleanupIsReported
  BY SettledMeans
<1> QED BY <1>1, <1>2, <1>3, PTL DEF Spec, Tolerated
==============================================================================
