-------------------------- MODULE ExportTransaction --------------------------
(***************************************************************************)
(* The publication of one Project Gate export: the straight-line code of   *)
(* export_verified_review_file (the official exporter) and of export_file  *)
(* (the legacy preview exporter), run by any number of processes that      *)
(* share their input files and their output path, while an operator edits  *)
(* the inputs, other programs write or delete the output, file operations  *)
(* fail and processes are killed.                                          *)
(*                                                                         *)
(* Files are abstracted to what the transaction compares: an input is the  *)
(* version its bytes have (every edit makes bytes never seen before), an   *)
(* export is the record of the input versions it was computed from.        *)
(***************************************************************************)
EXTENDS Naturals

CONSTANTS
  Verified,       \* processes running the official exporter
  Legacy,         \* processes running the legacy preview exporter
  Verdict(_, _),  \* what evaluating inputs i gives kind k: "invalid", "blocked", "allowed"
  Absent,         \* no file
  Foreign,        \* a file that is not a CE-owned artifact
  Partial,        \* a file whose bytes are not all written
  MaxEdits,       \* bound on the edits of input files
  MaxFaults,      \* bound on failing file operations
  MaxOutside      \* bound on writes to the output by other programs

ASSUME BoundsAssumption == MaxEdits \in Nat /\ MaxFaults \in Nat /\ MaxOutside \in Nat
ASSUME KindAssumption == Verified \cap Legacy = {}

Exporter == Verified \cup Legacy
Kind == {"verified", "legacy"}
KindOf(p) == IF p \in Verified THEN "verified" ELSE "legacy"

\* What an exporter reads: its own Review Draft or payload, the Architect
\* intake and source bundle, and the repository artifacts claims cite.
Input == {"own", "intake", "bundle"}
Role == Input \cup {"artifact"}
Rereadable == {"intake", "bundle"}
File == {"draft", "payload", "intake", "bundle", "artifact"}
FileOf(k, r) == IF r # "own" THEN r ELSE IF k = "verified" THEN "draft" ELSE "payload"
ReadBy(k) == IF k = "verified" THEN Role ELSE Input

\* "source" is what the envelope and its intake hash were built from, "inputs"
\* what the evaluated payload was computed from.
Export == [by : Kind, inputs : [Role -> Nat], source : [Rereadable -> Nat], allowed : BOOLEAN]
Content == Export \cup {Absent, Foreign}
ASSUME MarkerAssumption ==
  /\ Absent \notin Export /\ Foreign \notin Export /\ Partial \notin Content
  /\ Absent # Foreign

VARIABLES
  version,    \* version[f]: the bytes input file f has now
  seen,       \* history: every combination of input versions there has been
  output,     \* the file at the output path
  late,       \* history: exporters past their output check when it landed
  temp,       \* temp[p]: the temporary file of p's atomic write
  scratch,    \* scratch[p]: p's private validation snapshots are on disk
  overwrite,  \* overwrite[p]: the --overwrite argument
  pc,         \* pc[p]: the step p is about to take
  crashed,    \* processes killed before they ended
  snap,       \* snap[p]: versions of the first captures
  recap,      \* recap[p]: versions captured again while building
  prior,      \* prior[p]: bytes of the replaced output, Absent for None
  cand,       \* cand[p]: the bytes to publish, Absent before they are built
  cause,      \* cause[p]: why the published candidate was rejected
  result,     \* result[p]: the ExportResult, status "running" before it
  budget      \* what the bounds still allow

vars == <<version, seen, output, late, temp, scratch, overwrite, pc, crashed,
          snap, recap, prior, cand, cause, result, budget>>
disk == <<output, late, temp>>
inputs == <<version, seen>>
memory == <<snap, recap, prior, cand>>
fixed == <<overwrite, crashed>>

------------------------------------------------------------------------------
\* The order of the steps up to the atomic write, per exporter.
VerifiedOrder ==
  [captureOwn |-> "captureIntake", captureIntake |-> "captureBundle",
   captureBundle |-> "checkOutput", checkOutput |-> "inspectPrior",
   inspectPrior |-> "readPrior", readPrior |-> "assemble",
   assemble |-> "recaptureIntake", recaptureIntake |-> "recaptureBundle",
   recaptureBundle |-> "replay", replay |-> "build", build |-> "recheckIntake",
   recheckIntake |-> "recheckBundle", recheckBundle |-> "recheckOwn",
   recheckOwn |-> "stage"]
LegacyOrder ==
  [checkOutput |-> "readPrior", readPrior |-> "captureOwn",
   captureOwn |-> "captureIntake", captureIntake |-> "captureBundle",
   captureBundle |-> "replay", replay |-> "build", build |-> "recheckOwn",
   recheckOwn |-> "recheckIntake", recheckIntake |-> "recheckBundle",
   recheckBundle |-> "stage"]
BeforeWrite ==
  {"captureOwn", "captureIntake", "captureBundle", "checkOutput", "inspectPrior", "readPrior",
   "assemble", "recaptureIntake", "recaptureBundle", "replay", "build", "recheckIntake",
   "recheckBundle", "recheckOwn"}
OfficialStep == {"inspectPrior", "assemble", "recaptureIntake", "recaptureBundle"}
WriteStep == {"stage", "fill", "replace"}
AfterWrite == {"reread", "reload", "rollback", "verify", "inspect"}
Step == BeforeWrite \cup WriteStep \cup AfterWrite \cup {"done"}
Successor(p) == IF p \in Verified THEN VerifiedOrder[pc[p]] ELSE LegacyOrder[pc[p]]

Go(p, s) == pc' = [pc EXCEPT ![p] = s]
Advance(p) == Go(p, Successor(p)) /\ UNCHANGED result
Checked(p) ==
  pc[p] \notin {"checkOutput"} \cup
    (IF p \in Verified THEN {"captureOwn", "captureIntake", "captureBundle"} ELSE {})

\* "successful" stands for every result that publishes (also the handoff
\* statuses "blocked" and "insufficient_evidence"), "raised" for none at all.
Status == {"running", "successful", "invalid", "raised"}
ArtifactState == {"none", "not_written", "unreported", "published", "removed", "restored",
                  "persisted", "unconfirmed"}
Rejection == {"none", "unreadable", "mismatch", "unrecognized"}
Diag == (Rejection \ {"none"}) \cup
        {"refused", "write_failed", "cleanup_failed", "assembly_failed", "scratch_left"}

Report(p, status, written, state, diags) ==
  /\ Go(p, "done")
  /\ result' = [result EXCEPT ![p] = [status |-> status, written |-> written,
                                      state |-> state, diags |-> diags]]
\* The ExporterError result of either exporter: no artifact was written.
Refuse(p, diag) ==
  Report(p, "invalid", FALSE, IF p \in Verified THEN "unreported" ELSE "not_written", {diag})

\* A file operation fails.
Fault == budget.faults > 0 /\ budget' = [budget EXCEPT !.faults = @ - 1]
NoFault == UNCHANGED budget
\* Whoever changes the output, the exporters past their check had not seen it.
Land(content) == output' = content /\ late' = {q \in Exporter : Checked(q)}

------------------------------------------------------------------------------
\* Before the atomic write.  A refusal for reasons the model does not look
\* into (unreadable or malformed input, schema, semantics, identity) is always
\* possible in the steps that can raise one.
CaptureStep == [own |-> "captureOwn", intake |-> "captureIntake", bundle |-> "captureBundle"]
RecaptureStep == [intake |-> "recaptureIntake", bundle |-> "recaptureBundle"]
RecheckStep == [own |-> "recheckOwn", intake |-> "recheckIntake", bundle |-> "recheckBundle"]

Capture(p, r) ==
  /\ pc[p] = CaptureStep[r]
  /\ \/ snap' = [snap EXCEPT ![p][r] = version[FileOf(KindOf(p), r)]] /\ Advance(p)
     \/ Refuse(p, "refused") /\ UNCHANGED snap
  /\ UNCHANGED <<inputs, disk, fixed, scratch, recap, prior, cand, cause, budget>>

\* Mutant: --overwrite is not asked for.
CheckOutputAlways(p) ==
  /\ pc[p] = "checkOutput"
  /\ output # Foreign
  /\ Advance(p)
  /\ UNCHANGED <<inputs, disk, fixed, memory, scratch, cause, budget>>

\* Mutant: an existing output is waited for instead of refused.
CheckOutputWaits(p) ==
  /\ pc[p] = "checkOutput" /\ (output \in Export => overwrite[p]) /\ output # Foreign
  /\ Advance(p)
  /\ UNCHANGED <<inputs, disk, fixed, memory, scratch, cause, budget>>

CheckOutput(p) ==
  /\ pc[p] = "checkOutput"
  /\ \/ /\ output \in Export => overwrite[p]
        /\ output # Foreign
        /\ Advance(p)
     \/ Refuse(p, "refused")
  /\ UNCHANGED <<inputs, disk, fixed, memory, scratch, cause, budget>>

\* The official exporter parses what is there once more and checks that it is
\* CE-owned, before it reads the bytes it would restore.
InspectPrior(p) ==
  /\ pc[p] = "inspectPrior"
  /\ \/ output = Absent /\ Go(p, "assemble") /\ UNCHANGED result
     \/ output \in Export /\ Advance(p)
     \/ output # Absent /\ Refuse(p, "refused")
  /\ UNCHANGED <<inputs, disk, fixed, memory, scratch, cause, budget>>

ReadPrior(p) ==
  /\ pc[p] = "readPrior"
  /\ \/ /\ p \in Legacy \/ output # Absent
        /\ prior' = [prior EXCEPT ![p] = output]
        /\ Advance(p) /\ NoFault
     \/ p \in Verified /\ output = Absent /\ Refuse(p, "assembly_failed")
        /\ UNCHANGED prior /\ NoFault
     \/ output # Absent /\ Fault /\ UNCHANGED prior
        /\ Refuse(p, IF p \in Verified THEN "assembly_failed" ELSE "refused")
  /\ UNCHANGED <<inputs, disk, fixed, scratch, snap, recap, cand, cause>>

\* Verifying intake and bundle and evaluating the Review Draft work on the
\* captured bytes; the artifacts that claims cite are read from the repository.
Assemble(p) ==
  /\ pc[p] = "assemble"
  /\ \/ snap' = [snap EXCEPT ![p]["artifact"] = version["artifact"]] /\ Advance(p)
     \/ Refuse(p, "assembly_failed") /\ UNCHANGED snap
  /\ UNCHANGED <<inputs, disk, fixed, scratch, recap, prior, cand, cause, budget>>

Recapture(p, r) ==
  /\ pc[p] = RecaptureStep[r]
  /\ \/ recap' = [recap EXCEPT ![p][r] = version[r]] /\ Advance(p)
     \/ Refuse(p, "refused") /\ UNCHANGED recap
  /\ UNCHANGED <<inputs, disk, fixed, scratch, snap, prior, cand, cause, budget>>

\* Mutant: the replay is trusted without comparing the digests.
ReproducesLoosely(p) == version["artifact"] = snap[p]["artifact"]

\* The evaluation is replayed from its own inputs: the recaptured bytes must
\* have the recorded digests and the replay must give the same payload, so no
\* artifact it reads may have changed.
Reproduces(p) ==
  /\ \A r \in Rereadable : recap[p][r] = snap[p][r]
  /\ version["artifact"] = snap[p]["artifact"]

\* Replay, then write the private snapshots the intake validator reads.
Replay(p) ==
  /\ pc[p] = "replay"
  /\ \/ /\ p \in Verified => Reproduces(p)
        /\ scratch' = [scratch EXCEPT ![p] = TRUE]
        /\ Advance(p) /\ NoFault
     \/ p \in Verified /\ ~Reproduces(p) /\ Refuse(p, "refused") /\ UNCHANGED scratch /\ NoFault
     \/ Fault /\ Refuse(p, "refused") /\ UNCHANGED scratch
  /\ UNCHANGED <<inputs, disk, fixed, memory, cause>>

\* Mutant: the legacy preview boundary is not applied.
EnvelopeUnbounded(p) ==
  [by |-> KindOf(p), inputs |-> snap[p],
   source |-> IF p \in Verified THEN recap[p] ELSE [r \in Rereadable |-> snap[p][r]],
   allowed |-> Verdict(KindOf(p), snap[p]) = "allowed"]

\* The legacy boundary forces handoff.allowed to FALSE.
Envelope(p) ==
  [by |-> KindOf(p), inputs |-> snap[p],
   source |-> IF p \in Verified THEN recap[p] ELSE [r \in Rereadable |-> snap[p][r]],
   allowed |-> p \in Verified /\ Verdict(KindOf(p), snap[p]) = "allowed"]

\* Mutant: the private snapshots are left behind.
SnapshotsKept(p) == UNCHANGED scratch

\* The context manager removes the snapshots whether validation passed or not.
SnapshotsRemoved(p) == scratch' = [scratch EXCEPT ![p] = FALSE]

Build(p) ==
  /\ pc[p] = "build"
  /\ \/ /\ Verdict(KindOf(p), snap[p]) # "invalid"
        /\ cand' = [cand EXCEPT ![p] = Envelope(p)]
        /\ SnapshotsRemoved(p)
        /\ Advance(p) /\ NoFault
     \/ /\ Verdict(KindOf(p), snap[p]) = "invalid"
        /\ SnapshotsRemoved(p)
        /\ Refuse(p, "refused") /\ UNCHANGED cand /\ NoFault
     \/ Fault /\ Refuse(p, "scratch_left") /\ UNCHANGED <<cand, scratch>>
  /\ UNCHANGED <<inputs, disk, fixed, snap, recap, prior, cause>>

\* The bytes the exporter last captured for a role.
Captured(p, r) == IF p \in Verified /\ r \in Rereadable THEN recap[p][r] ELSE snap[p][r]

\* Mutant: a changed input is waited for instead of refused.
RecheckWaits(p, r) ==
  /\ pc[p] = RecheckStep[r]
  /\ version[FileOf(KindOf(p), r)] = Captured(p, r)
  /\ Advance(p)
  /\ UNCHANGED <<inputs, disk, fixed, memory, scratch, cause, budget>>

Recheck(p, r) ==
  /\ pc[p] = RecheckStep[r]
  /\ \/ version[FileOf(KindOf(p), r)] = Captured(p, r) /\ Advance(p) /\ NoFault
     \/ version[FileOf(KindOf(p), r)] # Captured(p, r) /\ Refuse(p, "refused") /\ NoFault
     \/ Fault /\ Refuse(p, "refused")
  /\ UNCHANGED <<inputs, disk, fixed, memory, scratch, cause>>

------------------------------------------------------------------------------
\* _atomic_write, called to publish the candidate and, after a rejection, to
\* restore the prior bytes.
Restoring(p) == cause[p] # "none"

\* Mutant: a restoration writes the rejected candidate again.
BytesOfCandidate(p) == cand[p]

Bytes(p) == IF Restoring(p) THEN prior[p] ELSE cand[p]

\* Mutant: the temporary file is renamed before it is written.
StageUnfilled(p) ==
  /\ pc[p] = "stage"
  /\ temp' = [temp EXCEPT ![p] = Partial]
  /\ Go(p, "replace")
  /\ UNCHANGED <<inputs, output, late, fixed, memory, scratch, cause, result, budget>>

Stage(p) ==
  /\ pc[p] = "stage"
  /\ temp' = [temp EXCEPT ![p] = Partial]
  /\ Go(p, "fill")
  /\ UNCHANGED <<inputs, output, late, fixed, memory, scratch, cause, result, budget>>

Fill(p) ==
  /\ pc[p] = "fill"
  /\ temp' = [temp EXCEPT ![p] = Bytes(p)]
  /\ Go(p, "replace")
  /\ UNCHANGED <<inputs, output, late, fixed, memory, scratch, cause, result, budget>>

\* The official exporter re-raises after a rollback.  An ExporterError keeps its
\* diagnostic; an OSError of the reading back, and the ValueError or TypeError
\* of a file that is no JSON object, becomes CE_EXPORT_VERIFIED_REVIEW_ASSEMBLY_FAILED;
\* an exception it does not list (KeyError on alien JSON) leaves the command
\* without a result.
Reraise(p) ==
  \/ cause[p] # "unreadable" /\ Report(p, "invalid", FALSE, "unreported", {cause[p]})
  \/ cause[p] # "mismatch" /\ Report(p, "invalid", FALSE, "unreported", {"assembly_failed"})
  \/ cause[p] = "unrecognized" /\ Report(p, "raised", FALSE, "none", {})

Replace(p) ==
  /\ pc[p] = "replace"
  /\ Land(temp[p])
  /\ temp' = [temp EXCEPT ![p] = Absent]
  /\ \/ ~Restoring(p) /\ Go(p, "reread") /\ UNCHANGED result
     \/ Restoring(p) /\ p \in Verified /\ Reraise(p)
     \/ Restoring(p) /\ p \in Legacy /\ Go(p, "verify") /\ UNCHANGED result
  /\ UNCHANGED <<inputs, fixed, memory, scratch, cause, budget>>

\* Any step of it fails; the finally clause removes the temporary file unless
\* that fails too.
WriteFails(p) ==
  /\ pc[p] \in WriteStep
  /\ budget.faults > 0
  /\ \/ temp' = [temp EXCEPT ![p] = Absent]
        /\ budget' = [budget EXCEPT !.faults = @ - 1]
     \/ pc[p] # "stage" /\ budget.faults > 1 /\ UNCHANGED temp
        /\ budget' = [budget EXCEPT !.faults = @ - 2]
  /\ \/ ~(Restoring(p) /\ p \in Legacy) /\ Refuse(p, "write_failed")
     \/ Restoring(p) /\ p \in Legacy /\ Go(p, "inspect") /\ UNCHANGED result
  /\ UNCHANGED <<inputs, output, late, fixed, memory, scratch, cause>>

------------------------------------------------------------------------------
\* After the write: read the bytes back, then load and validate them again.
Reject(p, why) ==
  /\ cause' = [cause EXCEPT ![p] = why]
  /\ Go(p, "rollback")
  /\ UNCHANGED result

Reread(p) ==
  /\ pc[p] = "reread"
  /\ \/ output = cand[p] /\ Go(p, "reload") /\ UNCHANGED <<cause, result>> /\ NoFault
     \/ output = Absent /\ Reject(p, "unreadable") /\ NoFault
     \/ output \notin {cand[p], Absent} /\ Reject(p, "mismatch") /\ NoFault
     \/ Fault /\ Reject(p, "unreadable")
  /\ UNCHANGED <<inputs, disk, fixed, memory, scratch>>

\* The validators see whatever is at the path by then.  They pass an export of
\* the same exporter; the legacy ones may pass an official export.
Recognized(p, c) == c \in Export /\ (c.by = KindOf(p) \/ p \in Legacy)

Reload(p) ==
  /\ pc[p] = "reload"
  /\ \/ /\ Recognized(p, output)
        /\ Report(p, "successful", TRUE, "published", {})
        /\ UNCHANGED cause /\ NoFault
     \/ output = Absent /\ Reject(p, "unreadable") /\ NoFault
     \/ output # Absent /\ ~(output \in Export /\ output.by = KindOf(p))
        /\ Reject(p, "unrecognized") /\ NoFault
     \/ Fault /\ Reject(p, "unreadable")
  /\ UNCHANGED <<inputs, disk, fixed, memory, scratch>>

\* Mutant: the rejected candidate stays.
UnlinkForgotten(p) ==
  /\ pc[p] = "rollback" /\ prior[p] = Absent
  /\ \/ p \in Verified /\ Reraise(p)
     \/ p \in Legacy /\ Report(p, "invalid", FALSE, "removed", {cause[p]})
  /\ UNCHANGED <<inputs, disk, fixed, memory, scratch, cause, budget>>

\* A rejected candidate is removed when there was no prior output.
Unlink(p) ==
  /\ pc[p] = "rollback" /\ prior[p] = Absent
  /\ Land(Absent)
  /\ \/ p \in Verified /\ Reraise(p)
     \/ p \in Legacy /\ Report(p, "invalid", FALSE, "removed", {cause[p]})
  /\ UNCHANGED <<inputs, temp, fixed, memory, scratch, cause, budget>>

\* unlink raises, before or after it took effect.
UnlinkFails(p) ==
  /\ pc[p] = "rollback" /\ prior[p] = Absent
  /\ Fault
  /\ \/ UNCHANGED <<output, late>>
     \/ Land(Absent)
  /\ \/ p \in Verified /\ Refuse(p, "assembly_failed")
     \/ p \in Legacy /\ Go(p, "inspect") /\ UNCHANGED result
  /\ UNCHANGED <<inputs, temp, fixed, memory, scratch, cause>>

Restore(p) ==
  /\ pc[p] = "rollback" /\ prior[p] # Absent
  /\ Go(p, "stage")
  /\ UNCHANGED <<inputs, disk, fixed, memory, scratch, cause, result, budget>>

\* The legacy exporter reads the restored bytes back.
VerifyRestored(p) ==
  /\ pc[p] = "verify"
  /\ \/ output = prior[p] /\ Report(p, "invalid", FALSE, "restored", {cause[p]}) /\ NoFault
     \/ output # prior[p] /\ Go(p, "inspect") /\ UNCHANGED result /\ NoFault
     \/ Fault /\ Go(p, "inspect") /\ UNCHANGED result
  /\ UNCHANGED <<inputs, disk, fixed, memory, scratch, cause>>

\* Mutants: output_written is always FALSE; the first diagnostic is lost.
ReportInspectedUnwritten(p, written, state) ==
  Report(p, "invalid", FALSE, state, {cause[p], "cleanup_failed"})
ReportInspectedPlain(p, written, state) ==
  Report(p, "invalid", written, state, {"cleanup_failed"})

\* After a failed rollback the legacy exporter reports what it finds.
ReportInspected(p, written, state) ==
  Report(p, "invalid", written, state, {cause[p], "cleanup_failed"})

Inspect(p) ==
  /\ pc[p] = "inspect"
  /\ \/ output = Absent /\ ReportInspected(p, FALSE, "removed") /\ NoFault
     \/ /\ output # Absent /\ output = prior[p]
        /\ ReportInspected(p, FALSE, "restored") /\ NoFault
     \/ output \notin {Absent, prior[p]} /\ ReportInspected(p, TRUE, "persisted") /\ NoFault
     \/ Fault /\ ReportInspected(p, TRUE, "unconfirmed")
  /\ UNCHANGED <<inputs, disk, fixed, memory, scratch, cause>>

------------------------------------------------------------------------------
Run(p) ==
  \/ \E r \in Input : Capture(p, r)
  \/ CheckOutput(p) \/ InspectPrior(p) \/ ReadPrior(p) \/ Assemble(p)
  \/ \E r \in Rereadable : Recapture(p, r)
  \/ Replay(p) \/ Build(p)
  \/ \E r \in Input : Recheck(p, r)
  \/ Stage(p) \/ Fill(p) \/ Replace(p) \/ WriteFails(p)
  \/ Reread(p) \/ Reload(p) \/ Unlink(p) \/ UnlinkFails(p) \/ Restore(p)
  \/ VerifyRestored(p) \/ Inspect(p)

\* A kill loses the process; what it left on disk stays.
Crash(p) ==
  /\ pc[p] # "done" /\ p \notin crashed
  /\ crashed' = crashed \cup {p}
  /\ UNCHANGED <<inputs, disk, memory, overwrite, scratch, pc, cause, result, budget>>

Edit(f) ==
  /\ budget.edits > 0
  /\ budget' = [budget EXCEPT !.edits = @ - 1]
  /\ version' = [version EXCEPT ![f] = @ + 1]
  /\ seen' = seen \cup {version'}
  /\ UNCHANGED <<disk, fixed, memory, scratch, pc, cause, result>>

\* Another program deletes the output or puts a file of its own there.
Outside ==
  /\ budget.outside > 0
  /\ budget' = [budget EXCEPT !.outside = @ - 1]
  /\ \E c \in {Absent, Foreign} : c # output /\ Land(c)
  /\ UNCHANGED <<inputs, temp, fixed, memory, scratch, pc, cause, result>>

Earlier(k, a) == [by |-> k, inputs |-> [r \in Role |-> 0], source |-> [r \in Rereadable |-> 0],
                  allowed |-> a]
Init ==
  /\ version = [f \in File |-> 0]
  /\ seen = {version}
  /\ output \in {Absent, Foreign, Earlier("legacy", FALSE),
                 Earlier("verified", Verdict("verified", [r \in Role |-> 0]) = "allowed")}
  /\ late = {}
  /\ temp = [p \in Exporter |-> Absent]
  /\ scratch = [p \in Exporter |-> FALSE]
  /\ overwrite \in [Exporter -> BOOLEAN]
  /\ pc = [p \in Exporter |-> IF p \in Verified THEN "captureOwn" ELSE "checkOutput"]
  /\ crashed = {}
  /\ snap = [p \in Exporter |-> [r \in Role |-> 0]]
  /\ recap = [p \in Exporter |-> [r \in Rereadable |-> 0]]
  /\ prior = [p \in Exporter |-> Absent]
  /\ cand = [p \in Exporter |-> Absent]
  /\ cause = [p \in Exporter |-> "none"]
  /\ result = [p \in Exporter |->
                 [status |-> "running", written |-> FALSE, state |-> "none", diags |-> {}]]
  /\ budget = [edits |-> MaxEdits, faults |-> MaxFaults, outside |-> MaxOutside]

Next ==
  \/ \E p \in Exporter : p \notin crashed /\ Run(p)
  \/ \E p \in Exporter : Crash(p)
  \/ \E f \in File : Edit(f)
  \/ Outside

Spec == Init /\ [][Next]_vars

\* A process that is not killed keeps running: the code never waits.
Fairness == \A p \in Exporter : WF_vars(p \notin crashed /\ Run(p))
FairSpec == Spec /\ Fairness

------------------------------------------------------------------------------
\* Every variable has its type.
TypeOK ==
  /\ version \in [File -> Nat] /\ seen \subseteq [File -> Nat]
  /\ output \in Content /\ late \subseteq Exporter
  /\ temp \in [Exporter -> Content \cup {Partial}]
  /\ scratch \in [Exporter -> BOOLEAN] /\ overwrite \in [Exporter -> BOOLEAN]
  /\ pc \in [Exporter -> Step] /\ (\A p \in Legacy : pc[p] \notin OfficialStep)
  /\ crashed \subseteq Exporter
  /\ snap \in [Exporter -> [Role -> Nat]] /\ recap \in [Exporter -> [Rereadable -> Nat]]
  /\ prior \in [Exporter -> Content] /\ cand \in [Exporter -> Export \cup {Absent}]
  /\ cause \in [Exporter -> Rejection]
  /\ result \in [Exporter -> [status : Status, written : BOOLEAN, state : ArtifactState,
                              diags : SUBSET Diag]]
  /\ budget \in [edits : Nat, faults : Nat, outside : Nat]

\* The snapshots and the byte-stability checks together give what none of them
\* gives alone: the inputs of the artifact at the output path, those of the
\* payload and those of the envelope around it, were on disk together at some
\* instant, however many exporters and edits interleaved.
Coexisted(e) ==
  \E v \in seen :
    /\ \A r \in ReadBy(e.by) : e.inputs[r] = v[FileOf(e.by, r)]
    /\ \A r \in Rereadable : e.source[r] = v[r]
PublishedInputsCoexisted == output \in Export => Coexisted(output)

\* A reader of the output path never finds a file that is not completely
\* written, even when the writer is killed (_atomic_write).
NoTornOutput == output # Partial

\* An artifact that grants a handoff is the official exporter's, and one instant
\* accounts for all of it: there were files on disk that are the inputs of its
\* payload and the sources of its envelope, and the official evaluation allows
\* just these.  A legacy preview or a mix of two versions never grants one.
HandoffIsEarned ==
  output \in Export /\ output.allowed =>
    /\ output.by = "verified"
    /\ \E v \in seen :
         /\ output.inputs = [r \in Role |-> v[FileOf("verified", r)]]
         /\ output.source = [r \in Rereadable |-> v[r]]
         /\ Verdict("verified", output.inputs) = "allowed"

\* An exporter changes an existing output only with --overwrite and when it is
\* CE-owned; the one exception is an output that landed after its own check.
Replaces(p) == pc'[p] # pc[p] /\ output' # output
MayReplace(p) == output = Absent \/ p \in late \/ (overwrite[p] /\ output \in Export)
GuardedReplacement == [][\A p \in Exporter : Replaces(p) => MayReplace(p)]_vars

\* What a lone exporter reports of its candidate and of the file is so: success
\* means the candidate is there, output_written = false that it is not, and
\* "removed", "restored" and "persisted" name what is at the path.
ReportMatchesDisk ==
  \A p \in Exporter : pc[p] = "done" =>
    /\ result[p].status = "successful" => output = cand[p]
    /\ ~result[p].written /\ output = cand[p] => cand[p] \in {Absent, prior[p]}
    /\ result[p].state = "removed" => output = Absent
    /\ result[p].state = "restored" => output = prior[p]
    /\ result[p].state = "persisted" => output \notin {Absent, prior[p]}

\* The diagnostic a candidate of the legacy exporter was rejected for is in the
\* result, whatever else goes wrong while the rejection is handled.
RejectionRetained ==
  \A p \in Legacy :
    result[p].status = "invalid" /\ cause[p] # "none" => cause[p] \in result[p].diags

\* A rejected candidate that is still at the output path is reported as written
\* and with a cleanup failure (docs/CE_PROJECT_GATE_EXPORTER.md:207).
FailedCleanupIsReported ==
  \A p \in Exporter :
    /\ result[p].status = "invalid" /\ cause[p] # "none"
    /\ output = cand[p] /\ prior[p] # cand[p]
    => result[p].written /\ "cleanup_failed" \in result[p].diags

\* An exporter that ends leaves temporary files or private snapshots behind
\* only when it says that a write or a cleanup failed.
NoSilentResidue ==
  \A p \in Exporter : pc[p] = "done" =>
    /\ scratch[p] => "scratch_left" \in result[p].diags
    /\ temp[p] # Absent => result[p].diags \cap {"write_failed", "cleanup_failed"} # {}

\* Every transaction ends, with a result or killed.
EveryTransactionEnds == \A p \in Exporter : <>(p \in crashed \/ pc[p] = "done")
==============================================================================
