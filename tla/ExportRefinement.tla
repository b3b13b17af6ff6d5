-------------------------- MODULE ExportRefinement ---------------------------
(***************************************************************************)
(* One exporter that has the output path to itself implements the atomic   *)
(* publication of AtomicPublish: its report, not the program counter, is   *)
(* what the outcome is read from.                                          *)
(***************************************************************************)
EXTENDS ExportTransaction

CONSTANT Self   \* the one exporter

ASSUME SoloAssumption == Exporter = {Self}

\* Steps before the exporter knows the prior output.
BeforeSave(p) ==
  pc[p] \in {"captureOwn", "captureIntake", "captureBundle", "checkOutput", "inspectPrior",
             "readPrior"}
    \ (IF p \in Legacy /\ pc[p] \notin {"checkOutput", "readPrior"} THEN {pc[p]} ELSE {})

OnTrial(p) == pc[p] \in AfterWrite \/ (pc[p] \in WriteStep /\ Restoring(p))

\* How a reader of the ExportResult, or of no result, takes it.
Outcome(p) ==
  CASE result[p].status = "successful" -> "kept"
    [] result[p].status = "invalid" /\ result[p].written -> "stranded"
    [] result[p].status = "invalid" /\ ~result[p].written /\ cause[p] # "none" -> "reverted"
    [] OTHER -> "abandoned"

PhaseOf(p) ==
  CASE p \in crashed -> IF OnTrial(p) THEN "stranded" ELSE "abandoned"
    [] p \notin crashed /\ pc[p] = "done" -> Outcome(p)
    [] p \notin crashed /\ BeforeSave(p) -> "open"
    [] p \notin crashed /\ OnTrial(p) -> "trial"
    [] OTHER -> "saved"

Publication ==
  INSTANCE AtomicPublish WITH
    Offerable <- Export,
    Nothing <- Absent,
    artifact <- output,
    saved <- prior[Self],
    offered <- IF PhaseOf(Self) \in {"trial", "kept", "reverted", "stranded"}
               THEN cand[Self] ELSE Absent,
    phase <- PhaseOf(Self)

\* What an exporter's report says of the output is true of the file, through
\* failing writes, rollbacks, interrupted cleanups and kills: success keeps the
\* offer, a plain rejection restores what was there, and every other end is
\* reported as one not to be relied on.
ImplementsAtomicPublish == Publication!Spec
==============================================================================
