--------------------------- MODULE EvaluationProofs ---------------------------
(***************************************************************************)
(* What an accepted payload rests on, for every set of inputs and files    *)
(* and any number of edits.                                                *)
(***************************************************************************)
EXTENDS HandoffGate, TLAPS

RequestCount == Len(input.requests)
SourceCount == Len(input.sources)

\* The file of a request that is being executed and of a source that is being read.
Target == input.requests[step].file
CitedFile == input.sources[step].file

\* Some version of f that is as recent as the end of the first round and not after d.
Since(f, d) == {v \in 1..d : between[f] <= v}

HistoryInv ==
  /\ history \in [Files -> Seq(Contents) \ {<<>>}]
  /\ between \in [Files -> Nat] /\ \A f \in Files : between[f] <= Version(f)

\* Where the evaluation is.
StepInv ==
  /\ input \in Inputs
  /\ pc \in {"start", "resolve", "load", "digest", "check", "parse", "done"}
  /\ round \in {1, 2} /\ step \in Nat \ {0}
  /\ pc = "start" => step = 1 /\ batch = {} /\ found = {}
  /\ pc = "resolve" => step <= RequestCount + 1
  /\ pc \in {"load", "digest"} =>
       step <= RequestCount /\ Target \in Files /\ Request.row.claim \in PostBuilderRuntime
  /\ pc = "check" => step <= SourceCount + 1
  /\ pc = "parse" => step <= SourceCount /\ Source.row \in Rows(input)
  /\ step <= RequestCount + SourceCount + 1
  /\ outcome \in {"none", "refused", "raised", "accepted"}

\* What the target or the source in hand was when it was read first.
SeenInv ==
  /\ seen \in {"none", "holds", "fails"}
  /\ pc = "digest" => \E v \in Since(Target, Version(Target)) : history[Target][v] = seen
  /\ pc = "parse" => Source.pin = 0 \/ Source.pin \in Since(CitedFile, Version(CitedFile))

\* A result answers a request and was computed from a version no later than the one on record.
Asked(b) == \E i \in DOMAIN input.requests :
              input.requests[i].row = b.row /\ input.requests[i].file = b.file
BatchInv ==
  \A b \in batch :
    /\ Asked(b)
    /\ b.row.claim \in PostBuilderRuntime /\ b.passed \in BOOLEAN
    /\ b.file \in Files /\ b.digest \in 1..Version(b.file)
    /\ \E v \in Since(b.file, b.digest) : b.passed = (history[b.file][v] = "holds")

\* A record of a source names the bytes that the parser read.
FoundInv ==
  \A s \in found :
    /\ s.source \in DOMAIN input.sources /\ s.row = input.sources[s.source].row
    /\ s.row \in Rows(input) /\ s.file = input.sources[s.source].file
    /\ s.file \in Files /\ s.digest \in 0..Version(s.file)
    /\ s.read = "holds" =>
         /\ s.digest \in Since(s.file, s.digest) /\ history[s.file][s.digest] = "holds"
         /\ \/ input.sources[s.source].pin = 0
            \/ input.sources[s.source].pin \in Since(s.file, s.digest)

\* The saved payload records no later version than those at the end of its round.
SavedInv ==
  round = 2 =>
    /\ \A b \in saved.batch : b.file \in Files /\ b.digest <= between[b.file]
    /\ \A s \in saved.found : s.file \in Files /\ s.digest <= between[s.file]

AcceptInv ==
  outcome = "accepted" => pc = "done" /\ round = 2 /\ saved = Payload(input, Evidence)

EvidenceInv ==
  HistoryInv /\ StepInv /\ SeenInv /\ BatchInv /\ FoundInv /\ SavedInv /\ AcceptInv

LEMMA PayloadRecords ==
  ASSUME NEW in, NEW e
  PROVE  Payload(in, e).batch = e.batch /\ Payload(in, e).found = e.found
BY DEF Payload

\* The invariant says all that the properties need of an accepted payload.
LEMMA Accepted ==
  ASSUME EvidenceInv, Exportable
  PROVE  saved = Payload(input, Evidence) /\ saved.batch = batch /\ saved.found = found /\ round = 2
<1>1. saved = Payload(input, Evidence) /\ round = 2 BY DEF EvidenceInv, AcceptInv, Exportable
<1>2. QED BY <1>1, PayloadRecords DEF Evidence

LEMMA AcceptedCoexisted == EvidenceInv => EvidenceCoexisted
<1> SUFFICES ASSUME EvidenceInv, Exportable
             PROVE  /\ \A b \in saved.batch : b.digest = between[b.file]
                    /\ \A s \in saved.found : s.read = "holds" => s.digest = between[s.file]
  BY DEF EvidenceCoexisted
<1>1. \A f \in Files : between[f] \in Nat /\ Version(f) \in Nat
  BY DEF EvidenceInv, HistoryInv, Version
<1>2. ASSUME NEW b \in saved.batch PROVE b.digest = between[b.file]
  <2>1. b.file \in Files /\ b.digest <= between[b.file] BY Accepted DEF EvidenceInv, SavedInv
  <2>2. b.digest \in 1..Version(b.file) /\ Since(b.file, b.digest) # {}
    BY Accepted DEF EvidenceInv, BatchInv
  <2>3. QED BY <1>1, <2>1, <2>2 DEF Since
<1>3. ASSUME NEW s \in saved.found, s.read = "holds" PROVE s.digest = between[s.file]
  <2>1. s.file \in Files /\ s.digest <= between[s.file] BY Accepted DEF EvidenceInv, SavedInv
  <2>2. s.digest \in Since(s.file, s.digest) /\ s.digest \in 0..Version(s.file)
    BY <1>3, Accepted DEF EvidenceInv, FoundInv
  <2>3. QED BY <1>1, <2>1, <2>2 DEF Since
<1>4. QED BY <1>2, <1>3

LEMMA AcceptedOfRecordedBytes == EvidenceInv => EvidenceIsOfRecordedBytes
<1> SUFFICES ASSUME EvidenceInv, Exportable
             PROVE  /\ \A b \in saved.batch : b.passed <=> HoldsInRecord(b.file, b.digest)
                    /\ \A s \in saved.found : s.read = "holds" =>
                         /\ HoldsInRecord(s.file, s.digest)
                         /\ input.sources[s.source].pin \in {0, s.digest}
  BY DEF EvidenceIsOfRecordedBytes
<1>1. \A f \in Files : between[f] \in Nat /\ Version(f) \in Nat
  BY DEF EvidenceInv, HistoryInv, Version
<1>2. EvidenceCoexisted BY AcceptedCoexisted
<1>3. ASSUME NEW b \in saved.batch PROVE b.passed <=> HoldsInRecord(b.file, b.digest)
  <2>1. b.file \in Files /\ b.digest \in 1..Version(b.file) /\ b.passed \in BOOLEAN
    BY Accepted DEF EvidenceInv, BatchInv
  <2>2. PICK v \in Since(b.file, b.digest) : b.passed = (history[b.file][v] = "holds")
    BY Accepted DEF EvidenceInv, BatchInv
  <2>3. v = b.digest BY <1>1, <1>2, <2>1 DEF EvidenceCoexisted, Since
  <2>4. QED BY <2>1, <2>2, <2>3 DEF HoldsInRecord
<1>4. ASSUME NEW s \in saved.found, s.read = "holds"
      PROVE  HoldsInRecord(s.file, s.digest) /\ input.sources[s.source].pin \in {0, s.digest}
  <2>1. /\ s.file \in Files /\ s.digest \in 0..Version(s.file)
        /\ s.digest \in Since(s.file, s.digest) /\ history[s.file][s.digest] = "holds"
        /\ \/ input.sources[s.source].pin = 0
           \/ input.sources[s.source].pin \in Since(s.file, s.digest)
    BY <1>4, Accepted DEF EvidenceInv, FoundInv
  <2>2. s.digest = between[s.file] BY <1>2, <1>4 DEF EvidenceCoexisted
  <2>3. QED BY <1>1, <2>1, <2>2 DEF HoldsInRecord, Since
<1>5. QED BY <1>3, <1>4
-------------------------------------------------------------------------------
\* The invariant is inductive.

LEMMA InputsTyped ==
  ASSUME input \in Inputs
  PROVE  /\ RequestCount \in Nat /\ DOMAIN input.requests = 1..RequestCount
         /\ SourceCount \in Nat /\ DOMAIN input.sources = 1..SourceCount
         /\ \A i \in DOMAIN input.requests : input.requests[i].file \in Files \cup {NoFile}
         /\ \A i \in DOMAIN input.sources :
              input.sources[i].file \in Files /\ input.sources[i].pin \in Nat
<1> DEFINE Requests == [row : RowType, file : Files \cup {NoFile}]
           Sources == [row : RowType, file : Files, pin : Nat]
<1>1. input.requests \in Seq(Requests) /\ input.sources \in Seq(Sources) BY InputsAssumption
<1>2. /\ \A q \in Requests : q.file \in Files \cup {NoFile}
      /\ \A s \in Sources : s.file \in Files /\ s.pin \in Nat
  OBVIOUS
<1> HIDE DEF Requests, Sources
<1>3. /\ Len(input.requests) \in Nat /\ DOMAIN input.requests = 1..Len(input.requests)
      /\ \A i \in DOMAIN input.requests : input.requests[i] \in Requests
  BY <1>1
<1>4. /\ Len(input.sources) \in Nat /\ DOMAIN input.sources = 1..Len(input.sources)
      /\ \A i \in DOMAIN input.sources : input.sources[i] \in Sources
  BY <1>1
<1>5. QED BY <1>2, <1>3, <1>4 DEF RequestCount, SourceCount

LEMMA CountsKept ==
  UNCHANGED input => UNCHANGED <<RequestCount, SourceCount>>
BY DEF RequestCount, SourceCount

LEMMA RowsKept == UNCHANGED input => UNCHANGED Rows(input)
BY DEF Rows, RequiredClaims, ActionsOn

LEMMA InHandKept ==
  UNCHANGED <<input, step>> => UNCHANGED <<Request, Source, Target, CitedFile>>
BY DEF Request, Source, Target, CitedFile

LEMMA VersionsTyped ==
  ASSUME HistoryInv
  PROVE  \A f \in Files : /\ Version(f) \in Nat \ {0} /\ Current(f) \in Contents
                          /\ between[f] \in 0..Version(f) /\ Version(f) \in Since(f, Version(f))
<1> SUFFICES ASSUME NEW f \in Files
             PROVE  /\ Version(f) \in Nat \ {0} /\ Current(f) \in Contents
                    /\ between[f] \in 0..Version(f) /\ Version(f) \in Since(f, Version(f))
  OBVIOUS
<1>1. history[f] \in Seq(Contents) /\ history[f] # <<>> BY DEF HistoryInv
<1>2. Version(f) \in Nat \ {0} /\ Current(f) \in Contents BY <1>1 DEF Version, Current
<1>3. QED BY <1>2 DEF HistoryInv, Since

LEMMA EvidenceInit == Init => EvidenceInv
<1> SUFFICES ASSUME Init PROVE EvidenceInv OBVIOUS
<1>1. HistoryInv
  <2>1. ASSUME NEW f \in Files PROVE history[f] \in Seq(Contents) \ {<<>>} /\ Version(f) \in Nat
    <3>1. PICK c \in Contents : history[f] = <<c>> BY DEF Init
    <3>2. QED BY <3>1 DEF Version
  <2>2. history = [f \in Files |-> history[f]] BY DEF Init
  <2>3. QED BY <2>1, <2>2 DEF Init, HistoryInv
<1>2. StepInv
  <2>1. input \in Inputs /\ RequestCount \in Nat /\ SourceCount \in Nat
    BY InputsTyped DEF Init
  <2>2. /\ pc = "start" /\ round = 1 /\ step = 1 /\ batch = {} /\ found = {}
        /\ outcome = "none"
    BY DEF Init
  <2>3. QED BY <2>1, <2>2 DEF StepInv
<1>3. QED BY <1>1, <1>2
     DEF EvidenceInv, Init, SeenInv, BatchInv, FoundInv, SavedInv, AcceptInv

\* A step that ends the evaluation without accepting it.
LEMMA EndStep ==
  ASSUME EvidenceInv, NEW result \in {"refused", "raised"}, End(result)
  PROVE  EvidenceInv'
<1>1. HistoryInv' BY DEF EvidenceInv, HistoryInv, End, Version
<1>2. StepInv' BY CountsKept, InHandKept DEF EvidenceInv, StepInv, End
<1>3. SeenInv' BY DEF EvidenceInv, SeenInv, End
<1>4. BatchInv' BY DEF EvidenceInv, BatchInv, Asked, End, Version, Since
<1>5. FoundInv' BY RowsKept DEF EvidenceInv, FoundInv, End, Version, Since
<1>6. SavedInv' BY DEF EvidenceInv, SavedInv, End
<1>7. AcceptInv' BY DEF AcceptInv, End
<1>8. QED BY <1>1, <1>2, <1>3, <1>4, <1>5, <1>6, <1>7 DEF EvidenceInv

\* A step that reads no file and records nothing moves on only.
LEMMA QuietStep ==
  ASSUME EvidenceInv, StepInv', SeenInv', pc # "done",
         UNCHANGED <<input, history, round, batch, found, saved, between, outcome>>
  PROVE  EvidenceInv'
<1>1. HistoryInv' BY DEF EvidenceInv, HistoryInv, Version
<1>2. BatchInv' BY DEF EvidenceInv, BatchInv, Asked, Version, Since
<1>3. FoundInv' BY RowsKept DEF EvidenceInv, FoundInv, Version, Since
<1>4. SavedInv' BY DEF EvidenceInv, SavedInv
<1>5. AcceptInv' BY DEF EvidenceInv, AcceptInv
<1>6. QED BY <1>1, <1>2, <1>3, <1>4, <1>5 DEF EvidenceInv

\* A step of the program that leaves the files alone and takes them to the next one.
LEMMA StartStep == EvidenceInv /\ Start => EvidenceInv'
<1> SUFFICES ASSUME EvidenceInv, Start PROVE EvidenceInv' OBVIOUS
<1>1. CASE input.actions = {} BY <1>1, EndStep DEF Start
<1>2. CASE input.actions # {}
  <2>1. /\ pc = "start" /\ pc' = "resolve" /\ step' = 1
        /\ UNCHANGED <<input, history, round, seen, saved, between, outcome, batch, found>>
    BY <1>2 DEF Start, Advance
  <2>2. input \in Inputs /\ RequestCount \in Nat /\ SourceCount \in Nat
    BY InputsTyped DEF EvidenceInv, StepInv
  <2>3. StepInv' BY <2>1, <2>2, CountsKept DEF EvidenceInv, StepInv
  <2>4. SeenInv' BY <2>1 DEF EvidenceInv, SeenInv
  <2>5. QED BY <2>1, <2>3, <2>4, QuietStep
<1>3. QED BY <1>1, <1>2

LEMMA ResolveStep == EvidenceInv /\ Resolve => EvidenceInv'
<1> SUFFICES ASSUME EvidenceInv, Resolve PROVE EvidenceInv' OBVIOUS
<1>1. /\ pc = "resolve" /\ step \in 1..RequestCount
      /\ RequestCount \in Nat /\ SourceCount \in Nat
      /\ Target \in Files \cup {NoFile}
  BY InputsTyped DEF EvidenceInv, StepInv, Resolve, Target, RequestCount
<1>2. CASE RefusedRequest BY <1>2, EndStep DEF Resolve
<1>3. CASE ~RefusedRequest /\ (Request.file = NoFile \/ Current(Request.file) = "missing")
  <2>1. /\ pc' = "resolve" /\ step' = step + 1
        /\ UNCHANGED <<input, history, round, seen, saved, between, outcome, batch, found>>
    BY <1>1, <1>3 DEF Resolve, Advance
  <2>2. StepInv' BY <1>1, <2>1, CountsKept DEF EvidenceInv, StepInv
  <2>3. SeenInv' BY <2>1 DEF EvidenceInv, SeenInv
  <2>4. QED BY <1>1, <2>1, <2>2, <2>3, QuietStep
<1>4. CASE ~RefusedRequest /\ ~(Request.file = NoFile \/ Current(Request.file) = "missing")
  <2>1. /\ pc' = "load"
        /\ UNCHANGED <<input, history, round, step, seen, batch, found, saved, between, outcome>>
    BY <1>4 DEF Resolve
  <2>2. Target \in Files /\ Request.row.claim \in PostBuilderRuntime
    BY <1>1, <1>4 DEF Request, Target, RefusedRequest
  <2>3. StepInv' BY <1>1, <2>1, <2>2, CountsKept, InHandKept DEF EvidenceInv, StepInv
  <2>4. SeenInv' BY <2>1 DEF EvidenceInv, SeenInv
  <2>5. QED BY <1>1, <2>1, <2>3, <2>4, QuietStep
<1>5. QED BY <1>2, <1>3, <1>4

LEMMA LoadStep == EvidenceInv /\ Load => EvidenceInv'
<1> SUFFICES ASSUME EvidenceInv, Load PROVE EvidenceInv' OBVIOUS
<1>1. pc = "load" /\ Target \in Files /\ Target = Request.file
  BY DEF EvidenceInv, StepInv, Load, Target, Request
<1>2. CASE Current(Request.file) \in {"malformed", "missing"} BY <1>2, EndStep DEF Load
<1>3. CASE Current(Request.file) \notin {"malformed", "missing"}
  <2>1. /\ pc' = "digest" /\ seen' = Current(Target)
        /\ UNCHANGED <<input, history, round, step, batch, found, saved, between, outcome>>
    BY <1>1, <1>3 DEF Load
  <2>2. StepInv' BY <1>1, <2>1, CountsKept, InHandKept DEF EvidenceInv, StepInv
  <2>3. /\ Current(Target) \in {"holds", "fails"}
        /\ Version(Target) \in Since(Target, Version(Target))
        /\ history[Target][Version(Target)] = Current(Target)
    BY <1>1, <1>3, VersionsTyped DEF EvidenceInv, Contents, Current
  <2>4. SeenInv'
    <3>1. /\ Target' = Target /\ Version(Target)' = Version(Target)
          /\ Since(Target, Version(Target))' = Since(Target, Version(Target))
      BY <2>1 DEF Target, Version, Since
    <3>2. QED BY <2>1, <2>3, <3>1 DEF SeenInv
  <2>5. QED BY <1>1, <2>1, <2>2, <2>4, QuietStep
<1>4. QED BY <1>2, <1>3

LEMMA ExecutedStep == EvidenceInv /\ Executed => EvidenceInv'
<1> SUFFICES ASSUME EvidenceInv, Executed PROVE EvidenceInv' OBVIOUS
<1>1. /\ pc = "resolve" /\ pc' = "check" /\ step' = 1
      /\ UNCHANGED <<input, history, round, seen, saved, between, outcome, batch, found>>
  BY DEF Executed, Advance
<1>2. input \in Inputs /\ RequestCount \in Nat /\ SourceCount \in Nat
  BY InputsTyped DEF EvidenceInv, StepInv
<1>3. StepInv' BY <1>1, <1>2, CountsKept DEF EvidenceInv, StepInv
<1>4. SeenInv' BY <1>1 DEF EvidenceInv, SeenInv
<1>5. QED BY <1>1, <1>3, <1>4, QuietStep

LEMMA DigestStep == EvidenceInv /\ Digest => EvidenceInv'
<1> SUFFICES ASSUME EvidenceInv, Digest PROVE EvidenceInv' OBVIOUS
<1>1. /\ pc = "digest" /\ Target \in Files /\ Target = Request.file
      /\ Request.row.claim \in PostBuilderRuntime
      /\ step \in 1..RequestCount /\ RequestCount \in Nat /\ SourceCount \in Nat
  BY InputsTyped DEF EvidenceInv, StepInv, Digest, Target, Request
<1>2. CASE Current(Request.file) = "missing" BY <1>2, EndStep DEF Digest
<1>3. CASE Current(Request.file) # "missing"
  <2> DEFINE new == [row |-> Request.row, passed |-> seen = "holds",
                     file |-> Request.file, digest |-> Version(Request.file)]
  <2>1. /\ pc' = "resolve" /\ step' = step + 1 /\ seen' = "none" /\ batch' = batch \cup {new}
        /\ UNCHANGED <<input, history, round, found, saved, between, outcome>>
    BY <1>3 DEF Digest
  <2>2. HistoryInv' BY <2>1 DEF EvidenceInv, HistoryInv, Version
  <2>3. StepInv' BY <1>1, <2>1, CountsKept DEF EvidenceInv, StepInv
  <2>4. SeenInv' BY <2>1 DEF SeenInv
  <2>5. BatchInv'
    <3>1. /\ Asked(new) /\ new.row.claim \in PostBuilderRuntime /\ new.passed \in BOOLEAN
          /\ new.file \in Files /\ new.digest \in 1..Version(new.file)
      BY <1>1, VersionsTyped, InputsTyped DEF EvidenceInv, StepInv, Asked, Request
    <3>2. \E v \in Since(new.file, new.digest) : new.passed = (history[new.file][v] = "holds")
      BY <1>1 DEF EvidenceInv, SeenInv
    <3> HIDE DEF new
    <3>3. \A b \in batch' : /\ Asked(b) /\ b.row.claim \in PostBuilderRuntime /\ b.passed \in BOOLEAN
                            /\ b.file \in Files /\ b.digest \in 1..Version(b.file)
                            /\ \E v \in Since(b.file, b.digest) :
                                 b.passed = (history[b.file][v] = "holds")
      BY <2>1, <3>1, <3>2 DEF EvidenceInv, BatchInv
    <3>4. QED BY <2>1, <3>3 DEF BatchInv, Version, Since, Asked
  <2>6. FoundInv' BY <2>1, RowsKept DEF EvidenceInv, FoundInv, Version, Since
  <2>7. SavedInv' BY <2>1 DEF EvidenceInv, SavedInv
  <2>8. AcceptInv' BY <1>1, <2>1 DEF EvidenceInv, AcceptInv
  <2>9. QED BY <2>2, <2>3, <2>4, <2>5, <2>6, <2>7, <2>8 DEF EvidenceInv
<1>4. QED BY <1>2, <1>3

\* What a source gives is put on record, with a digest if it establishes the claim.
LEMMA RecordStep ==
  ASSUME EvidenceInv, pc \in {"check", "parse"}, step \in 1..SourceCount, Source.row \in Rows(input),
         NEW read, NEW digest, Record(read, digest),
         \/ read # "holds" /\ digest = 0
         \/ /\ pc = "parse" /\ read = "holds"
            /\ Current(CitedFile) = "holds" /\ digest = Version(CitedFile)
  PROVE  EvidenceInv'
<1> DEFINE new == [row |-> Source.row, source |-> step, file |-> Source.file,
                   read |-> read, digest |-> digest]
<1>1. /\ pc' = "check" /\ step' = step + 1 /\ found' \subseteq found \cup {new}
      /\ UNCHANGED <<input, history, round, seen, batch, saved, between, outcome>>
  BY DEF Record
<1>2. /\ step \in DOMAIN input.sources /\ CitedFile \in Files /\ Source.pin \in Nat
      /\ RequestCount \in Nat /\ SourceCount \in Nat
      /\ Source = input.sources[step] /\ CitedFile = Source.file
  BY InputsTyped DEF EvidenceInv, StepInv, Source, CitedFile
<1>3. HistoryInv' BY <1>1 DEF EvidenceInv, HistoryInv, Version
<1>4. StepInv' BY <1>1, <1>2, CountsKept DEF EvidenceInv, StepInv
<1>5. SeenInv' BY <1>1 DEF EvidenceInv, SeenInv
<1>6. BatchInv' BY <1>1 DEF EvidenceInv, BatchInv, Asked, Version, Since
<1>7. FoundInv'
  <2>1. /\ Version(CitedFile) \in Nat \ {0}
        /\ history[CitedFile][Version(CitedFile)] = Current(CitedFile)
        /\ Version(CitedFile) \in Since(CitedFile, Version(CitedFile))
    BY <1>2, VersionsTyped DEF EvidenceInv, Current
  <2>2. /\ new.source \in DOMAIN input.sources /\ new.row = input.sources[new.source].row
        /\ new.row \in Rows(input) /\ new.file = input.sources[new.source].file
        /\ new.file \in Files /\ new.digest \in 0..Version(new.file)
    BY <1>2, <2>1
  <2>3. new.read = "holds" =>
          /\ new.digest \in Since(new.file, new.digest) /\ history[new.file][new.digest] = "holds"
          /\ \/ input.sources[new.source].pin = 0
             \/ input.sources[new.source].pin \in Since(new.file, new.digest)
    BY <1>2, <2>1 DEF EvidenceInv, SeenInv
  <2> HIDE DEF new
  <2>4. QED BY <1>1, <2>2, <2>3, RowsKept DEF EvidenceInv, FoundInv, Version, Since
<1>8. SavedInv' BY <1>1 DEF EvidenceInv, SavedInv
<1>9. AcceptInv' BY <1>1 DEF EvidenceInv, AcceptInv
<1>10. QED BY <1>3, <1>4, <1>5, <1>6, <1>7, <1>8, <1>9 DEF EvidenceInv

LEMMA CheckStep == EvidenceInv /\ Check => EvidenceInv'
<1> SUFFICES ASSUME EvidenceInv, Check PROVE EvidenceInv' OBVIOUS
<1>1. /\ pc = "check" /\ step \in 1..SourceCount
      /\ RequestCount \in Nat /\ SourceCount \in Nat
      /\ CitedFile \in Files /\ Source.pin \in Nat /\ CitedFile = Source.file
  BY InputsTyped DEF EvidenceInv, StepInv, Check, SourceCount, CitedFile, Source
<1>2. CASE ~Wanted
  <2>1. /\ pc' = "check" /\ step' = step + 1
        /\ UNCHANGED <<input, history, round, seen, saved, between, outcome, batch, found>>
    BY <1>1, <1>2 DEF Check, Skip, Advance
  <2>2. StepInv' BY <1>1, <2>1, CountsKept DEF EvidenceInv, StepInv
  <2>3. SeenInv' BY <2>1 DEF EvidenceInv, SeenInv
  <2>4. QED BY <1>1, <2>1, <2>2, <2>3, QuietStep
<1>3. CASE Wanted /\ Current(Source.file) = "missing"
  <2>1. Record("missing", 0) BY <1>3 DEF Check
  <2>2. QED BY <1>1, <1>3, <2>1, RecordStep DEF Wanted
<1>4. CASE /\ Wanted /\ Current(Source.file) # "missing"
           /\ Source.pin \notin {0, Version(Source.file)}
  <2>1. Record("differs", 0) BY <1>4 DEF Check
  <2>2. QED BY <1>1, <1>4, <2>1, RecordStep DEF Wanted
<1>5. CASE /\ Wanted /\ Current(Source.file) # "missing"
           /\ Source.pin \in {0, Version(Source.file)}
  <2>1. /\ pc' = "parse"
        /\ UNCHANGED <<input, history, round, step, seen, batch, found, saved, between, outcome>>
    BY <1>5 DEF Check
  <2>2. StepInv' BY <1>1, <1>5, <2>1, CountsKept, InHandKept, RowsKept
    DEF EvidenceInv, StepInv, Wanted
  <2>3. SeenInv'
    <3>1. Source.pin = 0 \/ Source.pin \in Since(CitedFile, Version(CitedFile))
      BY <1>1, <1>5, VersionsTyped DEF EvidenceInv
    <3>2. Since(CitedFile, Version(CitedFile))' = Since(CitedFile, Version(CitedFile))
      BY <2>1, InHandKept DEF Version, Since
    <3>3. QED BY <2>1, <3>1, <3>2, InHandKept DEF EvidenceInv, SeenInv
  <2>4. QED BY <1>1, <2>1, <2>2, <2>3, QuietStep
<1>6. QED BY <1>2, <1>3, <1>4, <1>5

LEMMA ParseStep == EvidenceInv /\ Parse => EvidenceInv'
<1> SUFFICES ASSUME EvidenceInv, Parse PROVE EvidenceInv' OBVIOUS
<1>1. pc = "parse" /\ step \in 1..SourceCount /\ Source.row \in Rows(input) /\ CitedFile = Source.file
  BY InputsTyped DEF EvidenceInv, StepInv, Parse, CitedFile, Source
<1>2. CASE Current(CitedFile) = "holds"
  <2>1. Record("holds", Version(CitedFile)) BY <1>1, <1>2 DEF Parse
  <2>2. QED BY <1>1, <1>2, <2>1, RecordStep
<1>3. CASE Current(CitedFile) # "holds"
  <2>1. Record(Current(CitedFile), 0) BY <1>1, <1>3 DEF Parse
  <2>2. QED BY <1>1, <1>3, <2>1, RecordStep
<1>4. QED BY <1>2, <1>3

\* The first round ends: nothing on record is later than the files are now.
LEMMA AssembleStep == EvidenceInv /\ Assemble => EvidenceInv'
<1> SUFFICES ASSUME EvidenceInv, Assemble PROVE EvidenceInv' OBVIOUS
<1>1. /\ pc = "check" /\ pc' = "start" /\ round' = 2 /\ step' = 1 /\ batch' = {} /\ found' = {}
      /\ saved' = Payload(input, Evidence) /\ between' = [f \in Files |-> Version(f)]
      /\ UNCHANGED <<input, history, seen, outcome>>
  BY DEF Assemble
<1>2. /\ RequestCount \in Nat /\ SourceCount \in Nat
      /\ \A f \in Files : Version(f) \in Nat /\ Version(f)' = Version(f)
  BY <1>1, InputsTyped, VersionsTyped DEF EvidenceInv, StepInv, Version
<1>3. HistoryInv' BY <1>1, <1>2 DEF EvidenceInv, HistoryInv
<1>4. StepInv' BY <1>1, <1>2, CountsKept DEF EvidenceInv, StepInv
<1>5. SeenInv' BY <1>1 DEF EvidenceInv, SeenInv
<1>6. BatchInv' /\ FoundInv' BY <1>1 DEF BatchInv, FoundInv
<1>7. SavedInv'
  <2>1. saved'.batch = batch /\ saved'.found = found BY <1>1, PayloadRecords DEF Evidence
  <2>2. \A b \in batch : b.file \in Files /\ b.digest <= between'[b.file]
    BY <1>1, <1>2 DEF EvidenceInv, BatchInv
  <2>3. \A s \in found : s.file \in Files /\ s.digest <= between'[s.file]
    BY <1>1, <1>2 DEF EvidenceInv, FoundInv
  <2>4. QED BY <2>1, <2>2, <2>3 DEF SavedInv
<1>8. AcceptInv' BY <1>1 DEF EvidenceInv, AcceptInv
<1>9. QED BY <1>3, <1>4, <1>5, <1>6, <1>7, <1>8 DEF EvidenceInv

LEMMA CompareStep == EvidenceInv /\ Compare => EvidenceInv'
<1> SUFFICES ASSUME EvidenceInv, Compare PROVE EvidenceInv' OBVIOUS
<1>1. CASE Payload(input, Evidence) # saved BY <1>1, EndStep DEF Compare
<1>2. CASE Payload(input, Evidence) = saved
  <2>1. /\ round = 2 /\ pc' = "done" /\ outcome' = "accepted"
        /\ UNCHANGED <<input, history, round, step, seen, batch, found, saved, between>>
    BY <1>2 DEF Compare, End
  <2>2. HistoryInv' BY <2>1 DEF EvidenceInv, HistoryInv, Version
  <2>3. StepInv' BY <2>1, CountsKept DEF EvidenceInv, StepInv
  <2>4. SeenInv' BY <2>1 DEF EvidenceInv, SeenInv
  <2>5. BatchInv' BY <2>1 DEF EvidenceInv, BatchInv, Asked, Version, Since
  <2>6. FoundInv' BY <2>1, RowsKept DEF EvidenceInv, FoundInv, Version, Since
  <2>7. SavedInv' BY <2>1 DEF EvidenceInv, SavedInv
  <2>8. AcceptInv'
    <3>1. Evidence' = Evidence BY <2>1 DEF Evidence
    <3>2. QED BY <1>2, <2>1, <3>1 DEF AcceptInv
  <2>9. QED BY <2>2, <2>3, <2>4, <2>5, <2>6, <2>7, <2>8 DEF EvidenceInv
<1>3. QED BY <1>1, <1>2

\* An edit adds a version and leaves the earlier ones as they were.
LEMMA HistoryGrows ==
  ASSUME HistoryInv, NEW f \in Files, NEW c \in Contents, Edit(f, c)
  PROVE  /\ history' \in [Files -> Seq(Contents) \ {<<>>}]
         /\ \A g \in Files : /\ Version(g)' \in Nat /\ Version(g) <= Version(g)'
                             /\ \A v \in 1..Version(g) : history'[g][v] = history[g][v]
<1>1. history' = [history EXCEPT ![f] = Append(@, c)] BY DEF Edit
<1>2. ASSUME NEW g \in Files
      PROVE  /\ history'[g] \in Seq(Contents) \ {<<>>}
             /\ Len(history'[g]) \in Nat /\ Len(history[g]) <= Len(history'[g])
             /\ \A v \in 1..Len(history[g]) : history'[g][v] = history[g][v]
  <2>1. history[g] \in Seq(Contents) /\ history[g] # <<>> BY DEF HistoryInv
  <2>2. history'[g] = IF g = f THEN Append(history[g], c) ELSE history[g]
    BY <1>1 DEF HistoryInv
  <2>3. QED BY <2>1, <2>2
<1>3. history' = [g \in Files |-> history'[g]] BY <1>1 DEF HistoryInv
<1>4. history' \in [Files -> Seq(Contents) \ {<<>>}] BY <1>2, <1>3
<1>5. QED BY <1>2, <1>4 DEF Version

LEMMA EditStep ==
  ASSUME EvidenceInv, NEW f \in Files, NEW c \in Contents, Edit(f, c)
  PROVE  EvidenceInv'
<1>1. /\ pc # "done"
      /\ UNCHANGED <<input, pc, round, step, seen, batch, found, saved, between, outcome>>
  BY DEF Edit
<1>2. /\ history' \in [Files -> Seq(Contents) \ {<<>>}]
      /\ \A g \in Files : /\ Version(g) \in Nat /\ Version(g)' \in Nat /\ Version(g) <= Version(g)'
                          /\ between[g] \in Nat
                          /\ \A v \in 1..Version(g) : history'[g][v] = history[g][v]
  BY HistoryGrows, VersionsTyped DEF EvidenceInv
<1>3. HistoryInv' BY <1>1, <1>2 DEF EvidenceInv, HistoryInv
<1>4. StepInv' BY <1>1, CountsKept, InHandKept, RowsKept DEF EvidenceInv, StepInv
<1>5. SeenInv'
  <2>1. ASSUME NEW g \in Files, NEW v \in Since(g, Version(g))
        PROVE  v \in Since(g, Version(g))' /\ history'[g][v] = history[g][v]
    BY <1>1, <1>2 DEF Since
  <2>2. pc = "digest" => Target \in Files BY DEF EvidenceInv, StepInv
  <2>3. pc = "parse" => CitedFile \in Files BY InputsTyped DEF EvidenceInv, StepInv, CitedFile
  <2>4. pc = "digest" => \E v \in Since(Target, Version(Target))' : history'[Target'][v] = seen
    <3>1. SUFFICES ASSUME pc = "digest"
                   PROVE  \E v \in Since(Target, Version(Target))' : history'[Target'][v] = seen
      OBVIOUS
    <3>2. PICK g \in Files : g = Target BY <2>2, <3>1
    <3>3. PICK v \in Since(g, Version(g)) : history[g][v] = seen
      BY <3>1, <3>2 DEF EvidenceInv, SeenInv
    <3>4. Since(g, Version(g))' = Since(Target, Version(Target))' BY <1>1, <3>2, InHandKept
      DEF Since, Version
    <3>5. QED BY <1>1, <2>1, <3>2, <3>3, <3>4, InHandKept
  <2>5. pc = "parse" => Source.pin = 0 \/ Source.pin \in Since(CitedFile, Version(CitedFile))'
    <3>1. SUFFICES ASSUME pc = "parse", Source.pin # 0
                   PROVE  Source.pin \in Since(CitedFile, Version(CitedFile))'
      OBVIOUS
    <3>2. PICK g \in Files : g = CitedFile BY <2>3, <3>1
    <3>3. Source.pin \in Since(g, Version(g)) BY <3>1, <3>2 DEF EvidenceInv, SeenInv
    <3>4. Since(g, Version(g))' = Since(CitedFile, Version(CitedFile))' BY <1>1, <3>2, InHandKept
      DEF Since, Version
    <3>5. QED BY <2>1, <3>3, <3>4
  <2>6. pc' = pc /\ seen' = seen /\ seen \in {"none", "holds", "fails"} /\ Source' = Source
    BY <1>1, InHandKept DEF EvidenceInv, SeenInv
  <2>7. QED BY <2>4, <2>5, <2>6 DEF SeenInv
<1>6. ASSUME NEW g \in Files, NEW d \in 1..Version(g)
      PROVE  /\ d \in 1..Version(g)' /\ Since(g, d)' = Since(g, d)
             /\ \A v \in Since(g, d) : history'[g][v] = history[g][v]
  BY <1>1, <1>2 DEF Since
<1>7. BatchInv'
  <2>1. ASSUME NEW b \in batch
        PROVE  /\ b.file \in Files /\ b.digest \in 1..Version(b.file)'
               /\ \E v \in Since(b.file, b.digest)' : b.passed = (history'[b.file][v] = "holds")
    <3>1. /\ b.file \in Files /\ b.digest \in 1..Version(b.file)
          /\ \E v \in Since(b.file, b.digest) : b.passed = (history[b.file][v] = "holds")
      BY DEF EvidenceInv, BatchInv
    <3>2. QED BY <1>6, <3>1
  <2>2. QED BY <1>1, <2>1 DEF EvidenceInv, BatchInv, Asked
<1>8. FoundInv'
  <2>1. ASSUME NEW s \in found
        PROVE  /\ s.file \in Files /\ s.digest \in 0..Version(s.file)'
               /\ s.read = "holds" =>
                    /\ s.digest \in Since(s.file, s.digest)' /\ history'[s.file][s.digest] = "holds"
                    /\ \/ input.sources[s.source].pin = 0
                       \/ input.sources[s.source].pin \in Since(s.file, s.digest)'
    <3>1. /\ s.file \in Files /\ s.digest \in 0..Version(s.file)
          /\ s.read = "holds" =>
               /\ s.digest \in Since(s.file, s.digest) /\ history[s.file][s.digest] = "holds"
               /\ \/ input.sources[s.source].pin = 0
                  \/ input.sources[s.source].pin \in Since(s.file, s.digest)
      BY DEF EvidenceInv, FoundInv
    <3>2. s.digest \in 0..Version(s.file)' BY <1>2, <3>1
    <3>3. s.read = "holds" => s.digest \in 1..Version(s.file) BY <1>2, <3>1 DEF Since
    <3>4. QED BY <1>6, <3>1, <3>2, <3>3
  <2>2. QED BY <1>1, <2>1, RowsKept DEF EvidenceInv, FoundInv
<1>9. SavedInv' BY <1>1 DEF EvidenceInv, SavedInv
<1>10. AcceptInv' BY <1>1 DEF EvidenceInv, AcceptInv
<1>11. QED BY <1>3, <1>4, <1>5, <1>7, <1>8, <1>9, <1>10 DEF EvidenceInv

LEMMA EvidenceStep == EvidenceInv /\ [Next]_vars => EvidenceInv'
<1> SUFFICES ASSUME EvidenceInv, [Next]_vars PROVE EvidenceInv' OBVIOUS
<1>1. CASE UNCHANGED vars
  <2>1. UNCHANGED <<input, history, pc, round, step, seen, batch, found, saved, between, outcome>>
    BY <1>1 DEF vars
  <2>2. HistoryInv' BY <2>1 DEF EvidenceInv, HistoryInv, Version
  <2>3. StepInv' BY <2>1, CountsKept, InHandKept, RowsKept DEF EvidenceInv, StepInv
  <2>4. SeenInv' BY <2>1, InHandKept DEF EvidenceInv, SeenInv, Version, Since
  <2>5. BatchInv' BY <2>1 DEF EvidenceInv, BatchInv, Asked, Version, Since
  <2>6. FoundInv' BY <2>1, RowsKept DEF EvidenceInv, FoundInv, Version, Since
  <2>7. SavedInv' BY <2>1 DEF EvidenceInv, SavedInv
  <2>8. AcceptInv'
    <3>1. Evidence' = Evidence BY <2>1 DEF Evidence
    <3>2. QED BY <2>1, <3>1 DEF EvidenceInv, AcceptInv
  <2>9. QED BY <2>2, <2>3, <2>4, <2>5, <2>6, <2>7, <2>8 DEF EvidenceInv
<1>2. CASE \E f \in Files, c \in Contents : Edit(f, c) BY <1>2, EditStep
<1>3. CASE Done BY <1>1, <1>3 DEF Done
<1>4. QED BY <1>1, <1>2, <1>3, StartStep, ResolveStep, LoadStep, DigestStep, ExecutedStep,
             CheckStep, ParseStep, AssembleStep, CompareStep DEF Next

THEOREM EvidenceInvariant == Spec => []EvidenceInv
<1>1. QED BY EvidenceInit, EvidenceStep, PTL DEF Spec

\* Every result and every record of evidence in an accepted payload was computed from the
\* bytes whose digest it carries, for every set of inputs and files and any number of edits.
THEOREM RecordedBytes == Spec => []EvidenceIsOfRecordedBytes
<1>1. QED BY EvidenceInvariant, AcceptedOfRecordedBytes, PTL

\* All evidence in an accepted payload was on disk together when the first round ended.
THEOREM Coexisted == Spec => []EvidenceCoexisted
<1>1. QED BY EvidenceInvariant, AcceptedCoexisted, PTL

\* Every variable of the evaluation keeps its type.
THEOREM EvaluationTyped == Spec => []TypeOK
<1>1. EvidenceInv => TypeOK
  <2> SUFFICES ASSUME EvidenceInv PROVE TypeOK OBVIOUS
  <2>1. /\ history \in [Files -> Seq(Contents) \ {<<>>}] /\ between \in [Files -> Nat]
        /\ seen \in {"none", "holds", "fails"}
    BY DEF EvidenceInv, HistoryInv, SeenInv
  <2>2. /\ pc \in {"start", "resolve", "load", "digest", "check", "parse", "done"}
        /\ round \in {1, 2} /\ outcome \in {"none", "refused", "raised", "accepted"}
    BY DEF EvidenceInv, StepInv
  <2>3. step \in 1..(RequestCount + SourceCount + 1)
    BY InputsTyped DEF EvidenceInv, StepInv
  <2>4. \A b \in batch : b.row.claim \in PostBuilderRuntime /\ b.digest \in 1..Version(b.file)
    BY DEF EvidenceInv, BatchInv
  <2>5. \A s \in found : s.row \in Rows(input) /\ s.digest \in 0..Version(s.file)
    BY DEF EvidenceInv, FoundInv
  <2>6. QED BY <2>1, <2>2, <2>3, <2>4, <2>5 DEF TypeOK, RequestCount, SourceCount
<1>2. QED BY <1>1, EvidenceInvariant, PTL
-------------------------------------------------------------------------------
(* A replay over files that nobody edits.  What a round finds is then a      *)
(* function of the inputs and of what the files hold, h: the operators below *)
(* say which, without going through the steps, and both rounds compute it.   *)

Query(in, i) == in.requests[i]
Holding(h, f) == h[f][1]
Answered(in, h, i) == Query(in, i).file # NoFile /\ Holding(h, Query(in, i).file) # "missing"
Answer(in, h, i) ==
  [row |-> Query(in, i).row, passed |-> Holding(h, Query(in, i).file) = "holds",
   file |-> Query(in, i).file, digest |-> 1]
Answers(in, h, n) == {Answer(in, h, i) : i \in {j \in 1..(n - 1) : Answered(in, h, j)}}

\* The execution of request i does not refuse the draft.
Askable(in, i) ==
  /\ Query(in, i).row.claim \in PostBuilderRuntime
  /\ \A j \in 1..(i - 1) : Query(in, j).row # Query(in, i).row
Executable(in, h, i) ==
  Askable(in, i) /\ (Answered(in, h, i) => Holding(h, Query(in, i).file) \in {"holds", "fails"})

Citation(in, i) == in.sources[i]
Owed(in, i) == Citation(in, i).row \in Rows(in) /\ Citation(in, i).row.claim \in SourceClaims
Reading(in, h, i) ==
  LET held == Holding(h, Citation(in, i).file)
  IN  IF held # "missing" /\ Citation(in, i).pin \notin {0, 1} THEN "differs" ELSE held
Quote(in, h, i) ==
  [row |-> Citation(in, i).row, source |-> i, file |-> Citation(in, i).file,
   read |-> Reading(in, h, i), digest |-> IF Reading(in, h, i) = "holds" THEN 1 ELSE 0]

\* Of the sources of one claim the first that holds stays, or all of them when none does.
Stays(in, h, n, i) ==
  /\ Owed(in, i)
  /\ \A j \in 1..(n - 1) : Citation(in, j).row = Citation(in, i).row /\ Reading(in, h, j) = "holds"
                             => Reading(in, h, i) = "holds" /\ i <= j
Quotes(in, h, n) == {Quote(in, h, i) : i \in {j \in 1..(n - 1) : Stays(in, h, n, j)}}
Credited(in, h, n) ==
  \A i \in 1..(n - 1) : Owed(in, i) /\ Reading(in, h, i) = "holds"
                          => Established(Quotes(in, h, n), Citation(in, i).row)

AllExecutable == input.actions # {} /\ \A i \in 1..RequestCount : Executable(input, history, i)
FirstPayload ==
  Payload(input, [batch |-> Answers(input, history, RequestCount + 1),
                  found |-> Quotes(input, history, SourceCount + 1)])

\* Where each step of either round leaves the evaluation.
ExecutingInv ==
  pc \in {"resolve", "load", "digest"} =>
    /\ batch = Answers(input, history, step) /\ found = {} /\ input.actions # {}
    /\ \A i \in 1..(step - 1) : Executable(input, history, i)
    /\ pc \in {"load", "digest"} => Askable(input, step) /\ Answered(input, history, step)
    /\ pc = "digest" => seen = Holding(history, Target)
ReadingInv ==
  pc \in {"check", "parse"} =>
    /\ batch = Answers(input, history, RequestCount + 1) /\ AllExecutable
    /\ found = Quotes(input, history, step) /\ Credited(input, history, step)
    /\ pc = "parse" =>
         /\ Owed(input, step) /\ ~Established(found, Source.row)
         /\ Reading(input, history, step) = Holding(history, CitedFile)
ReplayInv ==
  /\ pc # "done" => outcome = "none"
  /\ Unedited => /\ ExecutingInv /\ ReadingInv
                 /\ round = 2 => saved = FirstPayload /\ AllExecutable
                 /\ UneditedReplayAccepts

LEMMA FirstHasNone ==
  ASSUME NEW in, NEW h
  PROVE  Answers(in, h, 1) = {} /\ Quotes(in, h, 1) = {} /\ Credited(in, h, 1)
BY DEF Answers, Quotes, Credited

LEMMA AnswersGrow ==
  ASSUME NEW in, NEW h, NEW n \in Nat \ {0}
  PROVE  Answers(in, h, n + 1) =
           Answers(in, h, n) \cup {Answer(in, h, i) : i \in {j \in {n} : Answered(in, h, j)}}
<1>1. 1..((n + 1) - 1) = 1..(n - 1) \cup {n} OBVIOUS
<1>2. QED BY <1>1 DEF Answers

\* A source that nothing is asked of leaves no trace.
LEMMA QuotesSkip ==
  ASSUME NEW in, NEW h, NEW n \in Nat \ {0}, Credited(in, h, n),
         ~Owed(in, n) \/ Established(Quotes(in, h, n), Citation(in, n).row)
  PROVE  Quotes(in, h, n + 1) = Quotes(in, h, n) /\ Credited(in, h, n + 1)
<1>1. 1..((n + 1) - 1) = 1..(n - 1) \cup {n} OBVIOUS
<1>2. ASSUME NEW i \in 1..(n - 1), Stays(in, h, n, i) PROVE Stays(in, h, n + 1, i)
  <2>1. SUFFICES ASSUME Citation(in, n).row = Citation(in, i).row, Reading(in, h, n) = "holds"
                 PROVE  Reading(in, h, i) = "holds" /\ i <= n
    BY <1>1, <1>2 DEF Stays
  <2>2. Owed(in, n) BY <1>2, <2>1 DEF Stays, Owed
  <2>3. PICK k \in 1..(n - 1) : /\ Stays(in, h, n, k) /\ Quote(in, h, k).read = "holds"
                                /\ Quote(in, h, k).row = Citation(in, n).row
    BY <2>2 DEF Established, Quotes
  <2>4. Reading(in, h, k) = "holds" /\ Citation(in, k).row = Citation(in, n).row
    BY <2>3 DEF Quote
  <2>5. QED BY <1>2, <2>1, <2>4 DEF Stays
<1>3. ASSUME NEW i \in 1..(n - 1), Stays(in, h, n + 1, i) PROVE Stays(in, h, n, i)
  BY <1>1, <1>3 DEF Stays
<1>4. ~Stays(in, h, n + 1, n)
  <2>1. SUFFICES ASSUME Stays(in, h, n + 1, n) PROVE FALSE OBVIOUS
  <2>2. PICK k \in 1..(n - 1) : /\ Stays(in, h, n, k) /\ Quote(in, h, k).read = "holds"
                                /\ Quote(in, h, k).row = Citation(in, n).row
    BY <2>1 DEF Established, Quotes, Stays
  <2>3. Reading(in, h, k) = "holds" /\ Citation(in, k).row = Citation(in, n).row
    BY <2>2 DEF Quote
  <2>4. n <= k BY <1>1, <2>1, <2>3 DEF Stays
  <2>5. QED BY <2>4
<1>5. Quotes(in, h, n + 1) = Quotes(in, h, n) BY <1>1, <1>2, <1>3, <1>4 DEF Quotes
<1>6. Credited(in, h, n + 1) BY <1>1, <1>5 DEF Credited, Owed
<1>7. QED BY <1>5, <1>6

\* While nothing establishes a claim, no earlier source of it holds.
LEMMA NoneHolds ==
  ASSUME NEW in, NEW h, NEW n \in Nat \ {0}, Credited(in, h, n),
         Owed(in, n), ~Established(Quotes(in, h, n), Citation(in, n).row)
  PROVE  \A j \in 1..(n - 1) : Citation(in, j).row = Citation(in, n).row
                                 => Reading(in, h, j) # "holds"
BY DEF Credited, Owed

\* A source that is read joins the records of its claim, and replaces them if it holds.
LEMMA QuotesRead ==
  ASSUME NEW in, NEW h, NEW n \in Nat \ {0}, Credited(in, h, n),
         Owed(in, n), ~Established(Quotes(in, h, n), Citation(in, n).row)
  PROVE  /\ Credited(in, h, n + 1)
         /\ Quotes(in, h, n + 1) =
              (IF Reading(in, h, n) = "holds"
               THEN {s \in Quotes(in, h, n) : s.row # Citation(in, n).row} ELSE Quotes(in, h, n))
              \cup {Quote(in, h, n)}
<1> DEFINE Rival(i) == Citation(in, i).row = Citation(in, n).row
<1>1. 1..((n + 1) - 1) = 1..(n - 1) \cup {n} OBVIOUS
<1>2. \A j \in 1..(n - 1) : Rival(j) => Reading(in, h, j) # "holds" BY NoneHolds
<1>3. Stays(in, h, n + 1, n) BY <1>1, <1>2 DEF Stays
<1>4. CASE Reading(in, h, n) # "holds"
  <2>1. \A i \in 1..(n - 1) : Stays(in, h, n + 1, i) <=> Stays(in, h, n, i)
    BY <1>1, <1>4 DEF Stays
  <2>2. Quotes(in, h, n + 1) = Quotes(in, h, n) \cup {Quote(in, h, n)}
    BY <1>1, <1>3, <2>1 DEF Quotes
  <2>3. Credited(in, h, n + 1) BY <1>1, <1>4, <2>2 DEF Credited, Established
  <2>4. QED BY <1>4, <2>2, <2>3
<1>5. CASE Reading(in, h, n) = "holds"
  <2>1. \A i \in 1..(n - 1) : Stays(in, h, n + 1, i) <=> Stays(in, h, n, i) /\ ~Rival(i)
    BY <1>1, <1>2, <1>5 DEF Stays
  <2>2. \A i : Quote(in, h, i).row = Citation(in, i).row BY DEF Quote
  <2>3. Quotes(in, h, n + 1) =
          {s \in Quotes(in, h, n) : s.row # Citation(in, n).row} \cup {Quote(in, h, n)}
    <3>1. ASSUME NEW s \in Quotes(in, h, n + 1)
          PROVE  s \in {q \in Quotes(in, h, n) : q.row # Citation(in, n).row} \cup {Quote(in, h, n)}
      BY <1>1, <2>1, <2>2 DEF Quotes
    <3>2. ASSUME NEW s \in Quotes(in, h, n), s.row # Citation(in, n).row
          PROVE  s \in Quotes(in, h, n + 1)
      BY <1>1, <2>1, <2>2, <3>2 DEF Quotes
    <3>3. Quote(in, h, n) \in Quotes(in, h, n + 1) BY <1>1, <1>3 DEF Quotes
    <3>4. QED BY <3>1, <3>2, <3>3
  <2>4. Credited(in, h, n + 1)
    <3>1. Quote(in, h, n).read = "holds" /\ Quote(in, h, n).row = Citation(in, n).row
      BY <1>5 DEF Quote
    <3>2. ASSUME NEW i \in 1..(n - 1), Owed(in, i), Reading(in, h, i) = "holds"
          PROVE  Established(Quotes(in, h, n + 1), Citation(in, i).row)
      <4>1. ~Rival(i) BY <1>2, <3>2
      <4>2. PICK s \in Quotes(in, h, n) : s.row = Citation(in, i).row /\ s.read = "holds"
        BY <3>2 DEF Credited, Established
      <4>3. QED BY <2>3, <4>1, <4>2 DEF Established
    <3>3. Established(Quotes(in, h, n + 1), Citation(in, n).row) BY <2>3, <3>1 DEF Established
    <3>4. QED BY <1>1, <3>2, <3>3 DEF Credited
  <2>5. QED BY <1>5, <2>3, <2>4
<1>6. QED BY <1>4, <1>5

\* Every step of either round does what the operators say.

LEMMA UneditedFiles ==
  ASSUME Unedited
  PROVE  \A f \in Files : Version(f) = 1 /\ Current(f) = Holding(history, f)
BY DEF Unedited, Current, Holding

LEMMA SameInputs ==
  UNCHANGED <<input, history>> =>
    /\ Unedited' = Unedited
    /\ AllExecutable' = AllExecutable /\ FirstPayload' = FirstPayload
BY CountsKept DEF Unedited, Version, AllExecutable, FirstPayload

LEMMA ReplayInit == Init => ReplayInv
BY DEF Init, ReplayInv, ExecutingInv, ReadingInv, UneditedReplayAccepts

\* A step inside a round.
LEMMA ReplayQuiet ==
  ASSUME ReplayInv, pc # "done", UNCHANGED <<input, history, round, saved, outcome>>,
         Unedited => ExecutingInv' /\ ReadingInv'
  PROVE  ReplayInv'
BY SameInputs DEF ReplayInv, UneditedReplayAccepts

\* A refusal: in the replay an edit is the reason.
LEMMA ReplayEnd ==
  ASSUME ReplayInv, NEW result, End(result), Unedited => round # 2 \/ result = "accepted"
  PROVE  ReplayInv'
<1>1. pc' = "done" /\ outcome' = result /\ UNCHANGED <<input, history, round, saved>>
  BY DEF End
<1>2. Unedited' => ExecutingInv' /\ ReadingInv' BY <1>1 DEF ExecutingInv, ReadingInv
<1>3. QED BY <1>1, <1>2, SameInputs DEF ReplayInv, UneditedReplayAccepts

LEMMA ReplayStart == EvidenceInv /\ ReplayInv /\ Start => ReplayInv'
<1> SUFFICES ASSUME EvidenceInv, ReplayInv, Start PROVE ReplayInv' OBVIOUS
<1>1. CASE input.actions = {}
  <2>1. Unedited => round # 2 BY <1>1 DEF ReplayInv, AllExecutable
  <2>2. QED BY <1>1, <2>1, ReplayEnd DEF Start
<1>2. CASE input.actions # {}
  <2>1. /\ pc = "start" /\ pc' = "resolve" /\ step' = 1 /\ batch' = {} /\ found' = {}
        /\ UNCHANGED <<input, history, round, saved, outcome>>
    BY <1>2 DEF Start, Advance, EvidenceInv, StepInv
  <2>2. batch' = Answers(input', history', step') BY <2>1, FirstHasNone
  <2>3. ExecutingInv' BY <1>2, <2>1, <2>2 DEF ExecutingInv
  <2>4. ReadingInv' BY <2>1 DEF ReadingInv
  <2>5. QED BY <2>1, <2>3, <2>4, ReplayQuiet
<1>3. QED BY <1>1, <1>2

\* The request in hand, as the operators have it.
LEMMA RequestInHand ==
  ASSUME EvidenceInv, pc \in {"resolve", "load", "digest"}, step <= Len(input.requests)
  PROVE  /\ RequestCount \in Nat /\ step \in 1..RequestCount
         /\ Request = Query(input, step) /\ Target = Request.file
         /\ Target \in Files \cup {NoFile}
         /\ ~RefusedRequest <=> Askable(input, step)
         /\ Unedited /\ Target \in Files =>
              Version(Target) = 1 /\ Current(Target) = Holding(history, Target)
<1>1. RequestCount \in Nat /\ step \in 1..RequestCount /\ Target \in Files \cup {NoFile}
  BY InputsTyped DEF EvidenceInv, StepInv, RequestCount, Target
<1>2. Request = Query(input, step) /\ Target = Request.file BY DEF Request, Query, Target
<1>3. ~RefusedRequest <=> Askable(input, step)
  BY <1>2 DEF RefusedRequest, Askable, Query
<1>4. QED BY <1>1, <1>2, <1>3, UneditedFiles

LEMMA ReplayResolve == EvidenceInv /\ ReplayInv /\ Resolve => ReplayInv'
<1> SUFFICES ASSUME EvidenceInv, ReplayInv, Resolve PROVE ReplayInv' OBVIOUS
<1>1. pc = "resolve" /\ step <= Len(input.requests) BY DEF Resolve
<1>2. CASE RefusedRequest
  <2>1. Unedited => round # 2
    BY <1>1, <1>2, RequestInHand DEF ReplayInv, AllExecutable, Executable
  <2>2. QED BY <1>2, <2>1, ReplayEnd DEF Resolve
<1>3. CASE ~RefusedRequest /\ (Request.file = NoFile \/ Current(Request.file) = "missing")
  <2>1. /\ pc' = "resolve" /\ step' = step + 1
        /\ UNCHANGED <<input, history, round, saved, outcome, batch, found>>
    BY <1>1, <1>3 DEF Resolve, Advance
  <2>2. ASSUME Unedited PROVE ExecutingInv'
    <3>1. ~Answered(input, history, step) BY <1>1, <1>3, <2>2, RequestInHand DEF Answered
    <3>2. Answers(input, history, step + 1) = batch
      <4>1. step \in Nat \ {0} BY <1>1, RequestInHand
      <4>2. {Answer(input, history, i) : i \in {j \in {step} : Answered(input, history, j)}} = {}
        BY <3>1
      <4>3. batch = Answers(input, history, step) BY <1>1, <2>2 DEF ReplayInv, ExecutingInv
      <4>4. QED BY <4>1, <4>2, <4>3, AnswersGrow
    <3>3. Executable(input, history, step) BY <1>1, <1>3, <3>1, RequestInHand DEF Executable
    <3>4. \A i \in 1..((step + 1) - 1) : Executable(input, history, i)
      BY <1>1, <2>2, <3>3, RequestInHand DEF ReplayInv, ExecutingInv
    <3>5. QED BY <1>1, <2>1, <2>2, <3>2, <3>4 DEF ReplayInv, ExecutingInv
  <2>3. ReadingInv' BY <2>1 DEF ReadingInv
  <2>4. QED BY <1>1, <2>1, <2>2, <2>3, ReplayQuiet
<1>4. CASE ~RefusedRequest /\ ~(Request.file = NoFile \/ Current(Request.file) = "missing")
  <2>1. pc' = "load" /\ UNCHANGED <<input, history, round, step, saved, outcome, batch, found>>
    BY <1>4 DEF Resolve
  <2>2. ASSUME Unedited PROVE ExecutingInv'
    <3>1. Answered(input, history, step) /\ Askable(input, step)
      BY <1>1, <1>4, <2>2, RequestInHand DEF Answered
    <3>2. QED BY <1>1, <2>1, <2>2, <3>1 DEF ReplayInv, ExecutingInv
  <2>3. ReadingInv' BY <2>1 DEF ReadingInv
  <2>4. QED BY <1>1, <2>1, <2>2, <2>3, ReplayQuiet
<1>5. QED BY <1>2, <1>3, <1>4

LEMMA ReplayLoad == EvidenceInv /\ ReplayInv /\ Load => ReplayInv'
<1> SUFFICES ASSUME EvidenceInv, ReplayInv, Load PROVE ReplayInv' OBVIOUS
<1>1. pc = "load" /\ step <= Len(input.requests) /\ Target \in Files
  BY DEF Load, EvidenceInv, StepInv, RequestCount
<1>2. CASE Current(Request.file) \in {"malformed", "missing"}
  <2>1. ASSUME Unedited PROVE round # 2
    <3>1. Answered(input, history, step) BY <1>1, <2>1 DEF ReplayInv, ExecutingInv
    <3>2. ~Executable(input, history, step)
      BY <1>1, <1>2, <2>1, <3>1, RequestInHand DEF Executable
    <3>3. QED BY <1>1, <2>1, <3>2, RequestInHand DEF ReplayInv, AllExecutable
  <2>2. QED BY <1>2, <2>1, ReplayEnd DEF Load
<1>3. CASE Current(Request.file) \notin {"malformed", "missing"}
  <2>1. /\ pc' = "digest" /\ seen' = Current(Request.file)
        /\ UNCHANGED <<input, history, round, step, saved, outcome, batch, found>>
    BY <1>3 DEF Load
  <2>2. ASSUME Unedited PROVE ExecutingInv'
    <3>1. seen' = Holding(history, Target) BY <1>1, <2>1, <2>2, RequestInHand
    <3>2. seen' = Holding(history', Target') BY <2>1, <3>1, InHandKept
    <3>3. QED BY <1>1, <2>1, <2>2, <3>2 DEF ReplayInv, ExecutingInv
  <2>3. ReadingInv' BY <2>1 DEF ReadingInv
  <2>4. QED BY <1>1, <2>1, <2>2, <2>3, ReplayQuiet
<1>4. QED BY <1>2, <1>3

LEMMA ReplayDigest == EvidenceInv /\ ReplayInv /\ Digest => ReplayInv'
<1> SUFFICES ASSUME EvidenceInv, ReplayInv, Digest PROVE ReplayInv' OBVIOUS
<1>1. /\ pc = "digest" /\ step <= Len(input.requests) /\ Target \in Files
      /\ seen \in {"none", "holds", "fails"}
  BY DEF Digest, EvidenceInv, StepInv, SeenInv, RequestCount
<1>2. ASSUME Unedited
      PROVE  /\ Current(Target) \in Contents /\ seen = Current(Target)
             /\ Current(Target) = Holding(history, Target)
  BY <1>1, <1>2, RequestInHand, VersionsTyped DEF EvidenceInv, ReplayInv, ExecutingInv
<1>3. CASE Current(Request.file) = "missing"
  <2>1. ~Unedited BY <1>1, <1>2, <1>3, RequestInHand
  <2>2. QED BY <1>3, <2>1, ReplayEnd DEF Digest
<1>4. CASE Current(Request.file) # "missing"
  <2> DEFINE new == [row |-> Request.row, passed |-> seen = "holds",
                     file |-> Request.file, digest |-> Version(Request.file)]
  <2>1. /\ pc' = "resolve" /\ step' = step + 1 /\ batch' = batch \cup {new}
        /\ UNCHANGED <<input, history, round, saved, outcome, found>>
    BY <1>4 DEF Digest
  <2>2. ASSUME Unedited PROVE ExecutingInv'
    <3>1. Answered(input, history, step) /\ Askable(input, step)
      BY <1>1, <2>2 DEF ReplayInv, ExecutingInv
    <3>2. new = Answer(input, history, step)
      BY <1>1, <1>2, <2>2, RequestInHand DEF Answer
    <3> HIDE DEF new
    <3>3. batch' = Answers(input, history, step + 1)
      BY <1>1, <2>1, <2>2, <3>1, <3>2, RequestInHand, AnswersGrow DEF ReplayInv, ExecutingInv
    <3>4. Executable(input, history, step)
      BY <1>1, <1>2, <2>2, <3>1, RequestInHand DEF Executable, Contents
    <3>5. \A i \in 1..((step + 1) - 1) : Executable(input, history, i)
      BY <1>1, <2>2, <3>4, RequestInHand DEF ReplayInv, ExecutingInv
    <3>6. QED BY <1>1, <2>1, <2>2, <3>3, <3>5 DEF ReplayInv, ExecutingInv
  <2>3. ReadingInv' BY <2>1 DEF ReadingInv
  <2> HIDE DEF new
  <2>4. QED BY <1>1, <2>1, <2>2, <2>3, ReplayQuiet
<1>5. QED BY <1>3, <1>4

LEMMA ReplayExecuted == EvidenceInv /\ ReplayInv /\ Executed => ReplayInv'
<1> SUFFICES ASSUME EvidenceInv, ReplayInv, Executed PROVE ReplayInv' OBVIOUS
<1>1. /\ pc = "resolve" /\ step = RequestCount + 1 /\ RequestCount \in Nat
      /\ pc' = "check" /\ step' = 1
      /\ UNCHANGED <<input, history, round, saved, outcome, batch, found>>
  BY InputsTyped DEF Executed, Advance, EvidenceInv, StepInv, RequestCount
<1>2. ASSUME Unedited PROVE ReadingInv'
  <2>1. batch = Answers(input, history, RequestCount + 1) /\ found = {}
    BY <1>1, <1>2 DEF ReplayInv, ExecutingInv
  <2>2. AllExecutable BY <1>1, <1>2 DEF ReplayInv, ExecutingInv, AllExecutable
  <2>3. AllExecutable' /\ RequestCount' = RequestCount BY <1>1, <2>2, SameInputs, CountsKept
  <2>4. QED BY <1>1, <2>1, <2>3, FirstHasNone DEF ReadingInv
<1>3. ExecutingInv' BY <1>1 DEF ExecutingInv
<1>4. QED BY <1>1, <1>2, <1>3, ReplayQuiet

\* The source in hand, as the operators have it.
LEMMA SourceInHand ==
  ASSUME EvidenceInv, pc \in {"check", "parse"}, step <= Len(input.sources)
  PROVE  /\ SourceCount \in Nat /\ step \in 1..SourceCount
         /\ Source = Citation(input, step) /\ CitedFile = Source.file
         /\ CitedFile \in Files /\ Source.pin \in Nat
         /\ Wanted <=> Owed(input, step) /\ ~Established(found, Citation(input, step).row)
         /\ Unedited => /\ Version(CitedFile) = 1 /\ Current(CitedFile) \in Contents
                        /\ Current(CitedFile) = Holding(history, CitedFile)
<1>1. /\ SourceCount \in Nat /\ step \in 1..SourceCount
      /\ CitedFile \in Files /\ Source.pin \in Nat
  BY InputsTyped DEF EvidenceInv, StepInv, SourceCount, CitedFile, Source
<1>2. Source = Citation(input, step) /\ CitedFile = Source.file BY DEF Source, Citation, CitedFile
<1>3. Wanted <=> Owed(input, step) /\ ~Established(found, Citation(input, step).row)
  BY <1>2 DEF Wanted, Owed
<1>4. QED BY <1>1, <1>2, <1>3, UneditedFiles, VersionsTyped DEF EvidenceInv

\* A source that is put on record is the next of the quotes.
LEMMA ReplayRecord ==
  ASSUME EvidenceInv, ReplayInv, pc \in {"check", "parse"}, step <= Len(input.sources),
         NEW read, NEW digest, Record(read, digest),
         Unedited => /\ Owed(input, step) /\ ~Established(found, Source.row)
                     /\ read = Reading(input, history, step)
                     /\ digest = IF read = "holds" THEN 1 ELSE 0
  PROVE  ReplayInv'
<1>1. /\ pc' = "check" /\ step' = step + 1
      /\ UNCHANGED <<input, history, round, saved, outcome, batch>>
  BY DEF Record
<1>2. ASSUME Unedited PROVE ReadingInv'
  <2> DEFINE new == [row |-> Source.row, source |-> step, file |-> Source.file,
                     read |-> read, digest |-> digest]
  <2>1. step \in Nat \ {0} /\ Source = Citation(input, step) BY SourceInHand
  <2>2. /\ batch = Answers(input, history, RequestCount + 1) /\ AllExecutable
        /\ found = Quotes(input, history, step) /\ Credited(input, history, step)
    BY <1>2 DEF ReplayInv, ReadingInv
  <2>3. new = Quote(input, history, step) BY <1>2, <2>1 DEF Quote
  <2>4. found' = (IF read = "holds" THEN {s \in found : s.row # Source.row} ELSE found) \cup {new}
    BY DEF Record
  <2> HIDE DEF new
  <2>5. found' = Quotes(input, history, step + 1) /\ Credited(input, history, step + 1)
    BY <1>2, <2>1, <2>2, <2>3, <2>4, QuotesRead
  <2>6. AllExecutable' /\ RequestCount' = RequestCount BY <1>1, <2>2, SameInputs, CountsKept
  <2>7. QED BY <1>1, <2>2, <2>5, <2>6 DEF ReadingInv
<1>3. ExecutingInv' BY <1>1 DEF ExecutingInv
<1>4. QED BY <1>1, <1>2, <1>3, ReplayQuiet

LEMMA ReplayCheck == EvidenceInv /\ ReplayInv /\ Check => ReplayInv'
<1> SUFFICES ASSUME EvidenceInv, ReplayInv, Check PROVE ReplayInv' OBVIOUS
<1>1. pc = "check" /\ step <= Len(input.sources) BY DEF Check
<1>2. CitedFile = Source.file /\ Source = Citation(input, step) BY <1>1, SourceInHand
<1>3. CASE ~Wanted
  <2>1. /\ pc' = "check" /\ step' = step + 1
        /\ UNCHANGED <<input, history, round, saved, outcome, batch, found>>
    BY <1>1, <1>3 DEF Check, Skip, Advance
  <2>2. ASSUME Unedited PROVE ReadingInv'
    <3>1. /\ batch = Answers(input, history, RequestCount + 1) /\ AllExecutable
          /\ found = Quotes(input, history, step) /\ Credited(input, history, step)
      BY <1>1, <2>2 DEF ReplayInv, ReadingInv
    <3>2. ~Owed(input, step) \/ Established(found, Citation(input, step).row)
      BY <1>1, <1>3, SourceInHand
    <3>3. found = Quotes(input, history, step + 1) /\ Credited(input, history, step + 1)
      BY <1>1, <3>1, <3>2, SourceInHand, QuotesSkip
    <3>4. AllExecutable' /\ RequestCount' = RequestCount BY <2>1, <3>1, SameInputs, CountsKept
    <3>5. QED BY <2>1, <3>1, <3>3, <3>4 DEF ReadingInv
  <2>3. ExecutingInv' BY <2>1 DEF ExecutingInv
  <2>4. QED BY <1>1, <2>1, <2>2, <2>3, ReplayQuiet
<1>4. CASE Wanted /\ Current(Source.file) = "missing"
  <2>1. Record("missing", 0) BY <1>4 DEF Check
  <2>2. Unedited => "missing" = Reading(input, history, step)
    BY <1>1, <1>2, <1>4, SourceInHand DEF Reading
  <2>3. QED BY <1>1, <1>2, <1>4, <2>1, <2>2, SourceInHand, ReplayRecord
<1>5. CASE /\ Wanted /\ Current(Source.file) # "missing"
           /\ Source.pin \notin {0, Version(Source.file)}
  <2>1. Record("differs", 0) BY <1>5 DEF Check
  <2>2. Unedited => "differs" = Reading(input, history, step)
    BY <1>1, <1>2, <1>5, SourceInHand DEF Reading
  <2>3. QED BY <1>1, <1>2, <1>5, <2>1, <2>2, SourceInHand, ReplayRecord
<1>6. CASE /\ Wanted /\ Current(Source.file) # "missing"
           /\ Source.pin \in {0, Version(Source.file)}
  <2>1. /\ pc' = "parse"
        /\ UNCHANGED <<input, history, round, step, saved, outcome, batch, found>>
    BY <1>6 DEF Check
  <2>2. ASSUME Unedited PROVE ReadingInv'
    <3>1. Reading(input, history, step) = Holding(history, CitedFile)
      BY <1>1, <1>2, <1>6, <2>2, SourceInHand DEF Reading
    <3>2. Owed(input, step) /\ ~Established(found, Source.row)
      BY <1>1, <1>2, <1>6, SourceInHand
    <3>3. AllExecutable' /\ RequestCount' = RequestCount /\ Source' = Source
          /\ CitedFile' = CitedFile
      BY <1>1, <2>1, <2>2, SameInputs, CountsKept, InHandKept DEF ReplayInv, ReadingInv
    <3>4. QED BY <1>1, <2>1, <2>2, <3>1, <3>2, <3>3 DEF ReplayInv, ReadingInv
  <2>3. ExecutingInv' BY <2>1 DEF ExecutingInv
  <2>4. QED BY <1>1, <2>1, <2>2, <2>3, ReplayQuiet
<1>7. QED BY <1>3, <1>4, <1>5, <1>6

LEMMA ReplayParse == EvidenceInv /\ ReplayInv /\ Parse => ReplayInv'
<1> SUFFICES ASSUME EvidenceInv, ReplayInv, Parse PROVE ReplayInv' OBVIOUS
<1> DEFINE c == Current(Source.file)
           d == IF c = "holds" THEN Version(Source.file) ELSE 0
<1>1. pc = "parse" /\ step <= Len(input.sources) /\ Record(c, d)
  BY DEF Parse, EvidenceInv, StepInv, SourceCount
<1>2. ASSUME Unedited
      PROVE  /\ Owed(input, step) /\ ~Established(found, Source.row)
             /\ c = Reading(input, history, step)
             /\ d = IF c = "holds" THEN 1 ELSE 0
  <2>1. /\ Owed(input, step) /\ ~Established(found, Source.row)
        /\ Reading(input, history, step) = Holding(history, CitedFile)
    BY <1>1, <1>2 DEF ReplayInv, ReadingInv
  <2>2. CitedFile = Source.file /\ Version(CitedFile) = 1
        /\ Current(CitedFile) = Holding(history, CitedFile)
    BY <1>1, <1>2, SourceInHand
  <2>3. QED BY <2>1, <2>2
<1> HIDE DEF c, d
<1>3. QED BY <1>1, <1>2, ReplayRecord

\* The first round leaves the payload that the operators give.
LEMMA RoundEnds ==
  ASSUME EvidenceInv, ReplayInv, Unedited, pc = "check", step > Len(input.sources)
  PROVE  Payload(input, Evidence) = FirstPayload /\ AllExecutable
<1>1. step = SourceCount + 1
  BY InputsTyped DEF EvidenceInv, StepInv, SourceCount
<1>2. QED BY <1>1 DEF ReplayInv, ReadingInv, Evidence, FirstPayload

LEMMA ReplayAssemble == EvidenceInv /\ ReplayInv /\ Assemble => ReplayInv'
<1> SUFFICES ASSUME EvidenceInv, ReplayInv, Assemble PROVE ReplayInv' OBVIOUS
<1>1. /\ pc = "check" /\ pc' = "start" /\ step > Len(input.sources)
      /\ saved' = Payload(input, Evidence)
      /\ UNCHANGED <<input, history, outcome>>
  BY DEF Assemble
<1>2. ExecutingInv' /\ ReadingInv' BY <1>1 DEF ExecutingInv, ReadingInv
<1>3. ASSUME Unedited' PROVE saved' = FirstPayload' /\ AllExecutable'
  <2>1. Unedited BY <1>1, <1>3, SameInputs
  <2>2. saved' = FirstPayload /\ AllExecutable BY <1>1, <2>1, RoundEnds
  <2>3. QED BY <1>1, <2>2, SameInputs
<1>4. outcome' = "none" BY <1>1 DEF ReplayInv
<1>5. QED BY <1>1, <1>2, <1>3, <1>4 DEF ReplayInv, UneditedReplayAccepts

LEMMA ReplayCompare == EvidenceInv /\ ReplayInv /\ Compare => ReplayInv'
<1> SUFFICES ASSUME EvidenceInv, ReplayInv, Compare PROVE ReplayInv' OBVIOUS
<1>1. pc = "check" /\ step > Len(input.sources) /\ round = 2 BY DEF Compare
<1>2. Unedited => Payload(input, Evidence) = saved BY <1>1, RoundEnds DEF ReplayInv
<1>3. QED BY <1>2, ReplayEnd DEF Compare

\* An edited file never becomes unedited again.
LEMMA ReplayEdit ==
  ASSUME EvidenceInv, ReplayInv, NEW f \in Files, NEW c \in Contents, Edit(f, c)
  PROVE  ReplayInv'
<1>1. /\ history' = [history EXCEPT ![f] = Append(@, c)] /\ history[f] \in Seq(Contents) \ {<<>>}
      /\ pc # "done" /\ UNCHANGED <<pc, outcome>>
  BY DEF Edit, EvidenceInv, HistoryInv
<1>2. history'[f] = Append(history[f], c) BY <1>1 DEF EvidenceInv, HistoryInv
<1>3. Len(history'[f]) # 1 BY <1>1, <1>2
<1>4. ~Unedited' BY <1>3 DEF Unedited, Version
<1>5. QED BY <1>1, <1>4 DEF ReplayInv

LEMMA ReplayStep == EvidenceInv /\ ReplayInv /\ [Next]_vars => ReplayInv'
<1> SUFFICES ASSUME EvidenceInv, ReplayInv, [Next]_vars PROVE ReplayInv' OBVIOUS
<1>1. CASE UNCHANGED vars
  <2>1. UNCHANGED <<input, history, pc, round, step, seen, batch, found, saved, between, outcome>>
    BY <1>1 DEF vars
  <2>2. UNCHANGED <<Unedited, AllExecutable, FirstPayload, RequestCount, Source, Target, CitedFile>>
    BY <2>1, SameInputs, CountsKept, InHandKept
  <2>3. (ExecutingInv <=> ExecutingInv') /\ (ReadingInv <=> ReadingInv')
    BY <2>1, <2>2 DEF ExecutingInv, ReadingInv
  <2>4. QED BY <2>1, <2>2, <2>3 DEF ReplayInv, UneditedReplayAccepts
<1>2. CASE \E f \in Files, c \in Contents : Edit(f, c) BY <1>2, ReplayEdit
<1>3. CASE Done BY <1>1, <1>3 DEF Done
<1>4. QED BY <1>1, <1>2, <1>3, ReplayStart, ReplayResolve, ReplayLoad, ReplayDigest, ReplayExecuted,
             ReplayCheck, ReplayParse, ReplayAssemble, ReplayCompare DEF Next

\* The replay of an evaluation is accepted unless a file was edited, for every set of inputs
\* and files: two rounds over the same bytes give the same payload, refusals included.
THEOREM ReplayReproduces == Spec => []UneditedReplayAccepts
<1>1. ReplayInv => UneditedReplayAccepts
  <2>1. SUFFICES ASSUME ReplayInv PROVE UneditedReplayAccepts OBVIOUS
  <2>2. CASE Unedited BY <2>1, <2>2 DEF ReplayInv
  <2>3. CASE ~Unedited BY <2>3 DEF UneditedReplayAccepts
  <2>4. QED BY <2>2, <2>3
<1>2. QED BY <1>1, EvidenceInvariant, ReplayInit, ReplayStep, PTL DEF Spec
==============================================================================
