---------------------------- MODULE RoutingProofs ----------------------------
(***************************************************************************)
(* Theorems about BootstrapRouting, for any files, requests, changes and   *)
(* local copies.                                                           *)
(***************************************************************************)
EXTENDS CarrierProofs, FiniteSetTheorems, WellFoundedInduction

---------------------------------------------------------------------------
(* What the verdict on an intake gives.                                    *)

\* Without trace errors every field of the transition has one row, the one it must have.
LEMMA TracedTransition ==
  ASSUME NEW in, TransitionTraceErrors(in) = {}, NEW target \in DOMAIN TransitionTrace
  PROVE  \E i \in DOMAIN in.trace :
           /\ in.trace[i].class = TransitionTrace[target].class
           /\ in.trace[i].rule = TransitionTrace[target].rule
           /\ \A j \in DOMAIN in.trace : in.trace[j].target = target <=> i = j
<1> DEFINE rows == RowsFor(in, target)
<1>1. rows # {}
  BY DEF TransitionTraceErrors
<1>2. \A i, j \in rows : i = j
  BY DEF TransitionTraceErrors
<1>3. PICK i \in rows : rows = {i}
  BY <1>1, <1>2
<1>4. in.trace[i].class = TransitionTrace[target].class
  BY <1>3 DEF TransitionTraceErrors
<1>5. in.trace[i].rule = TransitionTrace[target].rule
  BY <1>3 DEF TransitionTraceErrors
<1>6. i \in DOMAIN in.trace /\ \A j \in DOMAIN in.trace : in.trace[j].target = target <=> i = j
  BY <1>3 DEF RowsFor
<1> QED BY <1>4, <1>5, <1>6

LEMMA GroundedIntake ==
  ASSUME NEW in, SemanticErrors(in) = {}, in.version \in Supported, in.version # "1.0.0"
  PROVE  Grounded(in)
<1>1. in.decisionRefs \subseteq Ids(in.register)
  BY DEF SemanticErrors
<1>2. \A i \in DOMAIN in.nodes : in.nodes[i].refs \subseteq Ids(in.register)
  BY DEF SemanticErrors
<1>3. in.approved \in Ids(in.nodes)
  BY DEF SemanticErrors
<1>4. TransitionErrors(in) = {}
  BY DEF SemanticErrors, Supported
<1>5. in.bundle = in.refBundle /\ TransitionTraceErrors(in) = {}
  BY <1>4 DEF TransitionErrors
<1> QED BY <1>1, <1>2, <1>3, <1>5, TracedTransition DEF Grounded

LEMMA VerifiedBinding ==
  ASSUME NEW in, NEW b, Binding(in, b) # "conflict"
  PROVE  in.hash = b
BY DEF Binding, BindingConflicts

---------------------------------------------------------------------------
(* The inductive invariant.                                                *)

\* What a file of some request may hold.
Values ==
  UNION {{s.disk[f] : f \in Files} \cup {e.content : e \in s.edits} : s \in UNION Scenarios}

LEMMA ValuesAreWellFormed == \A v \in Values : WellFormed(v)
BY ScenarioAssumption DEF Values

Steps == {"start", "read", "look", "profile", "recheck_intake", "recheck_bundle", "recheck"} \cup Ended

Typed ==
  /\ request \in [mode : Modes, maintenance : BOOLEAN, attachments : Seq(Files)]
  /\ past \in Seq([Files -> Values]) /\ Len(past) > 0
  /\ \A e \in edits : e.file \in Files /\ e.content \in Values
  /\ drifts \subseteq Mirrors /\ mirror \in Mirrors
  /\ pc \in Steps
  /\ captures \in Seq([content : Values, bucket : Buckets])
  /\ Len(captures) <= Len(request.attachments)
  /\ answer.input \in 0..Len(captures) /\ answer.bundle \in 0..Len(captures)
  /\ answer.warnings \subseteq DOMAIN captures

\* Bytes a file had and lost never come back.
NoReturn ==
  \A f \in Files : \A i, j, k \in DOMAIN past :
    i <= j /\ j <= k /\ past[i][f] = past[k][f] => past[j][f] = past[i][f]

Classified(o, bucket) ==
  /\ bucket \in {"valid", "insufficient"} =>
       /\ o.readable /\ o.schema = "canonical"
       /\ Intake(o).version \in Supported /\ SemanticErrors(Intake(o)) = {}
       /\ Intake(o).carrier # NoCarrier => Acceptable(Intake(o).carrier)
  /\ bucket = "valid" => Intake(o).status # "insufficient_evidence"
  /\ AcceptedPlain(o) => bucket = "valid"

Captured ==
  \A i \in DOMAIN captures :
    /\ captures[i].content \in Held(request.attachments[i])
    /\ Classified(captures[i].content, captures[i].bucket)

\* The intake whose carrier is looked at, and what the first look left behind.
Looking ==
  /\ pc \in {"look", "profile"} =>
       /\ Len(captures) < Len(request.attachments)
       /\ held \in Held(request.attachments[Len(captures) + 1])
       /\ held.readable /\ held.schema = "canonical" /\ Inspected(Intake(held))
  /\ pc = "profile" => \E m : FirstLook(Intake(held).carrier, m)

Rechecks == {"recheck_intake", "recheck_bundle", "recheck"}
Routing ==
  /\ pc \in {"read", "look", "profile"} \cup Rechecks => request.mode # "repository_maintenance"
  /\ pc \in Rechecks => ~request.maintenance /\ \E i \in DOMAIN captures : In("valid") = {i}
  /\ pc \in {"recheck_intake", "recheck_bundle"} =>
       \E b \in DOMAIN captures : In("source_bundle") = {b}

FileAt(i) == request.attachments[i]

\* After the second read of the intake its bytes were on disk at an instant before which the
\* bytes of the bundle had been there.
Rechecked ==
  pc = "recheck_bundle" =>
    \E k \in DOMAIN past :
      /\ past[k][FileAt(Selected)] = captures[Selected].content
      /\ \E j \in DOMAIN past : j <= k /\ past[j][FileAt(Beside)] = captures[Beside].content

Together(i, b) ==
  /\ \E k \in DOMAIN past : /\ past[k][request.attachments[i]] = captures[i].content
                            /\ past[k][request.attachments[b]] = captures[b].content
  /\ Intake(captures[i].content).hash = Bundle(captures[b].content)

Bound == pc = "recheck" /\ Cardinality(In("source_bundle")) = 1 => Together(Selected, Beside)

Answered == pc # "done" => answer = NoAnswer

IInv ==
  /\ Typed /\ NoReturn /\ Captured /\ Looking /\ Routing /\ Rechecked /\ Bound /\ Answered
  /\ RoutedInputsCoexisted /\ FirstStageIsEarned

LEMMA InitIInv == Init => IInv
<1> SUFFICES ASSUME Init PROVE IInv
  OBVIOUS
<1>1. PICK family \in Scenarios : \E s \in family :
        /\ request = [mode |-> s.mode, maintenance |-> s.maintenance, attachments |-> s.attachments]
        /\ past = <<s.disk>> /\ edits = s.edits
        /\ mirror = s.mirror /\ drifts = s.drifts
  BY DEF Init
<1>2. PICK s \in family :
        /\ request = [mode |-> s.mode, maintenance |-> s.maintenance, attachments |-> s.attachments]
        /\ past = <<s.disk>> /\ edits = s.edits
        /\ mirror = s.mirror /\ drifts = s.drifts
  BY <1>1
<1>3. pc = "start" /\ captures = <<>> /\ held = Missing /\ answer = NoAnswer
  BY DEF Init
<1>4. /\ s.mode \in Modes /\ s.maintenance \in BOOLEAN /\ s.attachments \in Seq(Files)
      /\ s.disk \in [Files -> {s.disk[f] : f \in Files}]
      /\ \A e \in s.edits : e.file \in Files
      /\ s.mirror \in Mirrors /\ s.drifts \subseteq Mirrors
  BY ScenarioAssumption
<1>5. {s.disk[f] : f \in Files} \subseteq Values /\ \A e \in s.edits : e.content \in Values
  BY DEF Values
<1>6. s.disk \in [Files -> Values]
  BY <1>4, <1>5
<1>7. past \in Seq([Files -> Values]) /\ Len(past) = 1 /\ DOMAIN past = {1}
  BY <1>2, <1>6
<1>8. captures \in Seq([content : Values, bucket : Buckets]) /\ Len(captures) = 0 /\ DOMAIN captures = {}
  BY <1>3
<1>9. answer.input = 0 /\ answer.bundle = 0 /\ answer.warnings = {} /\ answer.route = "none"
  BY <1>3 DEF NoAnswer
<1>10. Typed
  BY <1>2, <1>3, <1>4, <1>5, <1>7, <1>8, <1>9 DEF Typed, Steps
<1>11. NoReturn
  BY <1>7 DEF NoReturn
<1>12. Captured /\ Looking /\ Routing /\ Rechecked /\ Bound /\ Answered
  BY <1>3, <1>8 DEF Captured, Looking, Routing, Rechecks, Rechecked, Bound, Answered
<1>13. RoutedInputsCoexisted /\ FirstStageIsEarned
  BY <1>9 DEF RoutedInputsCoexisted, FirstStageIsEarned, FirstStage
<1> QED BY <1>10, <1>11, <1>12, <1>13 DEF IInv

---------------------------------------------------------------------------
(* Steps of the surroundings.                                              *)

LEMMA EditIInv == IInv /\ Edit => IInv'
<1> SUFFICES ASSUME IInv, Edit PROVE IInv'
  OBVIOUS
<1> USE DEF IInv
<1>1. PICK e \in edits : /\ Fresh(e)
                         /\ past' = Append(past, [disk EXCEPT ![e.file] = e.content])
                         /\ edits' = edits \ {e}
  BY DEF Edit
<1>2. pc \notin Ended /\ UNCHANGED <<drifts, mirror, request, pc, captures, held, answer>>
  BY DEF Edit
<1> DEFINE n == Len(past)
           new == [disk EXCEPT ![e.file] = e.content]
<1>3. e.file \in Files /\ e.content \in Values
  BY DEF Typed
<1>4. n \in Nat /\ n > 0 /\ past \in Seq([Files -> Values]) /\ DOMAIN past = 1..n
  BY DEF Typed
<1>5. disk \in [Files -> Values] /\ disk = past[n]
  BY <1>4 DEF disk
<1>6. new \in [Files -> Values] /\ new[e.file] = e.content /\ \A f \in Files \ {e.file} : new[f] = past[n][f]
  BY <1>3, <1>5
<1> HIDE DEF new
<1>7. /\ past' \in Seq([Files -> Values]) /\ Len(past') = n + 1 /\ DOMAIN past' = 1..(n + 1)
      /\ past'[n + 1] = new /\ \A k \in 1..n : past'[k] = past[k]
  BY <1>1, <1>4, <1>6 DEF new
<1>8. Typed'
  <2>1. \A d \in edits' : d.file \in Files /\ d.content \in Values
    BY <1>1 DEF Typed
  <2> QED BY <1>2, <1>4, <1>7, <2>1 DEF Typed
<1>9. NoReturn'
  <2> SUFFICES ASSUME NEW f \in Files, NEW i \in 1..(n + 1), NEW j \in 1..(n + 1), NEW k \in 1..(n + 1),
                      i <= j, j <= k, past'[i][f] = past'[k][f]
               PROVE  past'[j][f] = past'[i][f]
    BY <1>7 DEF NoReturn
  <2>1. CASE k <= n
    <3>1. i \in 1..n /\ j \in 1..n /\ k \in 1..n
      BY <1>4, <2>1
    <3>2. past'[i] = past[i] /\ past'[j] = past[j] /\ past'[k] = past[k]
      BY <1>7, <3>1
    <3> QED BY <1>4, <3>1, <3>2 DEF NoReturn
  <2>2. CASE k = n + 1 /\ f = e.file
    <3>1. \A m \in 1..n : past[m][f] # e.content
      BY <1>1, <1>4, <2>2 DEF Fresh
    <3>2. i = n + 1
      BY <1>4, <1>6, <1>7, <2>2, <3>1
    <3> QED BY <2>2, <3>2
  <2>3. CASE k = n + 1 /\ f # e.file
    <3>1. past'[k][f] = past[n][f]
      BY <1>6, <1>7, <2>3
    <3>2. CASE j <= n
      <4>1. i \in 1..n /\ j \in 1..n /\ n \in 1..n /\ j <= n
        BY <1>4, <3>2
      <4>2. past'[i] = past[i] /\ past'[j] = past[j]
        BY <1>7, <4>1
      <4>3. past[i][f] = past[n][f]
        BY <3>1, <4>2
      <4> QED BY <1>4, <4>1, <4>2, <4>3 DEF NoReturn
    <3>3. CASE j = n + 1
      BY <2>3, <3>3
    <3> QED BY <1>4, <3>2, <3>3
  <2> QED BY <1>4, <2>1, <2>2, <2>3
<1>10. \A f : Held(f) \subseteq Held(f)'
  BY <1>4, <1>7 DEF Held
<1>11. Captured'
  BY <1>2, <1>10 DEF Captured
<1>12. Looking' /\ Routing'
  BY <1>2, <1>10 DEF Looking, Routing, In
<1>13. Rechecked'
  <2>1. Selected' = Selected /\ Beside' = Beside /\ \A i : FileAt(i)' = FileAt(i)
    BY <1>2 DEF Selected, Beside, In, FileAt
  <2> SUFFICES ASSUME pc = "recheck_bundle" PROVE Rechecked'
    BY <1>2 DEF Rechecked
  <2>2. PICK k \in DOMAIN past :
          /\ past[k][FileAt(Selected)] = captures[Selected].content
          /\ \E j \in DOMAIN past : j <= k /\ past[j][FileAt(Beside)] = captures[Beside].content
    BY DEF Rechecked
  <2>3. PICK j \in DOMAIN past : j <= k /\ past[j][FileAt(Beside)] = captures[Beside].content
    BY <2>2
  <2> QED BY <1>2, <1>4, <1>7, <2>1, <2>2, <2>3 DEF Rechecked
<1>14. Bound'
  <2>1. Selected' = Selected /\ Beside' = Beside /\ In("source_bundle")' = In("source_bundle")
    BY <1>2 DEF Selected, Beside, In
  <2>2. ASSUME NEW i, NEW b, Together(i, b) PROVE Together(i, b)'
    <3>1. PICK k \in DOMAIN past : /\ past[k][request.attachments[i]] = captures[i].content
                                   /\ past[k][request.attachments[b]] = captures[b].content
      BY <2>2 DEF Together
    <3>2. k \in DOMAIN past' /\ past'[k] = past[k]
      BY <1>4, <1>7
    <3> QED BY <1>2, <2>2, <3>1, <3>2 DEF Together
  <2> QED BY <1>2, <2>1, <2>2 DEF Bound
<1>15. answer' = NoAnswer
  BY <1>2 DEF Answered, Ended
<1>16. RoutedInputsCoexisted' /\ FirstStageIsEarned' /\ Answered'
  BY <1>15 DEF RoutedInputsCoexisted, FirstStageIsEarned, FirstStage, NoAnswer, Answered
<1> QED BY <1>8, <1>9, <1>11, <1>12, <1>13, <1>14, <1>16

LEMMA DriftIInv == IInv /\ Drift => IInv'
<1> SUFFICES ASSUME IInv, Drift PROVE IInv'
  OBVIOUS
<1>1. PICK m \in drifts : mirror' = m /\ drifts' = drifts \ {m}
  BY DEF Drift
<1>2. UNCHANGED <<past, edits, request, pc, captures, held, answer>>
  BY DEF Drift
<1>3. Typed'
  BY <1>1, <1>2 DEF IInv, Typed
<1>4. NoReturn' /\ Captured' /\ Looking'
  BY <1>2 DEF IInv, NoReturn, Captured, Looking, Held
<1>5. Routing' /\ Rechecked' /\ Bound' /\ Answered'
  BY <1>2 DEF IInv, Routing, Rechecked, Bound, Answered, In, Selected, Beside, FileAt, Together
<1>6. RoutedInputsCoexisted' /\ FirstStageIsEarned'
  BY <1>2 DEF IInv, RoutedInputsCoexisted, FirstStageIsEarned, FirstStage, disk
<1> QED BY <1>3, <1>4, <1>5, <1>6 DEF IInv

---------------------------------------------------------------------------
(* The three ways a step of the router can end.                            *)

\* What the answer of the first stage must have under it.
Earned(i) ==
  LET o == captures[i].content IN
  /\ request.mode # "repository_maintenance" /\ ~request.maintenance
  /\ Intake(o).status # "insufficient_evidence" /\ Grounded(Intake(o))
  /\ disk[request.attachments[i]] = o
  /\ \A j \in DOMAIN captures \ {i} : ~AcceptedPlain(captures[j].content)

LEMMA AnswerStep ==
  ASSUME IInv, pc \notin Ended,
         NEW route, NEW input \in 0..Len(captures), NEW bundle \in 0..Len(captures),
         NEW warnings \in SUBSET DOMAIN captures,
         route = "architect_intake_validation" =>
           Earned(input) /\ (bundle # 0 => Together(input, bundle)),
         Answer(route, input, bundle, warnings)
  PROVE  IInv'
<1>1. /\ answer'.route = route /\ answer'.input = input
      /\ answer'.bundle = bundle /\ answer'.warnings = warnings
  BY DEF Answer
<1>2. pc' = "done" /\ UNCHANGED <<past, edits, drifts, mirror, request, captures, held>>
  BY DEF Answer, world
<1>3. Typed'
  BY <1>1, <1>2 DEF IInv, Typed, Steps, Ended
<1>4. NoReturn' /\ Captured'
  BY <1>2 DEF IInv, NoReturn, Captured, Held
<1>5. Looking' /\ Routing' /\ Rechecked' /\ Bound' /\ Answered'
  BY <1>2 DEF Looking, Routing, Rechecks, Rechecked, Bound, Answered
<1>6. RoutedInputsCoexisted'
  BY <1>1, <1>2 DEF RoutedInputsCoexisted, FirstStage, Together
<1>7. FirstStageIsEarned'
  BY <1>1, <1>2 DEF FirstStageIsEarned, FirstStage, Earned, disk
<1> QED BY <1>3, <1>4, <1>5, <1>6, <1>7 DEF IInv

\* Elsewhere than at the start and at the end only the place of the router changes.
LEMMA GoStep ==
  ASSUME IInv, pc \notin Ended, NEW step \in Steps \ {"done"}, Go(step),
         Looking', Routing', Rechecked', Bound'
  PROVE  IInv'
<1>1. pc' = step /\ UNCHANGED <<past, edits, drifts, mirror, request, captures, held, answer>>
  BY DEF Go, world
<1>2. Typed'
  BY <1>1 DEF IInv, Typed
<1>3. NoReturn' /\ Captured'
  BY <1>1 DEF IInv, NoReturn, Captured, Held
<1>4. answer' = NoAnswer
  BY <1>1 DEF IInv, Answered, Ended
<1>5. Answered' /\ RoutedInputsCoexisted' /\ FirstStageIsEarned'
  BY <1>4 DEF Answered, RoutedInputsCoexisted, FirstStageIsEarned, FirstStage, NoAnswer
<1> QED BY <1>2, <1>3, <1>5 DEF IInv

LEMMA HeldIsValue ==
  ASSUME Typed, NEW f \in Files, NEW o \in Held(f)
  PROVE  o \in Values
<1>1. PICK k \in DOMAIN past : o = past[k][f]
  BY DEF Held
<1>2. past[k] \in [Files -> Values]
  BY <1>1 DEF Typed
<1> QED BY <1>1, <1>2

LEMMA CaptureTyped ==
  ASSUME Typed, NEW i \in DOMAIN captures
  PROVE  captures[i].content \in Values /\ captures[i].bucket \in Buckets
<1> DEFINE S == [content : Values, bucket : Buckets]
<1>1. captures \in Seq(S)
  BY DEF Typed
<1> HIDE DEF S
<1>2. captures[i] \in S
  BY <1>1
<1> QED BY <1>2 DEF S

\* A file is classified.
LEMMA PutStep ==
  ASSUME IInv, pc \notin Ended, request.mode # "repository_maintenance",
         Len(captures) < Len(request.attachments),
         NEW o \in Held(request.attachments[Len(captures) + 1]),
         NEW bucket \in Buckets, Classified(o, bucket), Put(o, bucket)
  PROVE  IInv'
<1> DEFINE n == Len(captures)
           new == [content |-> o, bucket |-> bucket]
<1>1. captures' = Append(captures, new) /\ pc' = "read"
  BY DEF Put
<1>2. UNCHANGED <<past, edits, drifts, mirror, request, held, answer>>
  BY DEF Put, world
<1>3. /\ captures \in Seq([content : Values, bucket : Buckets]) /\ n \in Nat
      /\ request.attachments \in Seq(Files) /\ Len(request.attachments) \in Nat
  BY DEF IInv, Typed
<1>4. request.attachments[n + 1] \in Files
  BY <1>3
<1>5. new \in [content : Values, bucket : Buckets]
  BY <1>4, HeldIsValue DEF IInv
<1> HIDE DEF new
<1>6. /\ captures' \in Seq([content : Values, bucket : Buckets]) /\ Len(captures') = n + 1
      /\ DOMAIN captures' = 1..(n + 1) /\ DOMAIN captures = 1..n
      /\ captures'[n + 1] = new /\ \A i \in 1..n : captures'[i] = captures[i]
  BY <1>1, <1>3, <1>5
<1>7. answer' = NoAnswer
  BY <1>2 DEF IInv, Answered, Ended
<1>8. Typed'
  <2>1. answer'.input \in 0..Len(captures') /\ answer'.bundle \in 0..Len(captures') /\ answer'.warnings = {}
    BY <1>3, <1>6, <1>7 DEF NoAnswer
  <2>2. Len(captures') <= Len(request.attachments')
    BY <1>2, <1>3, <1>6
  <2>3. pc' \in Steps
    BY <1>1 DEF Steps
  <2> QED BY <1>2, <1>6, <2>1, <2>2, <2>3 DEF IInv, Typed
<1>9. NoReturn'
  BY <1>2 DEF IInv, NoReturn
<1>10. Captured'
  <2> SUFFICES ASSUME NEW i \in 1..(n + 1)
               PROVE  /\ captures'[i].content \in Held(request.attachments[i])
                      /\ Classified(captures'[i].content, captures'[i].bucket)
    BY <1>2, <1>6 DEF Captured, Held
  <2>1. CASE i = n + 1
    BY <1>6, <2>1 DEF new
  <2>2. CASE i # n + 1
    <3>1. i \in 1..n
      BY <1>3, <2>2
    <3> QED BY <1>6, <3>1 DEF IInv, Captured
  <2> QED BY <2>1, <2>2
<1>11. Looking' /\ Routing' /\ Rechecked' /\ Bound' /\ Answered'
  BY <1>1, <1>2, <1>7 DEF Looking, Routing, Rechecks, Rechecked, Bound, Answered
<1>12. RoutedInputsCoexisted' /\ FirstStageIsEarned'
  BY <1>7 DEF RoutedInputsCoexisted, FirstStageIsEarned, FirstStage, NoAnswer
<1> QED BY <1>8, <1>9, <1>10, <1>11, <1>12 DEF IInv

---------------------------------------------------------------------------
(* Steps of the router that classify the files.                            *)

LEMMA Reported == Warned \in SUBSET DOMAIN captures
BY DEF Warned, In

LEMMA StartIInv == IInv /\ Start => IInv'
<1> SUFFICES ASSUME IInv, Start PROVE IInv'
  OBVIOUS
<1>1. pc = "start" /\ pc \notin Ended
  BY DEF Start, Ended
<1>2. CASE request.mode = "repository_maintenance"
  <2>1. Answer("repository_maintenance", 0, 0, {})
    BY <1>2 DEF Start
  <2>2. 0 \in 0..Len(captures)
    BY DEF IInv, Typed
  <2> QED BY <1>1, <2>1, <2>2, AnswerStep
<1>3. CASE request.mode # "repository_maintenance"
  <2>1. Go("read")
    BY <1>3 DEF Start
  <2>2. "read" \in Steps \ {"done"}
    BY DEF Steps
  <2>3. Looking' /\ Routing' /\ Rechecked' /\ Bound'
    BY <1>3, <2>1 DEF Go, Looking, Routing, Rechecks, Rechecked, Bound
  <2> QED BY <1>1, <2>1, <2>2, <2>3, GoStep
<1> QED BY <1>2, <1>3

\* What is not of the canonical schema is never a plain valid intake.
LEMMA OtherKinds ==
  ASSUME NEW o, WellFormed(o), o.readable, AttachmentKind(o) # "canonical"
  PROVE  AttachmentKind(o) \in Buckets /\ Classified(o, AttachmentKind(o))
<1>1. AttachmentKind(o) \in Buckets \ {"valid", "insufficient"}
  BY DEF AttachmentKind, Buckets
<1>2. o.schema # "canonical"
  BY DEF AttachmentKind
<1>3. ~AcceptedPlain(o)
  BY <1>2 DEF WellFormed, AcceptedPlain, Plain
<1> QED BY <1>1, <1>3 DEF Classified

LEMMA PlainIntakes ==
  ASSUME NEW o, o.readable, AttachmentKind(o) = "canonical", ~Inspected(Intake(o))
  PROVE  /\ BucketOf(PlainVerdict(Intake(o))) \in Buckets
         /\ Classified(o, BucketOf(PlainVerdict(Intake(o))))
<1> DEFINE in == Intake(o)
           b == BucketOf(PlainVerdict(in))
<1>1. o.schema = "canonical"
  BY DEF AttachmentKind
<1>2. PlainVerdict(in) \in {"valid", "insufficient_evidence", "invalid"}
  BY DEF PlainVerdict, Verdict
<1>3. b \in Buckets
  BY <1>2 DEF BucketOf, Buckets
<1>4. ASSUME b \in {"valid", "insufficient"}
      PROVE  /\ in.version \in Supported /\ SemanticErrors(in) = {} /\ in.carrier = NoCarrier
             /\ b = "valid" => in.status # "insufficient_evidence"
  <2>1. PlainVerdict(in) # "invalid"
    BY <1>4 DEF BucketOf
  <2>2. in.version \in Supported /\ IntakeSchemaValid(in) /\ SemanticErrors(in) = {}
    BY <2>1 DEF PlainVerdict, Verdict
  <2>3. in.carrier = NoCarrier
    BY <2>2 DEF Inspected
  <2>4. in.status = "insufficient_evidence" => PlainVerdict(in) = "insufficient_evidence"
    BY <2>2 DEF PlainVerdict, Verdict
  <2> QED BY <2>2, <2>3, <2>4 DEF BucketOf
<1>5. AcceptedPlain(o) => b = "valid"
  BY DEF AcceptedPlain, BucketOf
<1> QED BY <1>1, <1>3, <1>4, <1>5 DEF Classified

LEMMA ReadIInv == IInv /\ Read => IInv'
<1> SUFFICES ASSUME IInv, Read PROVE IInv'
  OBVIOUS
<1> DEFINE f == request.attachments[Len(captures) + 1]
           o == disk[f]
<1>1. pc = "read" /\ pc \notin Ended /\ Len(captures) < Len(request.attachments)
  BY DEF Read, Ended
<1>2. request.mode # "repository_maintenance"
  BY <1>1 DEF IInv, Routing
<1>3. f \in Files
  BY <1>1 DEF IInv, Typed
<1>4. o \in Held(f)
  BY DEF IInv, Typed, Held, disk
<1>5. o \in Values /\ WellFormed(o)
  BY <1>3, <1>4, HeldIsValue, ValuesAreWellFormed DEF IInv
<1>6. CASE ~o.readable /\ ~Breaks(o) /\ Put(o, "unreadable")
  <2>1. "unreadable" \in Buckets /\ Classified(o, "unreadable")
    BY <1>6 DEF Buckets, Classified, AcceptedPlain, Plain
  <2> QED BY <1>1, <1>2, <1>4, <1>6, <2>1, PutStep
<1>7. CASE Breaks(o) /\ Go("crashed")
  <2>1. "crashed" \in Steps \ {"done"}
    BY DEF Steps, Ended
  <2>2. Looking' /\ Routing' /\ Rechecked' /\ Bound'
    BY <1>7 DEF Go, Looking, Routing, Rechecks, Rechecked, Bound
  <2> QED BY <1>1, <1>7, <2>1, <2>2, GoStep
<1>8. CASE /\ o.readable /\ ~Breaks(o) /\ AttachmentKind(o) # "canonical"
           /\ Put(o, AttachmentKind(o))
  <2>1. AttachmentKind(o) \in Buckets /\ Classified(o, AttachmentKind(o))
    BY <1>5, <1>8, OtherKinds
  <2> QED BY <1>1, <1>2, <1>4, <1>8, <2>1, PutStep
<1>9. CASE /\ o.readable /\ AttachmentKind(o) = "canonical" /\ ~Inspected(Intake(o))
           /\ Put(o, BucketOf(PlainVerdict(Intake(o))))
  <2>1. /\ BucketOf(PlainVerdict(Intake(o))) \in Buckets
        /\ Classified(o, BucketOf(PlainVerdict(Intake(o))))
    BY <1>9, PlainIntakes
  <2> QED BY <1>1, <1>2, <1>4, <1>9, <2>1, PutStep
<1>10. CASE /\ o.readable /\ AttachmentKind(o) = "canonical" /\ Inspected(Intake(o))
            /\ held' = o /\ pc' = "look"
            /\ UNCHANGED <<world, request, captures, answer>>
  <2>1. UNCHANGED <<past, edits, drifts, mirror, request, captures, answer>>
    BY <1>10 DEF world
  <2>2. Typed' /\ NoReturn' /\ Captured'
    BY <1>10, <2>1 DEF IInv, Typed, Steps, NoReturn, Captured, Held
  <2>3. o.schema = "canonical"
    BY <1>10 DEF AttachmentKind
  <2>4. Looking'
    BY <1>1, <1>4, <1>10, <2>1, <2>3 DEF Looking, Held
  <2>5. Routing' /\ Rechecked' /\ Bound'
    BY <1>2, <1>10, <2>1 DEF Routing, Rechecks, Rechecked, Bound
  <2>6. answer' = NoAnswer
    BY <1>1, <2>1 DEF IInv, Answered
  <2>7. Answered' /\ RoutedInputsCoexisted' /\ FirstStageIsEarned'
    BY <2>6 DEF Answered, RoutedInputsCoexisted, FirstStageIsEarned, FirstStage, NoAnswer
  <2> QED BY <2>2, <2>4, <2>5, <2>7 DEF IInv
<1> QED BY <1>6, <1>7, <1>8, <1>9, <1>10 DEF Read

LEMMA LookIInv == IInv /\ Look => IInv'
<1> SUFFICES ASSUME IInv, Look PROVE IInv'
  OBVIOUS
<1>1. pc = "look" /\ pc \notin Ended
  BY DEF Look, Ended
<1>2. /\ request.mode # "repository_maintenance" /\ Len(captures) < Len(request.attachments)
      /\ held \in Held(request.attachments[Len(captures) + 1])
      /\ held.readable /\ held.schema = "canonical" /\ Inspected(Intake(held))
  BY <1>1 DEF IInv, Routing, Looking
<1>3. CASE FirstLook(Intake(held).carrier, mirror)
  <2>1. Go("profile")
    BY <1>3 DEF Look
  <2>2. "profile" \in Steps \ {"done"}
    BY DEF Steps
  <2>3. UNCHANGED <<past, request, captures, held>> /\ pc' = "profile"
    BY <2>1 DEF Go, world
  <2>4. Looking'
    BY <1>2, <1>3, <2>3 DEF Looking, Held
  <2>5. Routing' /\ Rechecked' /\ Bound'
    BY <1>2, <2>3 DEF Routing, Rechecks, Rechecked, Bound
  <2> QED BY <1>1, <2>1, <2>2, <2>4, <2>5, GoStep
<1>4. CASE ~FirstLook(Intake(held).carrier, mirror)
  <2>1. Put(held, "invalid")
    BY <1>4 DEF Look
  <2>2. "invalid" \in Buckets /\ Classified(held, "invalid")
    BY <1>2 DEF Buckets, Classified, AcceptedPlain, Plain, Inspected
  <2> QED BY <1>1, <1>2, <2>1, <2>2, PutStep
<1> QED BY <1>3, <1>4

LEMMA ProfileIInv == IInv /\ LookAtProfile => IInv'
<1> SUFFICES ASSUME IInv, LookAtProfile PROVE IInv'
  OBVIOUS
<1> DEFINE in == Intake(held)
           failed == SemanticErrors(in) # {} \/ ~SecondLook(in.carrier, mirror)
           b == BucketOf(Verdict(in, failed))
<1>1. pc = "profile" /\ pc \notin Ended /\ Put(held, b)
  BY DEF LookAtProfile, Ended
<1>2. /\ request.mode # "repository_maintenance" /\ Len(captures) < Len(request.attachments)
      /\ held \in Held(request.attachments[Len(captures) + 1])
      /\ held.readable /\ held.schema = "canonical" /\ Inspected(in)
  BY <1>1 DEF IInv, Routing, Looking
<1>3. PICK m : FirstLook(in.carrier, m)
  BY <1>1 DEF IInv, Looking
<1>4. Verdict(in, failed) \in {"valid", "insufficient_evidence", "invalid"}
  BY DEF Verdict
<1>5. b \in Buckets
  BY <1>4 DEF BucketOf, Buckets
<1>6. ASSUME b \in {"valid", "insufficient"}
      PROVE  SemanticErrors(in) = {} /\ Acceptable(in.carrier)
  <2>1. ~failed
    BY <1>6 DEF BucketOf, Verdict
  <2> QED BY <1>3, <2>1, TwoLooks
<1>7. b = "valid" => in.status # "insufficient_evidence"
  BY DEF BucketOf, Verdict
<1>8. in.version \in Supported /\ ~AcceptedPlain(held)
  BY <1>2 DEF Inspected, AcceptedPlain, Plain
<1>9. Classified(held, b)
  BY <1>2, <1>6, <1>7, <1>8 DEF Classified
<1> HIDE DEF b
<1> QED BY <1>1, <1>2, <1>5, <1>9, PutStep

---------------------------------------------------------------------------
(* Steps of the router that decide.                                        *)

LEMMA FirstOf ==
  ASSUME NEW T \in SUBSET Nat, T # {}
  PROVE  First(T) \in T
<1>1. PICK i \in T : \A j \in T : ~(<<j, i>> \in OpToRel(<, Nat))
  BY NatLessThanWellFounded, WFMin
<1>2. \A j \in T : i <= j
  <2> SUFFICES ASSUME NEW j \in T PROVE i <= j
    OBVIOUS
  <2>1. ~(j < i)
    BY <1>1 DEF OpToRel
  <2> QED BY <2>1
<1> QED BY <1>2 DEF First

\* One file in a bucket is the file of that bucket.
LEMMA OnlyOne ==
  ASSUME Typed, NEW bucket, Cardinality(In(bucket)) = 1
  PROVE  \E i \in DOMAIN captures : In(bucket) = {i}
<1>1. DOMAIN captures = 1..Len(captures) /\ Len(captures) \in Nat
  BY DEF Typed
<1>2. IsFiniteSet(DOMAIN captures)
  BY <1>1, FS_Interval
<1>3. In(bucket) \in SUBSET DOMAIN captures
  BY DEF In
<1>4. IsFiniteSet(In(bucket))
  BY <1>2, <1>3, FS_Subset
<1>5. \E i : In(bucket) = {i}
  BY <1>4, FS_Singleton
<1> QED BY <1>3, <1>5

LEMMA TheOnly ==
  ASSUME NEW i
  PROVE  Only({i}) = i
BY DEF Only

LEMMA FallbackIInv ==
  ASSUME IInv, pc \notin Ended, Fallback
  PROVE  IInv'
<1>1. 0 \in 0..Len(captures) /\ {} \in SUBSET DOMAIN captures
  BY DEF IInv, Typed
<1>2. Warned \in SUBSET DOMAIN captures
  BY Reported
<1>3. CASE In("insufficient") # {}
  <2>1. Answer("evidence_required", First(In("insufficient")), 0, Warned)
    BY <1>3 DEF Fallback
  <2>2. DOMAIN captures = 1..Len(captures) /\ Len(captures) \in Nat
    BY DEF IInv, Typed
  <2>3. First(In("insufficient")) \in In("insufficient")
    BY <1>3, <2>2, FirstOf DEF In
  <2>4. First(In("insufficient")) \in 0..Len(captures)
    BY <2>2, <2>3 DEF In
  <2> QED BY <1>1, <1>2, <2>1, <2>4, AnswerStep
<1>4. CASE In("insufficient") = {} /\ In("invalid") \cup In("unreadable") # {}
  <2>1. Answer("blocked_invalid_input", 0, 0, {})
    BY <1>4 DEF Fallback
  <2> QED BY <1>1, <2>1, AnswerStep
<1>5. CASE In("insufficient") = {} /\ In("invalid") \cup In("unreadable") = {} /\ In("legacy") # {}
  <2>1. Answer("blocked_require_canonical_v1_1", 0, 0, {})
    BY <1>5 DEF Fallback
  <2> QED BY <1>1, <2>1, AnswerStep
<1>6. CASE /\ In("insufficient") = {} /\ In("invalid") \cup In("unreadable") = {} /\ In("legacy") = {}
           /\ In("wrong") # {}
  <2>1. Answer("blocked_require_official_ce_input", 0, 0, {})
    BY <1>6 DEF Fallback
  <2> QED BY <1>1, <2>1, AnswerStep
<1>7. CASE /\ In("insufficient") = {} /\ In("invalid") \cup In("unreadable") = {} /\ In("legacy") = {}
           /\ In("wrong") = {}
  <2>1. Answer("waiting_for_ce_input", 0, 0, Warned)
    BY <1>7 DEF Fallback
  <2> QED BY <1>1, <1>2, <2>1, AnswerStep
<1> QED BY <1>3, <1>4, <1>5, <1>6, <1>7

LEMMA RouteIInv == IInv /\ Route => IInv'
<1> SUFFICES ASSUME IInv, Route PROVE IInv'
  OBVIOUS
<1>1. pc = "read" /\ pc \notin Ended /\ request.mode # "repository_maintenance"
  BY DEF Route, Ended, IInv, Routing
<1>2. 0 \in 0..Len(captures) /\ {} \in SUBSET DOMAIN captures /\ Warned \in SUBSET DOMAIN captures
  BY Reported DEF IInv, Typed
<1>3. CASE Answer("blocked_ambiguous_input", 0, 0, Warned)
  BY <1>1, <1>2, <1>3, AnswerStep
<1>4. CASE Answer("repository_maintenance", 0, 0, {})
  BY <1>1, <1>2, <1>4, AnswerStep
<1>5. CASE /\ Cardinality(In("valid")) = 1 /\ ~request.maintenance
           /\ Go(IF Cardinality(In("source_bundle")) = 1 THEN "recheck_intake" ELSE "recheck")
  <2> DEFINE step == IF Cardinality(In("source_bundle")) = 1 THEN "recheck_intake" ELSE "recheck"
  <2>1. step \in Steps \ {"done"}
    BY DEF Steps
  <2>2. \E i \in DOMAIN captures : In("valid") = {i}
    BY <1>5, OnlyOne DEF IInv
  <2>3. step = "recheck_intake" => \E b \in DOMAIN captures : In("source_bundle") = {b}
    BY OnlyOne DEF IInv
  <2>4. step \in {"recheck_intake", "recheck"}
        /\ (step = "recheck" => Cardinality(In("source_bundle")) # 1)
    OBVIOUS
  <2>5. Go(step)
    BY <1>5
  <2> HIDE DEF step
  <2>6. pc' = step /\ UNCHANGED <<past, request, captures, held>>
    BY <2>5 DEF Go, world
  <2>7. Looking' /\ Rechecked'
    BY <2>4, <2>6 DEF Looking, Rechecked
  <2>8. Routing'
    BY <1>1, <1>5, <2>2, <2>3, <2>4, <2>6 DEF Routing, In
  <2>9. Bound'
    BY <2>4, <2>6 DEF Bound, In
  <2> QED BY <1>1, <2>1, <2>5, <2>7, <2>8, <2>9, GoStep
<1>6. CASE Fallback
  BY <1>1, <1>6, FallbackIInv
<1> QED BY <1>3, <1>4, <1>5, <1>6 DEF Route

\* The file that passed and, where there is one, the bundle beside it.
LEMMA TheSelected ==
  ASSUME IInv, pc \in Rechecks
  PROVE  /\ Selected \in DOMAIN captures /\ In("valid") = {Selected}
         /\ captures[Selected].bucket = "valid"
         /\ ~request.maintenance /\ request.mode # "repository_maintenance"
<1>1. PICK i \in DOMAIN captures : In("valid") = {i}
  BY DEF IInv, Routing
<1>2. Selected = i
  BY <1>1, TheOnly DEF Selected
<1> QED BY <1>1, <1>2 DEF IInv, Routing, In

LEMMA TheBeside ==
  ASSUME NEW b \in DOMAIN captures, In("source_bundle") = {b}
  PROVE  Beside = b
BY TheOnly DEF Beside

LEMMA ConflictIInv ==
  ASSUME IInv, pc \notin Ended, Conflict
  PROVE  IInv'
<1>1. 0 \in 0..Len(captures) /\ Warned \in SUBSET DOMAIN captures
  BY Reported DEF IInv, Typed
<1> QED BY <1>1, AnswerStep DEF Conflict

LEMMA RecheckIntakeIInv == IInv /\ RecheckIntake => IInv'
<1> SUFFICES ASSUME IInv, RecheckIntake PROVE IInv'
  OBVIOUS
<1>1. pc = "recheck_intake" /\ pc \notin Ended /\ pc \in Rechecks
  BY DEF RecheckIntake, Ended, Rechecks
<1>2. CASE ~Unchanged(Selected)
  BY <1>1, <1>2, ConflictIInv DEF RecheckIntake
<1>3. CASE Unchanged(Selected)
  <2>1. Go("recheck_bundle")
    BY <1>3 DEF RecheckIntake
  <2>2. "recheck_bundle" \in Steps \ {"done"}
    BY DEF Steps
  <2>3. pc' = "recheck_bundle" /\ UNCHANGED <<past, request, captures, held>>
    BY <2>1 DEF Go, world
  <2>4. Routing'
    BY <1>1, <2>3 DEF IInv, Routing, In, Rechecks
  <2>5. Looking' /\ Bound'
    BY <2>3 DEF Looking, Bound
  <2> DEFINE n == Len(past)
  <2>6. n \in DOMAIN past /\ n \in Nat /\ DOMAIN past = 1..n
    BY DEF IInv, Typed
  <2>7. past[n][FileAt(Selected)] = captures[Selected].content
    BY <1>3 DEF Unchanged, disk, FileAt
  <2>8. PICK b \in DOMAIN captures : In("source_bundle") = {b}
    BY <1>1 DEF IInv, Routing
  <2>9. Beside = b
    BY <2>8, TheBeside
  <2>10. PICK j \in DOMAIN past : past[j][FileAt(b)] = captures[b].content
    BY DEF IInv, Captured, Held, FileAt
  <2>11. j <= n
    BY <2>6
  <2>12. Selected' = Selected /\ Beside' = Beside /\ \A i : FileAt(i)' = FileAt(i)
    BY <2>3 DEF Selected, Beside, In, FileAt
  <2>13. Rechecked'
    BY <2>3, <2>6, <2>7, <2>9, <2>10, <2>11, <2>12 DEF Rechecked
  <2> QED BY <1>1, <2>1, <2>2, <2>4, <2>5, <2>13, GoStep
<1> QED BY <1>2, <1>3

\* Bytes of the bundle from before and after the second read of the intake were there at it.
LEMMA RecheckBundleIInv == IInv /\ RecheckBundle => IInv'
<1> SUFFICES ASSUME IInv, RecheckBundle PROVE IInv'
  OBVIOUS
<1> DEFINE binding == Binding(Intake(captures[Selected].content), Bundle(captures[Beside].content))
           n == Len(past)
<1>1. pc = "recheck_bundle" /\ pc \notin Ended /\ pc \in Rechecks
  BY DEF RecheckBundle, Ended, Rechecks
<1>2. Selected \in DOMAIN captures
  BY <1>1, TheSelected
<1>3. PICK b \in DOMAIN captures : In("source_bundle") = {b}
  BY <1>1 DEF IInv, Routing
<1>4. Beside = b
  BY <1>3, TheBeside
<1>5. DOMAIN captures = 1..Len(captures) /\ Len(captures) \in Nat
  BY DEF IInv, Typed
<1>6. CASE ~Unchanged(Beside) \/ binding = "conflict"
  BY <1>1, <1>6, ConflictIInv DEF RecheckBundle
<1>7. CASE Unchanged(Beside) /\ binding = "evidence_required"
  <2>1. Answer("evidence_required", Selected, Beside, Warned)
    BY <1>7 DEF RecheckBundle
  <2>2. Selected \in 0..Len(captures) /\ Beside \in 0..Len(captures)
    BY <1>2, <1>4, <1>5
  <2>3. Warned \in SUBSET DOMAIN captures
    BY Reported
  <2> QED BY <1>1, <2>1, <2>2, <2>3, AnswerStep
<1>8. CASE Unchanged(Beside) /\ binding # "conflict" /\ binding # "evidence_required"
  <2>1. Go("recheck")
    BY <1>8 DEF RecheckBundle
  <2>2. "recheck" \in Steps \ {"done"}
    BY DEF Steps
  <2>3. pc' = "recheck" /\ UNCHANGED <<past, request, captures, held>>
    BY <2>1 DEF Go, world
  <2>4. Looking' /\ Rechecked'
    BY <2>3 DEF Looking, Rechecked
  <2>5. Routing'
    BY <1>1, <2>3 DEF IInv, Routing, In, Rechecks
  <2>6. DOMAIN past = 1..n /\ n \in 1..n
    BY DEF IInv, Typed
  <2>7. past[n][FileAt(Beside)] = captures[Beside].content
    BY <1>8 DEF Unchanged, disk, FileAt
  <2>8. PICK k \in DOMAIN past :
          /\ past[k][FileAt(Selected)] = captures[Selected].content
          /\ \E j \in DOMAIN past : j <= k /\ past[j][FileAt(Beside)] = captures[Beside].content
    BY <1>1 DEF IInv, Rechecked
  <2>9. PICK j \in DOMAIN past : j <= k /\ past[j][FileAt(Beside)] = captures[Beside].content
    BY <2>8
  <2>10. FileAt(Beside) \in Files
    <3>1. Beside \in 1..Len(request.attachments)
      BY <1>4, <1>5 DEF IInv, Typed
    <3> QED BY <3>1 DEF IInv, Typed, FileAt
  <2>11. past[k][FileAt(Beside)] = captures[Beside].content
    <3>1. k <= n
      BY <2>6
    <3> QED BY <2>6, <2>7, <2>9, <2>10, <3>1 DEF IInv, NoReturn
  <2>12. Intake(captures[Selected].content).hash = Bundle(captures[Beside].content)
    BY <1>8, VerifiedBinding
  <2>13. Together(Selected, Beside)
    BY <2>8, <2>11, <2>12 DEF Together, FileAt
  <2>14. Selected' = Selected /\ Beside' = Beside
    BY <2>3 DEF Selected, Beside, In
  <2>15. Together(Selected, Beside)'
    BY <2>3, <2>13, <2>14 DEF Together
  <2>16. Bound'
    BY <2>15 DEF Bound
  <2> QED BY <1>1, <2>1, <2>2, <2>4, <2>5, <2>16, GoStep
<1> QED BY <1>6, <1>7, <1>8

\* What the second read finds unchanged is as it was classified.
LEMMA SelectedIsEarned ==
  ASSUME IInv, pc \in Rechecks, Unchanged(Selected)
  PROVE  Earned(Selected)
<1> DEFINE o == captures[Selected].content
           in == Intake(o)
<1>1. /\ Selected \in DOMAIN captures /\ In("valid") = {Selected}
      /\ captures[Selected].bucket = "valid"
      /\ ~request.maintenance /\ request.mode # "repository_maintenance"
  BY TheSelected
<1>2. Classified(o, "valid")
  BY <1>1 DEF IInv, Captured
<1>3. /\ o.readable /\ o.schema = "canonical"
      /\ in.version \in Supported /\ SemanticErrors(in) = {} /\ in.status # "insufficient_evidence"
  BY <1>2 DEF Classified
<1>6. o \in Values
  BY <1>1, CaptureTyped DEF IInv
<1>7. in.version # "1.0.0"
  BY <1>3, <1>6, ValuesAreWellFormed DEF WellFormed
<1>8. Grounded(in)
  BY <1>3, <1>7, GroundedIntake
<1>9. disk[request.attachments[Selected]] = o
  BY DEF Unchanged
<1>10. ASSUME NEW j \in DOMAIN captures \ {Selected} PROVE ~AcceptedPlain(captures[j].content)
  <2>1. captures[j].bucket # "valid"
    BY <1>1, <1>10 DEF In
  <2>2. Classified(captures[j].content, captures[j].bucket)
    BY DEF IInv, Captured
  <2> QED BY <2>1, <2>2 DEF Classified
<1> QED BY <1>1, <1>3, <1>8, <1>9, <1>10 DEF Earned

LEMMA RecheckIInv == IInv /\ Recheck => IInv'
<1> SUFFICES ASSUME IInv, Recheck PROVE IInv'
  OBVIOUS
<1> DEFINE bound == Cardinality(In("source_bundle")) = 1
           warnings == Warned \cup IF bound THEN {} ELSE In("source_bundle")
           bundle == IF bound THEN Beside ELSE 0
<1>1. pc = "recheck" /\ pc \notin Ended /\ pc \in Rechecks
  BY DEF Recheck, Ended, Rechecks
<1>2. warnings \in SUBSET DOMAIN captures
  BY Reported DEF In
<1>3. DOMAIN captures = 1..Len(captures) /\ Len(captures) \in Nat
  BY DEF IInv, Typed
<1>4. Selected \in 0..Len(captures)
  BY <1>1, <1>3, TheSelected
<1>5. bundle \in 0..Len(captures)
  <2>1. CASE bound
    <3>1. PICK b \in DOMAIN captures : In("source_bundle") = {b}
      BY <2>1, OnlyOne DEF IInv
    <3>2. Beside = b
      BY <3>1, TheBeside
    <3> QED BY <1>3, <2>1, <3>2
  <2>2. CASE ~bound
    BY <1>3, <2>2
  <2> QED BY <2>1, <2>2
<1>6. bundle # 0 => Together(Selected, bundle)
  BY <1>1 DEF IInv, Bound
<1>7. CASE Unchanged(Selected)
  <2>1. Answer("architect_intake_validation", Selected, bundle, warnings)
    BY <1>7 DEF Recheck
  <2>2. Earned(Selected)
    BY <1>1, <1>7, SelectedIsEarned
  <2> HIDE DEF bundle, warnings
  <2> QED BY <1>1, <1>2, <1>4, <1>5, <1>6, <2>1, <2>2, AnswerStep
<1>8. CASE ~Unchanged(Selected)
  <2>1. Answer("blocked_invalid_input", 0, 0, warnings)
    BY <1>8 DEF Recheck
  <2>2. 0 \in 0..Len(captures)
    BY <1>3
  <2> HIDE DEF warnings
  <2> QED BY <1>1, <1>2, <2>1, <2>2, AnswerStep
<1> QED BY <1>7, <1>8

---------------------------------------------------------------------------
(* The theorems.                                                           *)

LEMMA NextIInv == IInv /\ [Next]_vars => IInv'
<1> SUFFICES ASSUME IInv, [Next]_vars PROVE IInv'
  OBVIOUS
<1>1. CASE Start
  BY <1>1, StartIInv
<1>2. CASE Read
  BY <1>2, ReadIInv
<1>3. CASE Look
  BY <1>3, LookIInv
<1>4. CASE LookAtProfile
  BY <1>4, ProfileIInv
<1>5. CASE Route
  BY <1>5, RouteIInv
<1>6. CASE RecheckIntake
  BY <1>6, RecheckIntakeIInv
<1>7. CASE RecheckBundle
  BY <1>7, RecheckBundleIInv
<1>8. CASE Recheck
  BY <1>8, RecheckIInv
<1>9. CASE Edit
  BY <1>9, EditIInv
<1>10. CASE Drift
  BY <1>10, DriftIInv
<1>11. CASE UNCHANGED vars
  <2>1. UNCHANGED <<past, edits, drifts, mirror, request, pc, captures, held, answer>>
    BY <1>11 DEF vars, world
  <2>2. Typed' /\ NoReturn' /\ Captured' /\ Looking'
    BY <2>1 DEF IInv, Typed, NoReturn, Captured, Looking, Held
  <2>3. Routing' /\ Rechecked' /\ Bound' /\ Answered'
    BY <2>1 DEF IInv, Routing, Rechecked, Bound, Answered, In, Selected, Beside, FileAt, Together
  <2>4. RoutedInputsCoexisted' /\ FirstStageIsEarned'
    BY <2>1 DEF IInv, RoutedInputsCoexisted, FirstStageIsEarned, FirstStage, disk
  <2> QED BY <2>2, <2>3, <2>4 DEF IInv
<1> QED
  BY <1>1, <1>2, <1>3, <1>4, <1>5, <1>6, <1>7, <1>8, <1>9, <1>10, <1>11 DEF Next, Router

\* The inductive invariant holds throughout.
THEOREM Inductive == Spec => []IInv
BY InitIInv, NextIInv, PTL DEF Spec

\* The state of the router keeps its type; every capture is of bytes its file once held.
THEOREM TypeCorrect == Spec => []TypeOK
<1>1. IInv => TypeOK
  <2> SUFFICES ASSUME IInv PROVE TypeOK
    OBVIOUS
  <2>1. \A k \in DOMAIN past : DOMAIN past[k] = Files
    BY DEF IInv, Typed
  <2>2. \A i \in DOMAIN captures :
          captures[i].content \in Held(request.attachments[i]) /\ captures[i].bucket \in Buckets
    BY CaptureTyped DEF IInv, Captured
  <2>3. pc \in {"look", "profile"} =>
          Len(captures) < Len(request.attachments) /\ held \in Held(request.attachments[Len(captures) + 1])
    BY DEF IInv, Looking
  <2> QED BY <2>1, <2>2, <2>3 DEF IInv, Typed, TypeOK, Steps
<1> QED BY <1>1, Inductive, PTL

\* An intake bound to a bundle was on disk together with it, and is derived from it.
THEOREM Coexistence == Spec => []RoutedInputsCoexisted
<1>1. IInv => RoutedInputsCoexisted
  BY DEF IInv
<1> QED BY <1>1, Inductive, PTL

\* The first stage starts on one complete and grounded intake, still on disk as it was read.
THEOREM Earning == Spec => []FirstStageIsEarned
<1>1. IInv => FirstStageIsEarned
  BY DEF IInv
<1> QED BY <1>1, Inductive, PTL

\* The carriers of accepted intakes are the ones both looks accepted.
LEMMA AcceptedCarrier ==
  ASSUME IInv, NEW c \in AcceptedCarriers
  PROVE  Acceptable(c) /\ Numbered(c)
<1>1. PICK o \in Accepted : c = Intake(o).carrier /\ c # NoCarrier
  BY DEF AcceptedCarriers
<1>2. PICK i \in In("valid") \cup In("insufficient") : o = captures[i].content
  BY <1>1 DEF Accepted
<1>3. i \in DOMAIN captures /\ captures[i].bucket \in {"valid", "insufficient"}
  BY <1>2 DEF In
<1>4. Classified(o, captures[i].bucket)
  BY <1>2, <1>3 DEF IInv, Captured
<1>5. o.readable /\ o.schema = "canonical" /\ Acceptable(c)
  BY <1>1, <1>3, <1>4 DEF Classified
<1>6. captures[i].content \in Values
  BY <1>3, CaptureTyped DEF IInv
<1>7. WellFormed(o)
  BY <1>2, <1>6, ValuesAreWellFormed
<1>8. Numbered(c)
  BY <1>1, <1>5, <1>7 DEF WellFormed, Numbered
<1> QED BY <1>5, <1>8

\* Whatever the local copies became, an effect goes on by one authorization the canonical
\* profile knows.
THEOREM Authorized == Spec => []ContinuationIsAuthorized
<1>1. IInv => ContinuationIsAuthorized
  <2> SUFFICES ASSUME IInv, NEW c \in AcceptedCarriers, NEW k \in DOMAIN c.effects,
                      c.effects[k].state = "CONTINUE"
               PROVE  \E a \in DOMAIN c.auths : AuthorizedBy(c, c.effects[k], a)
    BY DEF ContinuationIsAuthorized
  <2>1. Acceptable(c) /\ Numbered(c)
    BY AcceptedCarrier
  <2> QED BY <2>1, AcceptableIsAuthorized
<1> QED BY <1>1, Inductive, PTL

\* The summary of an accepted carrier follows from its effect and claims.
THEOREM Honest == Spec => []ProjectionIsHonest
<1>1. IInv => ProjectionIsHonest
  <2> SUFFICES ASSUME IInv, NEW c \in AcceptedCarriers
               PROVE  \E k \in DOMAIN c.effects :
                        c.effects[k].id = c.summary.current /\ HonestSummary(c, c.effects[k])
    BY DEF ProjectionIsHonest
  <2>1. Acceptable(c) /\ Numbered(c)
    BY AcceptedCarrier
  <2> QED BY <2>1, AcceptableIsHonest
<1> QED BY <1>1, Inductive, PTL

---------------------------------------------------------------------------
(* Only a file that breaks the router keeps the only valid intake from     *)
(* starting the first stage.                                               *)

\* The bucket that the content alone decides, where there is no carrier to look at.
Exactly(o, bucket) ==
  /\ ~o.readable => bucket = "unreadable"
  /\ o.readable /\ AttachmentKind(o) # "canonical" => bucket = AttachmentKind(o)
  /\ o.readable /\ AttachmentKind(o) = "canonical" /\ Intake(o).carrier = NoCarrier =>
       bucket = BucketOf(PlainVerdict(Intake(o)))

Sorted == \A i \in DOMAIN captures : Exactly(captures[i].content, captures[i].bucket)
Finished == pc \in Rechecks => Len(captures) = Len(request.attachments)
Crashed == pc = "crashed" => \E j \in Positions : Breaks(Attached(j))

Deserved == Sorted /\ Finished /\ Crashed /\ OnlyABreakBlocks

\* While nothing changed, a capture is what is attached.
LEMMA StillAttached ==
  ASSUME IInv, Len(past) = 1, NEW j \in DOMAIN captures
  PROVE  captures[j].content = Attached(j) /\ j \in Positions /\ WellFormed(Attached(j))
<1>1. PICK k \in DOMAIN past : captures[j].content = past[k][request.attachments[j]]
  BY DEF IInv, Captured, Held
<1>2. k = 1 /\ DOMAIN past = 1..1
  BY DEF IInv, Typed
<1>3. captures[j].content = Attached(j)
  BY <1>1, <1>2 DEF Attached, disk
<1>4. j \in Positions
  BY DEF IInv, Typed, Positions
<1>5. WellFormed(captures[j].content)
  BY CaptureTyped, ValuesAreWellFormed DEF IInv
<1> QED BY <1>3, <1>4, <1>5

\* What the router knows of the attachments when it has read them all.
LEMMA AllRead ==
  ASSUME IInv, Deserved, Len(captures) = Len(request.attachments), NEW i \in Positions, OneValid(i)
  PROVE  /\ i \in DOMAIN captures
         /\ In("valid") = {i} /\ In("source_bundle") = BundlesAt
         /\ Warned = Positions \ ({i} \cup BundlesAt)
         /\ \A j \in DOMAIN captures : captures[j].content = Attached(j) /\ Unchanged(j)
<1>1. DOMAIN captures = Positions
  BY DEF IInv, Typed, Positions
<1>2. Len(past) = 1 /\ \A j \in Positions : AcceptedPlain(Attached(j)) <=> j = i
  BY DEF OneValid
<1>3. \A j \in Positions : captures[j].content = Attached(j) /\ WellFormed(Attached(j))
  BY <1>1, <1>2, StillAttached
<1>4. \A j \in Positions : Unchanged(j)
  BY <1>3 DEF Unchanged, Attached
<1>5. ASSUME NEW j \in Positions
      PROVE  /\ captures[j].bucket = "valid" <=> j = i
             /\ captures[j].bucket = "source_bundle" <=> j \in BundlesAt
  <2> DEFINE o == Attached(j)
             b == captures[j].bucket
  <2>1. Exactly(o, b) /\ WellFormed(o) /\ (AcceptedPlain(o) <=> j = i)
    BY <1>1, <1>2, <1>3 DEF Deserved, Sorted
  <2>2. j \in BundlesAt <=> o.readable /\ AttachmentKind(o) = "source_bundle"
    BY DEF BundlesAt
  <2>3. j # i /\ o.readable /\ o.intake # {} => Plain(o)
    BY DEF OneValid
  <2>4. j = i => Plain(o)
    BY <2>1 DEF AcceptedPlain
  <2> HIDE DEF o, b
  <2>5. CASE ~o.readable
    BY <2>1, <2>2, <2>5 DEF Exactly, AcceptedPlain, Plain, b
  <2>6. CASE o.readable /\ AttachmentKind(o) # "canonical"
    <3>1. b = AttachmentKind(o) /\ b # "valid"
      BY <2>1, <2>6 DEF Exactly, AttachmentKind
    <3>2. o.schema # "canonical"
      BY <2>6 DEF AttachmentKind
    <3>3. ~AcceptedPlain(o)
      BY <2>1, <2>6, <3>2 DEF AcceptedPlain, Plain, WellFormed
    <3> QED BY <2>1, <2>2, <2>6, <3>1, <3>3 DEF b
  <2>7. CASE o.readable /\ AttachmentKind(o) = "canonical"
    <3>1. o.schema = "canonical"
      BY <2>7 DEF AttachmentKind
    <3>2. o.intake # {}
      BY <2>1, <2>7, <3>1 DEF WellFormed
    <3>3. Plain(o)
      BY <2>3, <2>4, <2>7, <3>2
    <3>4. b = BucketOf(PlainVerdict(Intake(o)))
      BY <2>1, <2>7, <3>3 DEF Exactly, Plain
    <3>5. PlainVerdict(Intake(o)) \in {"valid", "insufficient_evidence", "invalid"}
      BY DEF PlainVerdict, Verdict
    <3>6. b # "source_bundle" /\ (b = "valid" <=> PlainVerdict(Intake(o)) = "valid")
      BY <3>4, <3>5 DEF BucketOf
    <3> QED BY <2>1, <2>2, <2>7, <3>3, <3>6 DEF AcceptedPlain, b
  <2> QED BY <2>5, <2>6, <2>7 DEF b
<1>6. In("valid") = {i} /\ In("source_bundle") = BundlesAt
  BY <1>1, <1>5 DEF In, BundlesAt
<1>7. Warned = {j \in Positions : captures[j].bucket \notin {"valid", "source_bundle"}}
  <2>1. \A j \in DOMAIN captures : captures[j].bucket \in Buckets
    BY CaptureTyped DEF IInv
  <2> QED BY <1>1, <2>1 DEF Warned, In, Extras
<1>8. Warned = Positions \ ({i} \cup BundlesAt)
  BY <1>5, <1>7
<1> QED BY <1>1, <1>3, <1>4, <1>6, <1>8

\* The answer of the first stage on a file, whose warnings are the other files.
AnsweredWell(i, route, input, warnings) ==
  /\ route = "architect_intake_validation" /\ input = i
  /\ warnings = Positions \ ({i} \cup IF Cardinality(BundlesAt) = 1 THEN BundlesAt ELSE {})

LEMMA PutDeserved ==
  ASSUME IInv, Sorted, NEW o, NEW bucket, Exactly(o, bucket), Put(o, bucket)
  PROVE  Deserved'
<1> DEFINE n == Len(captures)
           new == [content |-> o, bucket |-> bucket]
<1>1. captures' = Append(captures, new) /\ pc' = "read"
  BY DEF Put
<1>2. captures \in Seq([content : Values, bucket : Buckets]) /\ n \in Nat
  BY DEF IInv, Typed
<1> HIDE DEF new
<1>3. /\ DOMAIN captures' = 1..(n + 1) /\ DOMAIN captures = 1..n
      /\ captures'[n + 1] = new /\ \A i \in 1..n : captures'[i] = captures[i]
  BY <1>1, <1>2
<1>4. Sorted'
  <2> SUFFICES ASSUME NEW i \in 1..(n + 1)
               PROVE  Exactly(captures'[i].content, captures'[i].bucket)
    BY <1>3 DEF Sorted
  <2>1. CASE i = n + 1
    BY <1>3, <2>1 DEF new
  <2>2. CASE i # n + 1
    <3>1. i \in 1..n
      BY <1>2, <2>2
    <3> QED BY <1>3, <3>1 DEF Sorted
  <2> QED BY <2>1, <2>2
<1>5. Finished' /\ Crashed' /\ OnlyABreakBlocks'
  BY <1>1 DEF Finished, Rechecks, Crashed, OnlyABreakBlocks, Ended
<1> QED BY <1>4, <1>5 DEF Deserved

LEMMA GoDeserved ==
  ASSUME Sorted, NEW step, Go(step), step # "done", step # "crashed",
         step \in Rechecks => Len(captures) = Len(request.attachments)
  PROVE  Deserved'
<1>1. pc' = step /\ UNCHANGED <<request, captures>>
  BY DEF Go
<1>2. Sorted'
  BY <1>1 DEF Sorted
<1> QED BY <1>1, <1>2 DEF Deserved, Finished, Crashed, OnlyABreakBlocks, Ended

LEMMA SameWorld ==
  ASSUME UNCHANGED <<past, request>>, NEW i, OneValid(i)'
  PROVE  OneValid(i) /\ Positions' = Positions /\ BundlesAt' = BundlesAt
<1>1. Positions' = Positions /\ \A j : Attached(j)' = Attached(j)
  BY DEF Positions, Attached, disk
<1>2. BundlesAt' = BundlesAt
  BY <1>1 DEF BundlesAt
<1>3. \A j : j \in {k \in Positions : AcceptedPlain(Attached(k))} <=> j = i
  BY <1>1 DEF OneValid
<1>4. \A j \in Positions \ {i} : Attached(j).readable /\ Attached(j).intake # {} => Plain(Attached(j))
  BY <1>1 DEF OneValid
<1>5. \A b \in BundlesAt : BundlesAt = {b} =>
        Binding(Intake(Attached(i)), Bundle(Attached(b))) = "verified"
  BY <1>1, <1>2 DEF OneValid
<1>6. Len(past) = 1 /\ request.mode # "repository_maintenance" /\ ~request.maintenance
  BY DEF OneValid
<1> QED BY <1>1, <1>2, <1>3, <1>4, <1>5, <1>6 DEF OneValid

LEMMA AnswerDeserved ==
  ASSUME Sorted, NEW route, NEW input, NEW bundle, NEW warnings, Answer(route, input, bundle, warnings),
         \A i \in Positions : OneValid(i) => AnsweredWell(i, route, input, warnings)
  PROVE  Deserved'
<1>1. /\ pc' = "done" /\ UNCHANGED <<past, request, captures>>
      /\ answer'.route = route /\ answer'.input = input /\ answer'.warnings = warnings
  BY DEF Answer, world
<1>2. Sorted'
  BY <1>1 DEF Sorted
<1>3. Finished' /\ Crashed'
  BY <1>1 DEF Finished, Rechecks, Crashed
<1>4. OnlyABreakBlocks'
  <2> SUFFICES ASSUME NEW i \in Positions', OneValid(i)' PROVE FirstStageOn(i)'
    BY DEF OnlyABreakBlocks
  <2>1. OneValid(i) /\ Positions' = Positions /\ BundlesAt' = BundlesAt
    BY <1>1, SameWorld
  <2>2. AnsweredWell(i, route, input, warnings)
    BY <2>1
  <2> QED BY <1>1, <2>1, <2>2 DEF AnsweredWell, FirstStageOn, FirstStage
<1> QED BY <1>2, <1>3, <1>4 DEF Deserved

LEMMA StartDeserved == IInv /\ Deserved /\ Start => Deserved'
<1> SUFFICES ASSUME IInv, Deserved, Start PROVE Deserved'
  OBVIOUS
<1>1. CASE request.mode = "repository_maintenance"
  <2>1. Answer("repository_maintenance", 0, 0, {})
    BY <1>1 DEF Start
  <2>2. \A i \in Positions : ~OneValid(i)
    BY <1>1 DEF OneValid
  <2> QED BY <2>1, <2>2, AnswerDeserved DEF Deserved
<1>2. CASE request.mode # "repository_maintenance"
  <2>1. Go("read")
    BY <1>2 DEF Start
  <2>2. "read" \notin Rechecks
    BY DEF Rechecks
  <2> QED BY <2>1, <2>2, GoDeserved DEF Deserved
<1> QED BY <1>1, <1>2

LEMMA ReadDeserved == IInv /\ Deserved /\ Read => Deserved'
<1> SUFFICES ASSUME IInv, Deserved, Read PROVE Deserved'
  OBVIOUS
<1> DEFINE f == request.attachments[Len(captures) + 1]
           o == disk[f]
<1>1. pc = "read" /\ Len(captures) < Len(request.attachments)
  BY DEF Read
<1>2. CASE ~o.readable /\ ~Breaks(o) /\ Put(o, "unreadable")
  <2>1. Exactly(o, "unreadable")
    BY <1>2 DEF Exactly
  <2> QED BY <1>2, <2>1, PutDeserved DEF Deserved
<1>3. CASE Breaks(o) /\ Go("crashed")
  <2>1. /\ pc' = "crashed"
        /\ UNCHANGED <<past, request, captures>>
    BY <1>3 DEF Go, world
  <2>2. PICK j \in Positions : Breaks(Attached(j))
    BY <1>1, <1>3 DEF IInv, Typed, Positions, Attached
  <2>3. Positions' = Positions /\ Attached(j)' = Attached(j)
    BY <2>1 DEF Positions, Attached, disk
  <2>4. \E k \in Positions' : Breaks(Attached(k))'
    BY <2>2, <2>3
  <2>5. Sorted' /\ Finished' /\ Crashed' /\ OnlyABreakBlocks'
    BY <2>1, <2>4 DEF Deserved, Sorted, Finished, Rechecks, Crashed, OnlyABreakBlocks
  <2> QED BY <2>5 DEF Deserved
<1>4. CASE /\ o.readable /\ ~Breaks(o) /\ AttachmentKind(o) # "canonical"
           /\ Put(o, AttachmentKind(o))
  <2>1. Exactly(o, AttachmentKind(o))
    BY <1>4 DEF Exactly
  <2> QED BY <1>4, <2>1, PutDeserved DEF Deserved
<1>5. CASE /\ o.readable /\ AttachmentKind(o) = "canonical" /\ ~Inspected(Intake(o))
           /\ Put(o, BucketOf(PlainVerdict(Intake(o))))
  <2>1. Exactly(o, BucketOf(PlainVerdict(Intake(o))))
    BY <1>5 DEF Exactly
  <2> QED BY <1>5, <2>1, PutDeserved DEF Deserved
<1>6. CASE pc' = "look" /\ UNCHANGED <<world, request, captures, answer>>
  BY <1>6 DEF Deserved, Sorted, Finished, Rechecks, Crashed, OnlyABreakBlocks, Ended
<1> QED BY <1>2, <1>3, <1>4, <1>5, <1>6 DEF Read

\* A carrier that is looked at leaves the bucket open.
LEMMA CarrierIsOpen ==
  ASSUME IInv, pc \in {"look", "profile"}, NEW bucket
  PROVE  Exactly(held, bucket)
<1>1. held.readable /\ held.schema = "canonical" /\ Inspected(Intake(held))
  BY DEF IInv, Looking
<1>2. AttachmentKind(held) = "canonical" /\ Intake(held).carrier # NoCarrier
  BY <1>1 DEF AttachmentKind, Inspected
<1> QED BY <1>1, <1>2 DEF Exactly

LEMMA LookDeserved == IInv /\ Deserved /\ (Look \/ LookAtProfile) => Deserved'
<1> SUFFICES ASSUME IInv, Deserved, Look \/ LookAtProfile PROVE Deserved'
  OBVIOUS
<1>1. pc \in {"look", "profile"} /\ (Go("profile") \/ \E bucket : Put(held, bucket))
  BY DEF Look, LookAtProfile
<1>2. CASE Go("profile")
  <2>1. "profile" \notin Rechecks
    BY DEF Rechecks
  <2> QED BY <1>2, <2>1, GoDeserved DEF Deserved
<1>3. CASE \E bucket : Put(held, bucket)
  <2>1. PICK bucket : Put(held, bucket)
    BY <1>3
  <2>2. Exactly(held, bucket)
    BY <1>1, CarrierIsOpen
  <2> QED BY <2>1, <2>2, PutDeserved DEF Deserved
<1> QED BY <1>1, <1>2, <1>3

LEMMA RouteDeserved == IInv /\ Deserved /\ Route => Deserved'
<1> SUFFICES ASSUME IInv, Deserved, Route PROVE Deserved'
  OBVIOUS
<1>1. Len(captures) = Len(request.attachments)
  BY DEF Route
<1>2. \A i \in Positions : OneValid(i) => In("valid") = {i} /\ ~request.maintenance
  BY <1>1, AllRead DEF OneValid
<1>3. CASE Cardinality(In("valid")) = 1 /\ ~request.maintenance
           /\ Go(IF Cardinality(In("source_bundle")) = 1 THEN "recheck_intake" ELSE "recheck")
  BY <1>1, <1>3, GoDeserved DEF Deserved
<1>4. CASE Cardinality(In("valid")) > 1 /\ Answer("blocked_ambiguous_input", 0, 0, Warned)
  <2>1. \A i : Cardinality({i}) = 1
    BY FS_Singleton
  <2>2. \A i : In("valid") # {i}
    BY <1>4, <2>1
  <2> QED BY <1>2, <1>4, <2>2, AnswerDeserved DEF Deserved
<1>5. CASE request.maintenance /\ Answer("repository_maintenance", 0, 0, {})
  BY <1>2, <1>5, AnswerDeserved DEF Deserved
<1>6. CASE In("valid") = {} /\ Fallback
  <2>1. \A i \in Positions : ~OneValid(i)
    BY <1>2, <1>6
  <2>2. \E route, input, warnings : Answer(route, input, 0, warnings)
    BY <1>6 DEF Fallback
  <2> QED BY <2>1, <2>2, AnswerDeserved DEF Deserved
<1> QED BY <1>3, <1>4, <1>5, <1>6 DEF Route

\* A conflict is answered where no file is the only valid one.
LEMMA ConflictDeserved ==
  ASSUME IInv, Deserved, Conflict, \A i \in Positions : ~OneValid(i)
  PROVE  Deserved'
BY AnswerDeserved DEF Conflict, Deserved

LEMMA SecondReads ==
  ASSUME IInv, Deserved, pc \in Rechecks, NEW i \in Positions, OneValid(i)
  PROVE  /\ Selected = i /\ i \in DOMAIN captures
         /\ In("valid") = {i} /\ In("source_bundle") = BundlesAt
         /\ Warned = Positions \ ({i} \cup BundlesAt)
         /\ \A j \in DOMAIN captures : captures[j].content = Attached(j) /\ Unchanged(j)
<1>1. Len(captures) = Len(request.attachments)
  BY DEF Deserved, Finished
<1>2. In("valid") = {i}
  BY <1>1, AllRead
<1>3. Selected = i
  BY <1>2, TheOnly DEF Selected
<1> QED BY <1>1, <1>3, AllRead

LEMMA RecheckIntakeDeserved == IInv /\ Deserved /\ RecheckIntake => Deserved'
<1> SUFFICES ASSUME IInv, Deserved, RecheckIntake PROVE Deserved'
  OBVIOUS
<1>1. pc = "recheck_intake" /\ pc \in Rechecks
  BY DEF RecheckIntake, Rechecks
<1>2. CASE Unchanged(Selected)
  <2>1. Go("recheck_bundle") /\ Len(captures) = Len(request.attachments)
    BY <1>1, <1>2 DEF RecheckIntake, Deserved, Finished
  <2> QED BY <2>1, GoDeserved DEF Deserved
<1>3. CASE ~Unchanged(Selected)
  <2>1. \A i \in Positions : ~OneValid(i)
    BY <1>1, <1>3, SecondReads
  <2> QED BY <1>3, <2>1, ConflictDeserved DEF RecheckIntake
<1> QED BY <1>2, <1>3

LEMMA RecheckBundleDeserved == IInv /\ Deserved /\ RecheckBundle => Deserved'
<1> SUFFICES ASSUME IInv, Deserved, RecheckBundle PROVE Deserved'
  OBVIOUS
<1> DEFINE binding == Binding(Intake(captures[Selected].content), Bundle(captures[Beside].content))
<1>1. pc = "recheck_bundle" /\ pc \in Rechecks
  BY DEF RecheckBundle, Rechecks
<1>2. ASSUME NEW i \in Positions, OneValid(i)
      PROVE  Unchanged(Beside) /\ binding = "verified"
  <2>1. /\ Selected = i /\ i \in DOMAIN captures /\ In("source_bundle") = BundlesAt
        /\ \A j \in DOMAIN captures : captures[j].content = Attached(j) /\ Unchanged(j)
    BY <1>1, <1>2, SecondReads
  <2>2. PICK b \in DOMAIN captures : In("source_bundle") = {b}
    BY <1>1 DEF IInv, Routing
  <2>3. Beside = b
    BY <2>2, TheBeside
  <2>4. Binding(Intake(Attached(i)), Bundle(Attached(b))) = "verified"
    BY <1>2, <2>1, <2>2 DEF OneValid
  <2> QED BY <2>1, <2>3, <2>4
<1>3. CASE Unchanged(Beside) /\ binding # "conflict" /\ binding # "evidence_required"
  <2>1. Go("recheck") /\ Len(captures) = Len(request.attachments)
    BY <1>1, <1>3 DEF RecheckBundle, Deserved, Finished
  <2> QED BY <2>1, GoDeserved DEF Deserved
<1>4. CASE ~(Unchanged(Beside) /\ binding # "conflict" /\ binding # "evidence_required")
  <2>1. \A i \in Positions : ~OneValid(i)
    BY <1>2, <1>4
  <2>2. Conflict \/ Answer("evidence_required", Selected, Beside, Warned)
    BY <1>4 DEF RecheckBundle
  <2>3. CASE Conflict
    BY <2>1, <2>3, ConflictDeserved
  <2>4. CASE Answer("evidence_required", Selected, Beside, Warned)
    BY <2>1, <2>4, AnswerDeserved DEF Deserved
  <2> QED BY <2>2, <2>3, <2>4
<1> QED BY <1>3, <1>4

LEMMA RecheckDeserved == IInv /\ Deserved /\ Recheck => Deserved'
<1> SUFFICES ASSUME IInv, Deserved, Recheck PROVE Deserved'
  OBVIOUS
<1> DEFINE bound == Cardinality(In("source_bundle")) = 1
           warnings == Warned \cup IF bound THEN {} ELSE In("source_bundle")
           bundle == IF bound THEN Beside ELSE 0
<1>1. pc = "recheck" /\ pc \in Rechecks
  BY DEF Recheck, Rechecks
<1>2. CASE Unchanged(Selected)
  <2>1. Answer("architect_intake_validation", Selected, bundle, warnings)
    BY <1>2 DEF Recheck
  <2>2. ASSUME NEW i \in Positions, OneValid(i)
        PROVE  AnsweredWell(i, "architect_intake_validation", Selected, warnings)
    <3>1. /\ Selected = i /\ In("valid") = {i} /\ In("source_bundle") = BundlesAt
          /\ Warned = Positions \ ({i} \cup BundlesAt)
      BY <1>1, <2>2, SecondReads
    <3>2. i \notin BundlesAt /\ BundlesAt \subseteq Positions
      BY <3>1 DEF In, BundlesAt
    <3>3. CASE Cardinality(BundlesAt) = 1
      BY <3>1, <3>3 DEF AnsweredWell
    <3>4. CASE Cardinality(BundlesAt) # 1
      BY <3>1, <3>2, <3>4 DEF AnsweredWell
    <3> QED BY <3>3, <3>4
  <2> HIDE DEF warnings, bundle
  <2> QED BY <2>1, <2>2, AnswerDeserved DEF Deserved
<1>3. CASE ~Unchanged(Selected)
  <2>1. Answer("blocked_invalid_input", 0, 0, warnings)
    BY <1>3 DEF Recheck
  <2>2. \A i \in Positions : ~OneValid(i)
    BY <1>1, <1>3, SecondReads
  <2> QED BY <2>1, <2>2, AnswerDeserved DEF Deserved
<1> QED BY <1>2, <1>3

LEMMA NextDeserved == IInv /\ Deserved /\ [Next]_vars => Deserved'
<1> SUFFICES ASSUME IInv, Deserved, [Next]_vars PROVE Deserved'
  OBVIOUS
<1>1. CASE Start
  BY <1>1, StartDeserved
<1>2. CASE Read
  BY <1>2, ReadDeserved
<1>3. CASE Look \/ LookAtProfile
  BY <1>3, LookDeserved
<1>4. CASE Route
  BY <1>4, RouteDeserved
<1>5. CASE RecheckIntake
  BY <1>5, RecheckIntakeDeserved
<1>6. CASE RecheckBundle
  BY <1>6, RecheckBundleDeserved
<1>7. CASE Recheck
  BY <1>7, RecheckDeserved
<1>8. CASE Edit \/ Drift
  <2>1. UNCHANGED <<request, pc, captures>> /\ pc \notin Ended
    BY <1>8 DEF Edit, Drift
  <2>2. Sorted' /\ Finished'
    BY <2>1 DEF Deserved, Sorted, Finished
  <2> QED BY <2>1, <2>2 DEF Deserved, Crashed, OnlyABreakBlocks, Ended
<1>9. CASE UNCHANGED vars
  <2>1. UNCHANGED <<past, request, pc, captures, answer>>
    BY <1>9 DEF vars, world
  <2>2. Sorted' /\ Finished'
    BY <2>1 DEF Deserved, Sorted, Finished
  <2>3. Positions' = Positions /\ \A j : Attached(j)' = Attached(j)
    BY <2>1 DEF Positions, Attached, disk
  <2>4. Crashed'
    BY <2>1, <2>3 DEF Deserved, Crashed
  <2>5. ASSUME pc' \in Ended, NEW i \in Positions', OneValid(i)'
        PROVE  FirstStageOn(i)' \/ pc' = "crashed"
    <3>1. OneValid(i) /\ Positions' = Positions /\ BundlesAt' = BundlesAt
      BY <2>1, <2>5, SameWorld
    <3>2. FirstStageOn(i) \/ pc = "crashed"
      BY <2>1, <2>5, <3>1 DEF Deserved, OnlyABreakBlocks
    <3> QED BY <2>1, <3>1, <3>2 DEF FirstStageOn, FirstStage
  <2>6. OnlyABreakBlocks'
    BY <2>4, <2>5 DEF OnlyABreakBlocks, Crashed
  <2> QED BY <2>2, <2>4, <2>6 DEF Deserved
<1> QED
  BY <1>1, <1>2, <1>3, <1>4, <1>5, <1>6, <1>7, <1>8, <1>9 DEF Next, Router

LEMMA AlwaysDeserved == Spec => []Deserved
<1>1. Init => Deserved
  <2> SUFFICES ASSUME Init PROVE Deserved
    OBVIOUS
  <2>1. pc = "start" /\ captures = <<>>
    BY DEF Init
  <2> QED BY <2>1 DEF Deserved, Sorted, Finished, Rechecks, Crashed, OnlyABreakBlocks, Ended
<1> QED BY <1>1, Inductive, NextDeserved, PTL DEF Spec

\* However a request ends, the only valid intake starts the first stage and every other file is
\* reported, the bundle that was used excepted; in the way is only a file that breaks the router.
THEOREM BreaksAlone == Spec => []OnlyABreakBlocks
<1>1. Deserved => OnlyABreakBlocks
  BY DEF Deserved
<1> QED BY <1>1, AlwaysDeserved, PTL

---------------------------------------------------------------------------
(* Every request has an end in sight.                                      *)

\* How many steps the router may still take: at most three for a file, four to decide.
StepsLeft ==
  LET unread == Len(request.attachments) - Len(captures) IN
  CASE pc = "start" -> 5 + 3 * unread
    [] pc = "read" -> 4 + 3 * unread
    [] pc = "look" -> 3 + 3 * unread
    [] pc = "profile" -> 2 + 3 * unread
    [] pc = "recheck_intake" -> 3
    [] pc = "recheck_bundle" -> 2
    [] pc = "recheck" -> 1
    [] OTHER -> 0

\* Only the router's own steps bring its end nearer, and each does.
OwnStepsCount == IF Router THEN StepsLeft' < StepsLeft ELSE StepsLeft' = StepsLeft

LEMMA Unread ==
  ASSUME IInv
  PROVE  /\ Len(request.attachments) \in Nat /\ Len(captures) \in Nat
         /\ Len(request.attachments) - Len(captures) \in Nat
         /\ pc \in {"look", "profile"} => Len(request.attachments) - Len(captures) > 0
         /\ StepsLeft \in 0..(5 + 3 * (Len(request.attachments) - Len(captures)))
<1>1. /\ Len(request.attachments) \in Nat /\ Len(captures) \in Nat
      /\ Len(captures) <= Len(request.attachments) /\ pc \in Steps
      /\ pc \in {"look", "profile"} => Len(captures) < Len(request.attachments)
  BY DEF IInv, Typed, Looking
<1> QED BY <1>1 DEF StepsLeft, Steps, Ended

LEMMA PutCounts ==
  ASSUME IInv, NEW o, NEW bucket, Put(o, bucket), pc \in {"read", "look", "profile"},
         Len(captures) < Len(request.attachments)
  PROVE  StepsLeft' < StepsLeft
<1>1. captures' = Append(captures, [content |-> o, bucket |-> bucket]) /\ pc' = "read" /\ request' = request
  BY DEF Put
<1>2. Len(captures') = Len(captures) + 1
  BY <1>1 DEF IInv, Typed
<1> QED BY <1>1, <1>2, Unread DEF StepsLeft

LEMMA GoCounts ==
  ASSUME IInv, NEW step, Go(step),
         \/ pc = "start" /\ step = "read"
         \/ pc = "read" /\ step \in Rechecks \cup {"crashed"}
         \/ pc = "look" /\ step = "profile"
         \/ pc = "recheck_intake" /\ step = "recheck_bundle"
         \/ pc = "recheck_bundle" /\ step = "recheck"
  PROVE  StepsLeft' < StepsLeft
<1>1. pc' = step /\ UNCHANGED <<request, captures>>
  BY DEF Go
<1> QED BY <1>1, Unread DEF StepsLeft, Rechecks

LEMMA AnswerCounts ==
  ASSUME IInv, pc \notin Ended, NEW route, NEW input, NEW bundle, NEW warnings,
         Answer(route, input, bundle, warnings)
  PROVE  StepsLeft' < StepsLeft
<1>1. pc' = "done"
  BY DEF Answer
<1>2. StepsLeft > 0
  BY Unread DEF StepsLeft, IInv, Typed, Steps, Ended
<1> QED BY <1>1, <1>2 DEF StepsLeft

LEMMA RouterCounts == IInv /\ Router => StepsLeft' < StepsLeft
<1> SUFFICES ASSUME IInv, Router PROVE StepsLeft' < StepsLeft
  OBVIOUS
<1>1. CASE Start
  <2>1. pc = "start" /\ (Go("read") \/ \E r : Answer(r, 0, 0, {}))
    BY <1>1 DEF Start
  <2> QED BY <2>1, GoCounts, AnswerCounts DEF Ended
<1>2. CASE Read
  <2>1. pc = "read" /\ Len(captures) < Len(request.attachments)
    BY <1>2 DEF Read
  <2>2. \/ Go("crashed")
        \/ \E o, bucket : Put(o, bucket)
        \/ pc' = "look" /\ UNCHANGED <<request, captures>>
    BY <1>2 DEF Read
  <2>3. CASE pc' = "look" /\ UNCHANGED <<request, captures>>
    BY <2>1, <2>3, Unread DEF StepsLeft
  <2> QED BY <2>1, <2>2, <2>3, GoCounts, PutCounts
<1>3. CASE Look \/ LookAtProfile
  <2>1. pc \in {"look", "profile"} /\ Len(captures) < Len(request.attachments)
    BY <1>3 DEF Look, LookAtProfile, IInv, Looking
  <2>2. (pc = "look" /\ Go("profile")) \/ \E bucket : Put(held, bucket)
    BY <1>3 DEF Look, LookAtProfile
  <2> QED BY <2>1, <2>2, GoCounts, PutCounts
<1>4. CASE Route
  <2>1. pc = "read"
    BY <1>4 DEF Route
  <2>2. \/ \E step \in Rechecks : Go(step)
        \/ \E r, i, w : Answer(r, i, 0, w)
    BY <1>4 DEF Route, Fallback, Rechecks
  <2> QED BY <2>1, <2>2, GoCounts, AnswerCounts DEF Ended
<1>5. CASE RecheckIntake
  <2>1. pc = "recheck_intake" /\ (Go("recheck_bundle") \/ \E r, w : Answer(r, 0, 0, w))
    BY <1>5 DEF RecheckIntake, Conflict
  <2> QED BY <2>1, GoCounts, AnswerCounts DEF Ended
<1>6. CASE RecheckBundle
  <2>1. pc = "recheck_bundle" /\ (Go("recheck") \/ \E r, i, b, w : Answer(r, i, b, w))
    BY <1>6 DEF RecheckBundle, Conflict
  <2> QED BY <2>1, GoCounts, AnswerCounts DEF Ended
<1>7. CASE Recheck
  <2>1. pc = "recheck" /\ \E r, i, b, w : Answer(r, i, b, w)
    BY <1>7 DEF Recheck
  <2> QED BY <2>1, AnswerCounts DEF Ended
<1> QED BY <1>1, <1>2, <1>3, <1>4, <1>5, <1>6, <1>7 DEF Router

\* Whatever changes on the disk, the router is done within five steps and three for each attached
\* file: every step of its own brings the end nearer and nothing else puts it off.
THEOREM RequestsAreShort ==
  Spec => [](StepsLeft \in 0..(5 + 3 * Len(request.attachments))) /\ [][OwnStepsCount]_vars
<1>1. IInv => StepsLeft \in 0..(5 + 3 * Len(request.attachments))
  BY Unread
<1>2. IInv /\ [Next]_vars => [OwnStepsCount]_vars
  <2> SUFFICES ASSUME IInv, Next PROVE OwnStepsCount
    OBVIOUS
  <2>1. CASE Router
    BY <2>1, RouterCounts DEF OwnStepsCount
  <2>2. CASE ~Router
    <3>1. UNCHANGED <<request, captures, pc>>
      BY <2>2 DEF Next, Edit, Drift
    <3> QED BY <2>2, <3>1 DEF OwnStepsCount, StepsLeft
  <2> QED BY <2>1, <2>2
<1> QED BY <1>1, <1>2, Inductive, PTL DEF Spec
==============================================================================
