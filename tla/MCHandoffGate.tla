---------------------------- MODULE MCHandoffGate ----------------------------
(* Inputs for the evaluation of a build tree of two nodes.  A base input is *)
(* ready for Builder; a deviation changes one thing in it.                  *)
EXTENDS HandoffGate, TLC

CONSTANTS n1, n2, f1, f2

Other == "other-node"   \* a node name the approved tree does not have

Action(type, target) ==
  [type |-> type, target |-> target, add |-> {}, remove |-> {}, swap |-> {},
   made |-> Other, parent |-> n2, open |-> FALSE]
Class(add, remove, swap) ==
  [Action("apply_class", n1) EXCEPT !.add = add, !.remove = remove, !.swap = swap]

Row(n, c) == [subject |-> n, claim |-> c]
AllJudged == {Row(n, c) : n \in Nodes, c \in JudgmentClaims}

Once == [n \in Nodes \cup {Orphan} |-> IF n = Orphan THEN 0 ELSE 1]

\* The contracts as they are committed: eight stages, the export last.
Stage(i) == [id |-> IF i = 8 THEN "project_gate_export" ELSE ToString(i), ordinal |-> i,
             mandatory |-> TRUE, outputs |-> TRUE]
Locked(digest) ==
  [lock |-> [constants |-> TRUE, canonical |-> Pinned, vendored |-> digest], copy |-> digest]
Committed == [export |-> Locked(Pinned), bundle |-> Locked(Pinned),
              pipeline |-> [i \in 1..8 |-> Stage(i)]]

\* A copy that changed with its lock, a copy without one, and stages out of order.
Drifted ==
  {[Committed EXCEPT !.export = Locked("other")], [Committed EXCEPT !.bundle = Locked("other")],
   [Committed EXCEPT !.export.lock = NoLock], [Committed EXCEPT !.export.copy = "none"],
   [Committed EXCEPT !.pipeline = [i \in 1..8 |-> Stage(9 - i)]],
   [Committed EXCEPT !.pipeline[8] = Stage(7)]}

Ready(actions) ==
  [reviewed |-> Once, strategies |-> Once, actions |-> actions,
   permissions |-> {}, forbidden |-> {"redesign"},
   hints |-> [n \in Nodes |-> {}], requested |-> [n \in Nodes |-> {}],
   changes |-> {}, permits |-> {},
   judged |-> AllJudged, approvals |-> {Row(n, c) : n \in Nodes, c \in DecisionClaims},
   sources |-> <<>>, requests |-> <<>>, altered |-> {}, traced |-> Nodes,
   unknowns |-> FALSE, unsettled |-> FALSE, synthetic |-> FALSE,
   intakeComplete |-> TRUE, classesInOrder |-> TRUE,
   contracts |-> Committed]

Plain == {Action("configure_layout", n1), Action("configure_overlay", n2)}
Untouched == {Action("preserve_existing", n1), Action("inspect_only", n2)}
Decided == {Action("bind_dynamic_loop", n1), Action("use_placeholder", n2)}
Validated == {Action("configure_layout", n1), Action("run_qa", n2)}

Grant(kind, classes, nodes) ==
  [subjects |-> Nodes, types |-> ActionTypes, kinds |-> {kind},
   classes |-> classes, nodes |-> nodes]

\* One thing that is different.  Deviations of the same field replace each other.
With(in, f, v) == [in EXCEPT ![f] = v]
Deviations(in) ==
  {in}
  \cup {With(in, "reviewed", r) :
          r \in {[Once EXCEPT ![n2] = 0], [Once EXCEPT ![Orphan] = 1], [Once EXCEPT ![n1] = 2]}}
  \cup {With(in, "strategies", r) : r \in {[Once EXCEPT ![n2] = 0], [Once EXCEPT ![n1] = 2]}}
  \cup {With(in, "actions", in.actions \cup {a}) :
          a \in {Action("configure_layout", Orphan), Action("attach_asset", n1),
                 [Action("set_style", n1) EXCEPT !.open = TRUE],
                 Class({"k1"}, {}, {}), Class({"k2"}, {}, {}), Class({}, {"k1"}, {}),
                 Class({}, {}, {[from |-> "k2", to |-> "k1"]}),
                 Action("move_element", n1), Action("create_element", n1),
                 [Action("create_element", n1) EXCEPT !.made = n2],
                 Action("rename_node", n2)}}
  \cup {With(in, "actions", {}), With(in, "actions", {a \in in.actions : a.target = n1})}
  \cup {With(in, "permissions", {p}) :
          p \in {Grant("class", {"k1", "k2"}, {}), Grant("structure", {}, Nodes \cup {Other})}}
  \cup {With(in, "forbidden", {"class", "structure", "asset", "dynamic"})}
  \cup {With(in, "hints", [n \in Nodes |-> {"overlay", "placeholder"}]),
        With(in, "hints", [n \in Nodes |-> {"ui_control"}]),
        With(in, "requested", [n \in Nodes |-> {"QA", "placeholder_policy"}])}
  \cup {With(in, "changes", {n1}), With(in, "permits", {n1})}
  \cup {With(in, "judged", {}), With(in, "approvals", {})}
  \cup {With(in, "altered", {x}) : x \in {"candidate", "classes", "tree", "proposal"}}
  \cup {With(in, "traced", {n1})}
  \cup {With(in, b, TRUE) : b \in {"unknowns", "unsettled", "synthetic"}}
  \cup {With(in, "intakeComplete", FALSE)}
  \cup {With(in, "contracts", c) : c \in Drifted}

Twice(in) == UNION {Deviations(d) : d \in Deviations(in)}
StructuralInputs == UNION {Twice(Ready(a)) : a \in {Plain, Untouched, Decided, Validated}}

\* Claims that rest on files: a runtime request and a cited source, of one file or of two.
Pending == {Action("attach_asset", n1), Action("run_qa", n2)}
Cited(f, pin) == [row |-> Row(n1, "asset_source"), file |-> f, pin |-> pin]
Ask(f) == [row |-> Row(n2, "QA"), file |-> f]
EvidentialInputs ==
  {[Ready(Pending) EXCEPT !.sources = s, !.requests = q] :
     s \in {<<>>, <<Cited(f1, 0)>>, <<Cited(f1, 1)>>, <<Cited(f1, 2), Cited(f2, 0)>>},
     q \in {<<>>, <<Ask(f1)>>, <<Ask(f2)>>, <<Ask(NoFile)>>, <<Ask(f2), Ask(f1)>>}}

\* Ready inputs that the exporter does not let through, for the one reason, the other or both.
Interacting == {Action("set_responsive", n1), Action("configure_interaction", n2)}
RefusedInputs ==
  {With(Ready(a), "classesInOrder", b) : a \in {Plain, Interacting}, b \in BOOLEAN}

MCInputs == StructuralInputs \cup EvidentialInputs \cup RefusedInputs
==============================================================================
