---------------------------- MODULE ActionEffects ----------------------------
(***************************************************************************)
(* What a batch of Builder actions does to the architecture the Architect  *)
(* approved: which classes and which nodes of the build tree an action     *)
(* touches, which permission of the Architect covers it, and what blocks   *)
(* it.  Effects come from the action and its contract, never from what the *)
(* draft says of itself.                                                   *)
(***************************************************************************)
EXTENDS ClaimPolicies

CONSTANTS Nodes,      \* the nodes of the approved build tree
          Approved    \* the class names the Architect approved

\* A draft `in` has actions with `target`, `type`, and, where the contract has such
\* parameters, `add`, `remove` and `swap` (classes), `made` (the node produced, or the
\* new name or replacement of the target) and `parent`; `open` when a parameter leaves
\* a choice to the Builder.  Its permissions and forbidden work are the Architect's.
ActionsOn(in, n) == {a \in in.actions : a.target = n}

Introduced(a) == (a.add \cup {s.to : s \in a.swap}) \ Approved
RemovedApproved(a) == (a.remove \cup {s.from : s \in a.swap}) \cap Approved
Reclassified(a) == Introduced(a) \cup RemovedApproved(a)

HasClassEffect(a) == a.type \in ClassActions
HasStructureEffect(a) == a.type \in StructureActions
\* Mutant: taking an approved class away goes unseen.
ChangesClassSetByAdding(a) == HasClassEffect(a) /\ (Introduced(a) # {} \/ a.swap # {})
ChangesClassSet(a) == HasClassEffect(a) /\ (Reclassified(a) # {} \/ a.swap # {})

ChangedNodes(a) ==
  (IF a.type \in {"create_element", "replace_element", "rename_node"} THEN {a.made} ELSE {})
  \cup (IF \/ a.type \in {"remove_element", "delete_element", "replace_element", "rename_node"}
           \/ a.type \in {"reparent_element", "move_element"} /\ a.parent \in Nodes
        THEN {a.target} ELSE {})

\* A permission that names no subject, action or kind of effect holds all of them here;
\* one without class or node names holds the empty set, and covers none.
Permitted(in, a, kind, classes, nodes) ==
  \E p \in in.permissions :
    /\ a.target \in p.subjects /\ a.type \in p.types /\ kind \in p.kinds
    /\ classes \subseteq p.classes /\ nodes \subseteq p.nodes

ClassPermitted(in, a) == ChangesClassSet(a) => Permitted(in, a, "class", Reclassified(a), {})
StructurePermitted(in, a) == Permitted(in, a, "structure", {}, ChangedNodes(a))

\* An effect the Architect has to allow and did not.
LacksPermission(in, a) ==
  \/ HasClassEffect(a) /\ ~ClassPermitted(in, a)
  \/ HasStructureEffect(a) /\ ~StructurePermitted(in, a)

\* Some effect of the action is one the Architect allows.
HoldsPermission(in, a) ==
  \/ HasClassEffect(a) /\ ClassPermitted(in, a)
  \/ HasStructureEffect(a) /\ StructurePermitted(in, a)

ForbiddenBy(phrase, a) ==
  \/ ChangesClassSet(a) /\ phrase \in {"class", "redesign"}
  \/ HasStructureEffect(a) /\ phrase \in {"structure", "redesign", "identity"}
  \/ a.type = "create_element" /\ phrase = "invent_geometry"
  \/ a.type = "attach_asset" /\ phrase = "asset"
  \/ a.type = "set_responsive" /\ phrase = "breakpoint"
  \/ a.type = "bind_dynamic_loop" /\ phrase = "dynamic"

Conflicts(in, a) == {phrase \in in.forbidden : ForbiddenBy(phrase, a)}

LeavesTree(a) ==
  /\ HasStructureEffect(a)
  /\ \/ a.target \notin Nodes
     \/ a.type = "create_element" /\ (a.made \in Nodes \/ a.parent \notin Nodes)
     \/ a.type \in {"reparent_element", "move_element"} /\ a.parent \notin Nodes

\* A swap that neither introduces nor removes an approved class raises no diagnostic of
\* its own even when no permission covers it.
HasEffectDiagnostic(in, a) ==
  \/ Conflicts(in, a) # {}
  \/ LeavesTree(a)
  \/ HasClassEffect(a) /\ Reclassified(a) # {} /\ ~ClassPermitted(in, a)
  \/ HasStructureEffect(a) /\ ~StructurePermitted(in, a)

Blocked(in, a) == a.open \/ HasEffectDiagnostic(in, a)
==============================================================================
