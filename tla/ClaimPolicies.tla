---------------------------- MODULE ClaimPolicies ----------------------------
(***************************************************************************)
(* The closed vocabularies of the evaluation: the claims with the phase in *)
(* which each must be settled and the evidence that can settle it, and the *)
(* claims that a Builder action or a phrase of the review brings with it.  *)
(***************************************************************************)

\* Settled by CE or the Architect before the Builder starts.
PreBuilderStatic ==
  {"geometry", "overlay_strategy", "responsive_strategy", "accessibility_strategy",
   "placeholder_policy", "interaction_approval", "dynamic_loop_approval"}
PreBuilderCapability == {"asset_source", "ui_control_path"}
\* Settled by a run of the implemented target, or handed on as an obligation.
PostBuilderRuntime == {"responsive_behavior", "interaction_validation", "accessibility", "QA"}

PreBuilder == PreBuilderStatic \cup PreBuilderCapability
Claims == PreBuilder \cup PostBuilderRuntime

\* Which evidence the evaluator of a claim accepts.
DecisionClaims == {"interaction_approval", "dynamic_loop_approval"}
ArtifactOnly == {"asset_source", "ui_control_path"}
ArtifactOrJudgment == {"geometry", "overlay_strategy"}
SourceClaims == ArtifactOnly \cup ArtifactOrJudgment
JudgmentClaims ==
  ArtifactOrJudgment \cup {"responsive_strategy", "accessibility_strategy", "placeholder_policy"}

Interaction ==
  {"interaction_approval", "accessibility_strategy", "accessibility", "interaction_validation"}
Responsive == {"responsive_strategy", "responsive_behavior"}

ContractClaims ==
  [preserve_existing |-> {}, inspect_only |-> {},
   configure_layout |-> {"geometry"}, set_style |-> {"geometry"}, apply_class |-> {"geometry"},
   configure_overlay |-> {"geometry", "overlay_strategy"},
   set_responsive |-> Responsive,
   configure_interaction |-> Interaction,
   bind_dynamic_loop |-> {"dynamic_loop_approval"},
   attach_asset |-> {"asset_source"}, use_placeholder |-> {"placeholder_policy"},
   set_ui_control |-> {"ui_control_path"}, run_qa |-> {"QA"},
   create_element |-> {"geometry"}, remove_element |-> {"geometry"},
   delete_element |-> {"geometry"}, reparent_element |-> {"geometry"},
   move_element |-> {"geometry"}, replace_element |-> {"geometry"},
   rename_node |-> {"geometry"}]

ActionTypes == DOMAIN ContractClaims
ClassActions == {"apply_class"}
StructureActions ==
  {"create_element", "remove_element", "delete_element", "reparent_element",
   "move_element", "replace_element", "rename_node"}

\* Phrases of a node's proposed action.
HintClaims ==
  [overlay |-> {"geometry", "overlay_strategy"}, absolute |-> {"geometry", "overlay_strategy"},
   connector |-> {"geometry"}, responsive |-> Responsive, mobile |-> Responsive,
   interaction |-> Interaction, dynamic_loop |-> {"dynamic_loop_approval"},
   asset |-> {"asset_source"}, placeholder |-> {"placeholder_policy"},
   ui_control |-> {"ui_control_path"},
   accessibility |-> {"accessibility_strategy", "accessibility"}]

Hints == DOMAIN HintClaims
==============================================================================
