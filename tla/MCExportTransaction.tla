------------------------- MODULE MCExportTransaction -------------------------
(***************************************************************************)
(* ExportTransaction with a verdict that makes every kind of outcome       *)
(* happen and depends on which input versions are combined.                *)
(***************************************************************************)
EXTENDS ExportTransaction

MCVerdict(k, i) ==
  IF i["own"] = 1 /\ i["bundle"] = 1 THEN "invalid"
  ELSE IF i["own"] = 0 /\ i["intake"] = 1 THEN "allowed"
  ELSE "blocked"
==============================================================================
