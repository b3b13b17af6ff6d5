------------------------- MODULE MCExportRefinement --------------------------
(***************************************************************************)
(* ExportRefinement with the verdict of MCExportTransaction.               *)
(***************************************************************************)
EXTENDS ExportRefinement, MCExportTransaction
==============================================================================
