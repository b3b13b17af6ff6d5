---------------------------- MODULE AtomicPublish ----------------------------
(***************************************************************************)
(* What one publication promises the readers of an artifact.  It saves the *)
(* artifact it finds, puts a complete offer on trial in its place and then *)
(* says how it ended: "kept" (the offer is there), "reverted" or           *)
(* "abandoned" (the artifact it found is there) or "stranded" (the reader  *)
(* must not rely on what is there).  It never shows anything else.         *)
(***************************************************************************)
CONSTANTS
  Offerable,   \* the complete artifacts a publication can offer
  Nothing      \* no artifact
VARIABLES artifact, saved, offered, phase

vars == <<artifact, saved, offered, phase>>

\* Whatever artifact is there when the publication opens.
Init ==
  /\ saved = Nothing
  /\ offered = Nothing
  /\ phase = "open"

Save ==
  /\ phase = "open"
  /\ phase' = "saved"
  /\ saved' = artifact
  /\ UNCHANGED <<artifact, offered>>

Offer ==
  /\ phase = "saved"
  /\ phase' = "trial"
  /\ artifact' \in Offerable
  /\ offered' = artifact'
  /\ UNCHANGED saved

\* The offer is withdrawn; the publication has yet to say so.
Withdraw ==
  /\ phase = "trial"
  /\ artifact' = saved
  /\ UNCHANGED <<saved, offered, phase>>

End(outcome) == phase' = outcome /\ UNCHANGED <<saved, offered>>

Keep == phase = "trial" /\ artifact = offered /\ End("kept") /\ UNCHANGED artifact
Revert == phase = "trial" /\ artifact' = saved /\ End("reverted")
Strand == phase = "trial" /\ artifact' \in {artifact, saved} /\ End("stranded")
GiveUp == phase \in {"open", "saved"} /\ End("abandoned") /\ UNCHANGED artifact

Next == Save \/ Offer \/ Withdraw \/ Keep \/ Revert \/ Strand \/ GiveUp
Spec == Init /\ [][Next]_vars
==============================================================================
