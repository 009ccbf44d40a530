-------------------------- MODULE ProgressiveImage --------------------------
(***************************************************************************)
(* What a rendering job is for its user, without threads, locks or         *)
(* buffers: blocks appear in the image one at a time and for good, the     *)
(* screen shows the image as it is at some moment, and only a finished     *)
(* image is saved.  Render implements this specification.                  *)
(***************************************************************************)
CONSTANT Blocks

VARIABLES merged,   \* the blocks in the image
          shown,    \* the blocks in the last frame on the screen
          saved     \* an output file exists

vars == <<merged, shown, saved>>

Init == merged = {} /\ shown = {} /\ saved = FALSE

Merge ==
    /\ ~saved
    /\ \E b \in Blocks \ merged : merged' = merged \cup {b}
    /\ UNCHANGED <<shown, saved>>

Show ==
    /\ ~saved
    /\ shown' = merged
    /\ UNCHANGED <<merged, saved>>

Save ==
    /\ merged = Blocks
    /\ saved' = TRUE
    /\ UNCHANGED <<merged, shown>>

Next == Merge \/ Show \/ Save

Spec == Init /\ [][Next]_vars
=============================================================================
