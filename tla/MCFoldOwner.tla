---------------------------- MODULE MCFoldOwner -----------------------------
(* Small instances of FoldOwner. *)
EXTENDS FoldOwner, TLC

CONSTANTS o1, r1, r2

OneOwner  == {o1}
TwoRuns   == {r1, r2}

=============================================================================
