---------------------------- MODULE MCRunnerJob -----------------------------
(* Small instances of RunnerJob. *)
EXTENDS RunnerJob

CONSTANTS r1, r2

MCRunners == {r1, r2}
=============================================================================
