--------------------------- MODULE MCRunEvidence ----------------------------
(* Small instances of RunEvidence. *)
EXTENDS RunEvidence

CONSTANTS v1, rc

OneVerifier  == {v1}
=============================================================================
