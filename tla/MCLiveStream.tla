---------------------------- MODULE MCLiveStream ----------------------------
(* Small instances of LiveStream. *)
EXTENDS LiveStream, TLC

CONSTANTS r1, r2

MCRequests == {r1, r2}

MCSymmetry == Permutations(MCRequests)
=============================================================================
