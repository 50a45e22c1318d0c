--------------------------- MODULE MCRunLifecycle ---------------------------
(* Small instances of RunLifecycle. *)
EXTENDS RunLifecycle, TLC

CONSTANTS w1, w2, c1, c2, s1, s2

MCWorkers  == {w1, w2}
MCClosers  == {c1, c2}
MCSweepers == {s1, s2}

\* Everything but the loss of the lock's session.
MCFaults == FaultSet \ {"session"}

\* A liveness run has one closer and one sweeper.
OneCloser  == {c1}
OneSweeper == {s1}
OneWorker  == {w1}

MCSymmetry == Permutations({w1, w2}) \cup Permutations({c1, c2}) \cup Permutations({s1, s2})
=============================================================================
