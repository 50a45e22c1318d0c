---------------------------- MODULE MCTestIdentity --------------------------
EXTENDS TestIdentity

CONSTANTS r1, r2, d1

TwoRuns     == {r1, r2}
OneLive     == {r1}
OneRemover  == {d1}
OneClass    == [r \in TwoRuns |-> "Checkout"]
NothingSaid == [r \in TwoRuns |-> 0]
NoFaults    == {}
=============================================================================
