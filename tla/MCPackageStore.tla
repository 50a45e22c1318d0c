--------------------------- MODULE MCPackageStore ---------------------------
EXTENDS PackageStore

CONSTANTS q1, q2, q3

ThreeReqs == {q1, q2, q3}
TwoFiles  == [q \in ThreeReqs |-> IF q = q2 THEN "b" ELSE "a"]
=============================================================================
