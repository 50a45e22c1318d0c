--------------------------- MODULE MCUploadRequest --------------------------
EXTENDS UploadRequest

CONSTANTS q1, q2, k

TwoReqs == {q1, q2}
SameKey == [q \in TwoReqs |-> k]
=============================================================================
