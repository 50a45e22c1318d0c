---------------------------- MODULE MCLogTailer -----------------------------
(* Small instances of LogTailer. *)
EXTENDS LogTailer

CONSTANTS f1, f2, stop

TwoFlushes == {f1, f2}
NoFaults   == {}
=============================================================================
