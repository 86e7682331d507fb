-------------------------- MODULE MCAtLeastOnceLog --------------------------
(* Instances of AtLeastOnceLog for TLC. *)
EXTENDS AtLeastOnceLog

CONSTANT MaxLog   \* bound: the length of the log, which retries may grow for ever

LogBound == Len(log) <= MaxLog
=============================================================================
