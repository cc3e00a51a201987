---------------------------- MODULE MCFileLease ----------------------------
(* Two processes, one of them with two threads.                             *)
EXTENDS FileLease

CONSTANTS p1, p2, a1, a2, b1

MCProcs == {p1, p2}
MCThreads == {a1, a2, b1}
MCProcOf == [t \in MCThreads |-> IF t = b1 THEN p2 ELSE p1]
=============================================================================
