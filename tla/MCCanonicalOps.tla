--------------------------- MODULE MCCanonicalOps ---------------------------
(* Small instances of CanonicalOps: one or two processes, one or two tasks.  *)
EXTENDS CanonicalOps, TLC

CONSTANTS p1, p2, t1, t2, o1, o2, o3

OneProc  == {p1}
TwoProcs == {p1, p2}
OneTask  == {t1}
TwoTasks == {t1, t2}
TwoOps   == {o1, o2}
ThreeOps == {o1, o2, o3}

\* Processes are interchangeable, and so are operation ids (uuid4).
Names(ops) == Permutations(Procs) \cup Permutations(ops)
TwoOpNames == Names(TwoOps)
ThreeOpNames == Names(ThreeOps)
=============================================================================
