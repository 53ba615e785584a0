----------------------------- MODULE MCVMManager -----------------------------
(***************************************************************************)
(* TLC instances of VMManager.                                             *)
(***************************************************************************)
EXTENDS VMManager, TLC

CONSTANTS t1, t2, p1, p2, p3

OneThread  == {t1}
TwoThreads == {t1, t2}
TwoProcs   == {p1, p2}
ThreeProcs == {p1, p2, p3}

\* Processes and threads are interchangeable; used for safety runs only.
SymmetryTwo == Permutations(TwoThreads) \cup Permutations(TwoProcs)
=============================================================================
