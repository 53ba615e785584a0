------------------------------- MODULE MCAuth -------------------------------
(***************************************************************************)
(* TLC instances of Auth.                                                  *)
(***************************************************************************)
EXTENDS Auth, TLC

CONSTANTS l1, l2, l3, l4, a1, a2

FourLogins == {l1, l2, l3, l4}
TwoAddrs   == {a1, a2}

\* Logins and addresses are interchangeable; used for safety runs only.
SymmetryFour == Permutations(FourLogins) \cup Permutations(TwoAddrs)
=============================================================================
