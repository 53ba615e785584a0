----------------------------- MODULE MCSettings ------------------------------
(***************************************************************************)
(* The TLC instance of Settings: two requests or runs of the command line, *)
(* of every kind, about two user names. One can wait for the lock, save,   *)
(* or be killed at every step of the other.                                *)
(***************************************************************************)
EXTENDS Settings, TLC

CONSTANTS r1, r2, n1, n2

MCRequests == {r1, r2}
MCNames    == {n1, n2}
=============================================================================
