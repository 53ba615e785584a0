------------------------------ MODULE MCTunnel ------------------------------
(***************************************************************************)
(* The instance of Tunnel for TLC: one goroutine that calls Start and one  *)
(* that calls Stop; two runs, of which one may be old.  The runs are not *)
(* symmetric, because liveness is checked.                                 *)
(***************************************************************************)
EXTENDS Tunnel
CONSTANTS api, main, r1, r2
MCStarters == {api}
MCStoppers == {main}
MCRuns     == {r1, r2}
=============================================================================
