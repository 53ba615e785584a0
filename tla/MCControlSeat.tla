---------------------------- MODULE MCControlSeat ----------------------------
(***************************************************************************)
(* TLC instance of ControlSeat: two sessions compete for the seat with two *)
(* sockets, which belong to either, so that a session can reconnect, and   *)
(* one can take, release, log out or expire beside the other.              *)
(***************************************************************************)
EXTENDS ControlSeat

CONSTANTS s1, s2, c1, c2

MCSessions == {s1, s2}
MCConns == {c1, c2}
=============================================================================
