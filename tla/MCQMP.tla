-------------------------------- MODULE MCQMP --------------------------------
(***************************************************************************)
(* The TLC instance of QMP: three commands on one connection, so that one  *)
(* can time out while another's reply is handed over and a third begins.   *)
(***************************************************************************)
EXTENDS QMP, TLC

CONSTANTS c1, c2, c3

MCCalls == {c1, c2, c3}
=============================================================================
