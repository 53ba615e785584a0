------------------------------ MODULE MCViewer ------------------------------
(***************************************************************************)
(* The instance of Viewer for TLC: four RFB objects, so that one may be    *)
(* closing and another one be left over while the page makes a third.      *)
(***************************************************************************)
EXTENDS Viewer
CONSTANTS rfb1, rfb2, rfb3, rfb4
MCConns == {rfb1, rfb2, rfb3, rfb4}
=============================================================================
