------------------------------- MODULE MCTray -------------------------------
(* Instance of Tray for TLC.                                               *)
EXTENDS Tray
=============================================================================
