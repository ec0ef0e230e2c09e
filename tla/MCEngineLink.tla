---------------------------- MODULE MCEngineLink ----------------------------
(* Instance of EngineLink for TLC.                                         *)
EXTENDS EngineLink
=============================================================================
