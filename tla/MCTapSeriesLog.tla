---------------------------- MODULE MCTapSeriesLog ----------------------------
(* Instance of TapSeriesLog for TLC: the recogniser against the stroke log. *)
EXTENDS TapSeriesLog
=============================================================================
