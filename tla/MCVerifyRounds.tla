--------------------------- MODULE MCVerifyRounds ---------------------------
(* Instances of VerifyRounds for TLC. *)
EXTENDS VerifyRounds
OneLetter == {<<"e">>}
=============================================================================
