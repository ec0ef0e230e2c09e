------------------------------ MODULE MCSound -------------------------------
(* Instance of Sound for TLC: one theme has sounds of its own.             *)
EXTENDS Sound

ThemeSounds == {<<"yaru", "flip">>, <<"yaru", "bell">>}
=============================================================================
