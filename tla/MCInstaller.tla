----------------------------- MODULE MCInstaller -----------------------------
(* Instance of Installer for TLC. *)
EXTENDS Installer

OwnerLists ==
  {<<>>, <<"us">>, <<"ru", "us">>, <<"us", "fr">>, <<"handwriting">>,
   <<"goswitch-en">>, <<"goswitch-en", "us">>, <<"goswitch-ru", "us">>, <<"goswitch-en", "fr">>}
=============================================================================
