--------------------------- MODULE MCPhraseBuffer ----------------------------
(* Instance of PhraseBuffer for TLC: one rune of every kind, with the rows  *)
(* of internal/layouts/tables.go for them.                                  *)
EXTENDS PhraseBuffer, TLC

\* a Cyrillic letter on a letter key, one on a punctuation key, a Latin letter
\* without a key in the tables.
EnTable == ("f" :> "cyr_a") @@ ("," :> "cyr_be") @@ ("?" :> ",") @@ ("&" :> "?") @@ ("1" :> "1")
RuTable == ("cyr_a" :> "f") @@ ("cyr_be" :> ",") @@ ("," :> "?") @@ ("?" :> "&") @@ ("1" :> "1")
=============================================================================
