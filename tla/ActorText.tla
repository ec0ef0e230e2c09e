----------------------------- MODULE ActorText -----------------------------
(***************************************************************************)
(* The text that the modules about the session actor share: what the       *)
(* buffer and the field hold, the word a correction takes out of it, and   *)
(* what the conversion makes of the word.                                  *)
(*                                                                         *)
(* Text is a sequence of cells: a letter of the Latin or of the Russian    *)
(* layout, a space, or a cell the buffer knows nothing about.              *)
(***************************************************************************)
EXTENDS Integers, Sequences, FiniteSets, FiniteSetsExt

Modes == {"EN", "RU"}
Cells == {"e", "r", "s", "p"}   \* Latin, Russian, space, foreign to the buffer
Texts == Seq(Cells)
Opposite(t) == IF t = "EN" THEN "RU" ELSE "EN"

Letters == {"e", "r"}
HasLetter(s) == \E i \in DOMAIN s : s[i] \in Letters
LastOf(S) == IF S = {} THEN 0 ELSE Max(S)
DropLast(s, n) == SubSeq(s, 1, Len(s) - n)
TakeLast(s, n) == SubSeq(s, Len(s) - n + 1, Len(s))
IsSuffixOf(s, t) == Len(s) =< Len(t) /\ TakeLast(t, Len(s)) = s

\* The active word: its last letter, and the last cell before it that is none.
WordEnd(b) == LastOf({i \in DOMAIN b : b[i] \in Letters})
WordStart(b) == LastOf({i \in 1 .. WordEnd(b) : b[i] \notin Letters}) + 1
Word(b) == SubSeq(b, WordStart(b), WordEnd(b))
WordTail(b) == SubSeq(b, WordEnd(b) + 1, Len(b))

\* Mutant: the tail behind the word is lost.
ReplaceWord_NoTail(b, w) == IF HasLetter(b) THEN SubSeq(b, 1, WordStart(b) - 1) \o w ELSE b

\* ReplaceStretch: a buffer without a word is left alone.
ReplaceWord(b, w) ==
  IF HasLetter(b) THEN SubSeq(b, 1, WordStart(b) - 1) \o w \o WordTail(b) ELSE b

ReplacePhrase(b, w) == IF b = <<>> THEN b ELSE w

\* ConvertRuns: every letter gets the other layout, whether all of one or mixed.
Converted(s) ==
  [i \in DOMAIN s |-> CASE s[i] = "e" -> "r" [] s[i] = "r" -> "e" [] OTHER -> s[i]]

\* scriptOf: the script of the first letter.
ScriptOf(s) ==
  IF \E i \in DOMAIN s : s[i] = "r" /\ \A j \in 1 .. i - 1 : s[j] # "e" THEN "RU" ELSE "EN"
=============================================================================
