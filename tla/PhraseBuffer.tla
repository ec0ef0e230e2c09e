---------------------------- MODULE PhraseBuffer -----------------------------
(***************************************************************************)
(* The typed-input buffer of internal/correct and the pure core it feeds:  *)
(* the token and its coordinates, the convertible stretch of a word        *)
(* correction, the script rules of a conversion and the geometry of the    *)
(* replacement.  The buffer is kept beside the text it is meant to mirror. *)
(*                                                                         *)
(* Runes and layout tables are parameters; positions count from 0 as in    *)
(* the code: a half-open range [i, j) is the cells i+1 .. j.               *)
(***************************************************************************)
EXTENDS Integers, Sequences, FiniteSets

CONSTANTS
  Runes, Latin, Cyrillic, Digits,  \* the runes and their Unicode classes
  ENToRU, RUToEN,                  \* the layout tables
  BackspaceCap,                    \* the longest burst of a level-2 plan
  MaxText                          \* bound of the text's length

Letters == Latin \cup Cyrillic

ASSUME RunesAssumption ==
  /\ Latin \cup Cyrillic \cup Digits \subseteq Runes
  /\ Latin \cap Cyrillic = {}
ASSUME TablesAssumption ==
  \A table \in {ENToRU, RUToEN} :
    /\ DOMAIN table \subseteq Runes
    /\ \A r \in DOMAIN table : table[r] \in Runes
\* The generator joins the tables by key position, one the inverse of the
\* other; a letter is typed in its own layout only.
ASSUME PositionsAssumption ==
  /\ \A r \in DOMAIN ENToRU : ENToRU[r] \in DOMAIN RUToEN /\ RUToEN[ENToRU[r]] = r
  /\ \A r \in DOMAIN RUToEN : RUToEN[r] \in DOMAIN ENToRU /\ ENToRU[RUToEN[r]] = r
  /\ DOMAIN ENToRU \cap Cyrillic = {} /\ DOMAIN RUToEN \cap Latin = {}
ASSUME BufferBounds == BackspaceCap \in Nat /\ MaxText \in Nat

VARIABLES
  runes,      \* the phrase since the last hard reset
  curStart,   \* where the token being built starts
  lastStart,  \* the last finished token
  lastLen,
  field       \* the text before the cursor

vars == <<runes, curStart, lastStart, lastLen, field>>

(***************************************************************************)
(* Which runes make a token, and which a stretch.                          *)
(***************************************************************************)
LetterCapable(r) ==
  \/ r \in Letters
  \/ r \in DOMAIN ENToRU /\ ENToRU[r] \in Letters
  \/ r \in DOMAIN RUToEN /\ RUToEN[r] \in Letters

TokenCapable(r) == LetterCapable(r) \/ r \in Digits

TablePosition(r) == r \in DOMAIN ENToRU \cup DOMAIN RUToEN

\* Where the run of token-capable runes that ends at position i starts.
TokenRunFrom(s, i) ==
  CHOOSE j \in 0 .. i :
    /\ \A q \in j + 1 .. i : TokenCapable(s[q])
    /\ j > 0 => ~TokenCapable(s[j])

\* Where the run of boundary runes that ends at position i starts.
BoundaryRunFrom(s, i) ==
  CHOOSE j \in 0 .. i :
    /\ \A q \in j + 1 .. i : ~TokenCapable(s[q])
    /\ j > 0 => TokenCapable(s[j])

(***************************************************************************)
(* The buffer's methods.                                                   *)
(***************************************************************************)
\* recompute: the coordinates from the contents.
Recompute(s) ==
  LET cur  == TokenRunFrom(s, Len(s))
      end  == BoundaryRunFrom(s, cur)
      last == TokenRunFrom(s, end)
  IN  /\ curStart' = cur
      /\ lastStart' = last
      /\ lastLen' = end - last

\* activeRange: the token being built, else the last finished one.
HasToken(s, cur, len) == cur < Len(s) \/ len > 0
ActiveStart == IF curStart < Len(runes) THEN curStart ELSE lastStart
ActiveEnd   == IF curStart < Len(runes) THEN Len(runes) ELSE lastStart + lastLen

\* Mutant: the walk to the left never leaves the token.
StretchStart_Token == ActiveStart

\* stretchRange: the active range walked outward over table positions.
StretchStart ==
  CHOOSE i \in 0 .. ActiveStart :
    /\ \A q \in i + 1 .. ActiveStart : TablePosition(runes[q])
    /\ i > 0 => ~TablePosition(runes[i])
StretchEnd ==
  CHOOSE j \in ActiveEnd .. Len(runes) :
    /\ \A q \in ActiveEnd + 1 .. j : TablePosition(runes[q])
    /\ j < Len(runes) => ~TablePosition(runes[j + 1])

(***************************************************************************)
(* Conversion.                                                             *)
(***************************************************************************)
Occur(s, S) == \E i \in DOMAIN s : s[i] \in S

\* Mutant: every rune goes through the table of its own script.
Image_PerRune(s, r) ==
  LET table == IF r \in Cyrillic THEN RUToEN ELSE ENToRU
  IN  IF r \in DOMAIN table THEN table[r] ELSE r

\* The table a rune of the text s goes through: a mixed text inverts letter
\* by letter, a text of one script goes wholesale.  Identity without a table.
Image(s, r) ==
  LET mixed == Occur(s, Latin) /\ Occur(s, Cyrillic)
      table == IF mixed THEN IF r \in Cyrillic THEN RUToEN ELSE ENToRU
               ELSE IF Occur(s, Cyrillic) THEN RUToEN ELSE ENToRU
  IN  IF r \in DOMAIN table /\ (mixed => r \in Letters) THEN table[r] ELSE r

\* ConvertRuns refuses a text without letters, and one with a letter its
\* table does not carry.
Converts(s) ==
  /\ Occur(s, Letters)
  /\ \A i \in DOMAIN s :
       /\ s[i] \in Latin => s[i] \in DOMAIN ENToRU
       /\ s[i] \in Cyrillic => s[i] \in DOMAIN RUToEN

Convert(s) == [i \in DOMAIN s |-> Image(s, s[i])]

(***************************************************************************)
(* Replacement.  BuildPlan: what is deleted is the token and its tail, at  *)
(* level 2 no more than the cap; what is committed is the converted token  *)
(* and the same tail.                                                      *)
(***************************************************************************)
Segment(s, i, j) == SubSeq(s, i + 1, j)
Spliced(s, i, j, mid) == Segment(s, 0, i) \o mid \o Segment(s, j, Len(s))

\* BuildPlan's count, in runes.
Deletes(token, tail) == Len(token) + Len(tail)

PlanFits(n, surrounding) == surrounding \/ n =< BackspaceCap

-----------------------------------------------------------------------------
Init ==
  /\ runes = <<>>
  /\ curStart = 0 /\ lastStart = 0 /\ lastLen = 0
  /\ field = <<>>

\* A rune is typed: a token rune extends the token, any other ends it.
PushFeed(r) ==
  /\ runes' = Append(runes, r)
  /\ field' = Append(field, r)
  /\ IF TokenCapable(r)
       THEN UNCHANGED <<curStart, lastStart, lastLen>>
       ELSE /\ IF Len(runes) > curStart
                 THEN lastStart' = curStart /\ lastLen' = Len(runes) - curStart
                 ELSE UNCHANGED <<lastStart, lastLen>>
            /\ curStart' = Len(runes) + 1

Push(r) == Len(field) < MaxText /\ PushFeed(r)

\* Mutant: a pop leaves the coordinates alone.
Backspace_Stale ==
  /\ field # <<>>
  /\ field' = Segment(field, 0, Len(field) - 1)
  /\ runes' = IF runes = <<>> THEN runes ELSE Segment(runes, 0, Len(runes) - 1)
  /\ UNCHANGED <<curStart, lastStart, lastLen>>

\* BackSpace; with an empty buffer the client still erases, if it can.
Backspace ==
  /\ field # <<>>
  /\ field' = Segment(field, 0, Len(field) - 1)
  /\ IF runes = <<>>
       THEN UNCHANGED <<runes, curStart, lastStart, lastLen>>
       ELSE /\ runes' = Segment(runes, 0, Len(runes) - 1)
            /\ Recompute(runes')

HardReset ==
  /\ runes # <<>>
  /\ runes' = <<>>
  /\ curStart' = 0 /\ lastStart' = 0 /\ lastLen' = 0
  /\ UNCHANGED field

\* A correction of the range [i, j) of the buffer that executes: the client
\* deletes and gets the commit, the buffer swaps the range.
Replace(i, j, surrounding) ==
  LET token == Segment(runes, i, j)
      tail  == Segment(runes, j, Len(runes))
      n     == Deletes(token, tail)
  IN  /\ Converts(token)
      /\ PlanFits(n, surrounding)
      /\ field' = Segment(field, 0, Len(field) - n) \o Convert(token) \o tail
      /\ runes' = Spliced(runes, i, j, Convert(token))
      /\ Recompute(runes')

Tokened == HasToken(runes, curStart, lastLen)

\* The word of a double tap, the token of autocorrect, the phrase of a triple tap.
CorrectStretch(surrounding) == Tokened /\ Replace(StretchStart, StretchEnd, surrounding)
CorrectToken(surrounding) == Tokened /\ Replace(ActiveStart, ActiveEnd, surrounding)
CorrectPhrase(surrounding) == runes # <<>> /\ Replace(0, Len(runes), surrounding)

Next ==
  \/ \E r \in Runes : Push(r)
  \/ Backspace
  \/ HardReset
  \/ \E surrounding \in BOOLEAN :
       \/ CorrectStretch(surrounding)
       \/ CorrectToken(surrounding)
       \/ CorrectPhrase(surrounding)

Spec == Init /\ [][Next]_vars

-----------------------------------------------------------------------------
TypeOK ==
  /\ runes \in Seq(Runes)
  /\ field \in Seq(Runes)
  /\ curStart \in 0 .. Len(runes)
  /\ lastStart \in 0 .. Len(runes)
  /\ lastLen \in 0 .. Len(runes)

\* [i, j) is a token of the text s: a longest run of token-capable runes.
IsToken(s, i, j) ==
  /\ i < j
  /\ \A q \in i + 1 .. j : TokenCapable(s[q])
  /\ i > 0 => ~TokenCapable(s[i])
  /\ j < Len(s) => ~TokenCapable(s[j + 1])

\* The coordinates kept step by step are those of the text: curStart starts
\* the token at the end, the last finished token is the one before it with
\* nothing but boundary runes between, whatever pushes, pops and
\* replacements came before (buffer.go PushFeed against recompute).
Coordinates ==
  /\ \A q \in curStart + 1 .. Len(runes) : TokenCapable(runes[q])
  /\ curStart > 0 => ~TokenCapable(runes[curStart])
  /\ lastStart + lastLen =< curStart
  /\ \A q \in lastStart + lastLen + 1 .. curStart : ~TokenCapable(runes[q])
  /\ IF lastLen = 0 THEN lastStart = 0 ELSE IsToken(runes, lastStart, lastStart + lastLen)

\* The buffer mirrors the end of the text: a plan that counts its runes
\* deletes what the correction read and nothing else.
Mirror ==
  /\ Len(runes) =< Len(field)
  /\ Segment(field, Len(field) - Len(runes), Len(field)) = runes

\* The last token of the text, cell by cell: nothing but boundary runes after
\* it.  Its stretch: the cells that reach it over table positions.
InLastToken(q) ==
  /\ TokenCapable(runes[q])
  /\ ~\E h, g \in DOMAIN runes : q < h /\ h < g /\ ~TokenCapable(runes[h]) /\ TokenCapable(runes[g])
Between(g, q, w) == (q =< g /\ g =< w) \/ (w =< g /\ g =< q)
InStretch(q) ==
  \E w \in DOMAIN runes :
    /\ InLastToken(w)
    /\ \A g \in DOMAIN runes : Between(g, q, w) => TablePosition(runes[g]) \/ InLastToken(g)

\* One step that rewrites the stretch: it as one text converted, every letter
\* of it changed, every other cell of the buffer and of the text before it as
\* it was.
RewritesTheStretch ==
  /\ \E i, j \in 0 .. Len(runes) :
       /\ \A q \in DOMAIN runes : InStretch(q) <=> q \in i + 1 .. j
       /\ runes' = Spliced(runes, i, j, Convert(Segment(runes, i, j)))
  /\ \A q \in DOMAIN runes : InStretch(q) /\ runes[q] \in Letters => runes'[q] # runes[q]
  /\ Len(runes') = Len(runes) /\ Len(field') = Len(field)
  /\ \A q \in DOMAIN runes : ~InStretch(q) => runes'[q] = runes[q]
  /\ \A k \in 1 .. Len(field) - Len(runes) : field'[k] = field[k]

\* A word correction that executes rewrites the last word and all of it: the
\* token that coordinates kept through every push, pop and correction find and
\* the walks of stretch.go extend is the whole stretch of the last token of the
\* text, no cell less and no cell more.
WordAndItsStretch ==
  [][\A surrounding \in BOOLEAN : CorrectStretch(surrounding) => RewritesTheStretch]_vars

\* Correcting a text and correcting the result again.
Again(s) == IF Converts(s) THEN Convert(s) ELSE s
OneLayout(s) ==
  \/ ~Occur(s, Cyrillic) /\ \A i \in DOMAIN s : TablePosition(s[i]) => s[i] \in DOMAIN ENToRU
  \/ ~Occur(s, Latin) /\ \A i \in DOMAIN s : TablePosition(s[i]) => s[i] \in DOMAIN RUToEN
KeepsALetter(s) == \E i \in DOMAIN s : s[i] \in Letters /\ Again(s)[i] \in Letters

\* The toggle: a correction changes every letter, mixed texts included, and a
\* second one of a text typed in one layout brings it back, unless all its
\* letters sit on punctuation keys of the other layout.
Toggle ==
  /\ Converts(runes) => \A i \in DOMAIN runes : runes[i] \in Letters => Convert(runes)[i] # runes[i]
  /\ OneLayout(runes) /\ KeepsALetter(runes) => Again(Again(runes)) = runes

\* The buffer in good order after any sequence of pushes, pops and
\* corrections: types, coordinates of the text's tokens, runes of the field.
BufferInv == TypeOK /\ Coordinates /\ Mirror
=============================================================================
