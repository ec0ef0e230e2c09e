--------------------------- MODULE BorrowedSources ---------------------------
(***************************************************************************)
(* What the installer promises about the desktop's list of input sources:  *)
(* the list is borrowed.  It is taken only while a copy of an owner's list *)
(* is kept, the copy is made once per borrowing, what comes back is the    *)
(* copy, and the copy is thrown away only after the list came back.  The   *)
(* promise holds as long as every stop of the daemon succeeded: a daemon   *)
(* that outlives its uninstallation may have the list healed later, with   *)
(* nothing kept.                                                           *)
(***************************************************************************)
EXTENDS Sequences

VARIABLES
  live,    \* the desktop's list
  mine,    \* the list the owner set last or was given back
  kept,    \* the copy, or << >>
  taken,   \* whether the list is goswitch's and not the owner's
  adrift   \* a daemon could not be stopped

bvars == <<live, mine, kept, taken, adrift>>

\* An installation by an earlier version may already be in force.
BInit == taken => kept # << >>

Keep == ~taken /\ kept = << >> /\ kept' # << >> /\ UNCHANGED <<live, mine, taken>>
Take == kept # << >> /\ taken' /\ UNCHANGED <<mine, kept>>
GiveBack == kept # << >> /\ live' = kept /\ mine' = kept /\ ~taken' /\ UNCHANGED kept
Forget == ~taken /\ kept' = << >> /\ UNCHANGED <<live, mine, taken>>
\* Or, with nothing kept, a reset the owner is left with.
OwnerEdits == live' = mine' /\ ~taken' /\ UNCHANGED kept

BNext == Keep \/ Take \/ GiveBack \/ Forget \/ OwnerEdits \/ adrift'
BorrowSpec == BInit /\ [][BNext]_bvars
=============================================================================
