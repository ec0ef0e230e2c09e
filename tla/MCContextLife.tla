---------------------------- MODULE MCContextLife ----------------------------
(* Instance of ContextLife for TLC: a visible application with two windows   *)
(* and one that only its bus peer names.                                     *)
EXTENDS ContextLife, TLC

WindowApps == ("t1" :> "term" @@ "t2" :> "term" @@ "b1" :> "blind")

WindowPeers == [w \in DOMAIN WindowApps |-> "peer"]

InputBounds == [mints |-> 1, moves |-> 3, flips |-> 2, resets |-> 1, rounds |-> 2]
==============================================================================
