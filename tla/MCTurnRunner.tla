----------------------------- MODULE MCTurnRunner -----------------------------
(***************************************************************************)
(* Instances of TurnRunner for TLC: the turns and the cancels of one        *)
(* session.                                                                 *)
(***************************************************************************)
EXTENDS TurnRunner

CONSTANTS k1, t1, t2, t3, c1

OneKey == [t \in Turns |-> k1]
OneCancelKey == [c \in Cancels |-> k1]
=============================================================================
