----------------------------- MODULE MCTurnStream -----------------------------
EXTENDS TurnStream

(* A daemon that tags running frames, and may leave the tag off any other.  *)
AllButRunning == Kinds \ {"running"}
=============================================================================
