--------------------------- MODULE MCConnectionPool ---------------------------
(***************************************************************************)
(* Instances of ConnectionPool for TLC.                                     *)
(***************************************************************************)
EXTENDS ConnectionPool, TLC

CONSTANTS a, b, c, d, s1, s2

(* Calls are interchangeable, and so are sessions.                          *)
CallSymmetry == Permutations(Calls) \cup Permutations(Sessions)
=============================================================================
