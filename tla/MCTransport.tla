------------------------------ MODULE MCTransport ------------------------------
(* Transport on small instances.  Requests and forwarders share no state    *)
(* but what the calls and readers do to both, so a behaviour has the one or *)
(* the other.                                                               *)
EXTENDS Transport, TLC

CONSTANTS c1, c2, r1, r2, a1

Callers == Permutations(Calls)

Apart ==
  \/ \A r \in Requests : req[r] = "idle"
  \/ \A k \in Apps : eye[k] = "shut"

MCSpec == Init /\ [][Next /\ Apart']_vars
=============================================================================
