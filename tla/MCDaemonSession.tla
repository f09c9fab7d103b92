---------------------------- MODULE MCDaemonSession ----------------------------
(***************************************************************************)
(* The two ways of an application to run turns, for TLC: over a             *)
(* DaemonSession of its own, and with the TurnRunner over pooled            *)
(* connections.  They share no state, so that every behaviour follows one   *)
(* of them while the other rests in its initial state.                      *)
(*                                                                         *)
(* The sidecar has in common with those who read and send only the calls    *)
(* that close it, so that a behaviour of the DaemonSession has an RPC call  *)
(* under way or has iterations and turns.  The runner has two turns of one  *)
(* session, the second through execute_reserved, and a cancel.              *)
(***************************************************************************)
EXTENDS DaemonSession

CONSTANTS
  MaxMoves,  \* bound on calls, turns, events and drops together
  k1, t1, t2, c1, NoHandle, NoSender

VARIABLES
  cancels, sendCancels, pc, flag, result, daemon, cpc, grabbed, takenAt, told,
  takes

Runner == INSTANCE TurnRunner WITH
  Keys <- {k1}, Turns <- {t1, t2}, Cancels <- {c1}, NoTurn <- NoSender,
  TurnKey <- [t \in {t1, t2} |-> k1], CancelKey <- [c \in {c1} |-> k1],
  ReservedTurns <- {t2}, Abandonable <- {}, Droppable <- {},
  OnTimeout <- "soft", OnStreamClose <- "fail"

runnerVars == <<cancels, sendCancels, pc, flag, result, daemon, cpc, grabbed,
                takenAt, told, takes>>

(* A behaviour with an event, an error or a cancellation has a move less.   *)
Bounded ==
  /\ calls + drops + events + sent <= IF events = 0 THEN MaxMoves
                                      ELSE MaxMoves - 1
  /\ rpc = "idle" \/ (iter = "none" /\ sent = 0)

MCInit == Init /\ Runner!Init

MCNext ==
  \/ Runner!Init /\ Next /\ Bounded' /\ UNCHANGED runnerVars
  \/ Init /\ Runner!Next /\ UNCHANGED vars

MCSpec ==
  /\ MCInit /\ [][MCNext]_<<vars, runnerVars>>
  /\ Fairness /\ Runner!Fairness

-----------------------------------------------------------------------------
(* The runner's turns return: see TurnRunner.                               *)
TurnsReturn == Runner!TurnsReturn

(* The runner's turns report to their session: see TurnRunner.              *)
SentTurnsAreReported == Runner!SentTurnsAreReported
=============================================================================
