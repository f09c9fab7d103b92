------------------------------ MODULE QueryGate ------------------------------
(***************************************************************************)
(* The single-flight gate of src/src/appkit/query_gate.rs.                  *)
(*                                                                         *)
(* The gate keeps two maps from application keys: the local cancel callback *)
(* of the turn that reserved the key, and the daemon-cancel sender.  Every  *)
(* operation below is one critical section of the mutex around both maps,   *)
(* so each is a single step of the caller.  A callback is represented by    *)
(* what calling it does: a handle names the turn it belongs to and whether  *)
(* it is the callback of the application that made the reservation or the   *)
(* one that sets the runner's `cancelled` flag.  A daemon-cancel sender is  *)
(* represented by the turn that registered it.                              *)
(***************************************************************************)
CONSTANTS
  Keys,      \* application keys (session ids)
  Turns,     \* executions of one agent turn
  NoHandle,  \* absent entry of `cancels`
  NoTurn     \* absent entry of `send_cancels`

ASSUME AbsentAssumption == NoTurn \notin Turns

VARIABLES
  cancels,      \* key -> local cancel callback
  sendCancels   \* key -> daemon-cancel sender

gateVars == <<cancels, sendCancels>>

Handles == [turn : Turns, owner : {"caller", "runner"}]

ASSUME HandleAssumption == NoHandle \notin Handles

CallerHandle(t) == [turn |-> t, owner |-> "caller"]
RunnerHandle(t) == [turn |-> t, owner |-> "runner"]

GateTypeOK ==
  /\ cancels \in [Keys -> Handles \cup {NoHandle}]
  /\ sendCancels \in [Keys -> Turns \cup {NoTurn}]

GateInit ==
  /\ cancels = [k \in Keys |-> NoHandle]
  /\ sendCancels = [k \in Keys |-> NoTurn]

IsActive(k) == cancels[k] # NoHandle

(* Mutant of Acquire: the key is not looked up first.                       *)
AcquireUnchecked(k, h, sender) ==
  /\ cancels' = [cancels EXCEPT ![k] = h]
  /\ sendCancels' = IF sender = NoTurn THEN sendCancels
                    ELSE [sendCancels EXCEPT ![k] = sender]

(* A successful `acquire`; with no sender (NoTurn) an entry already in      *)
(* send_cancels stays.  ErrQueryBusy is the caller's IsActive(k) case.      *)
Acquire(k, h, sender) ==
  /\ ~IsActive(k)
  /\ cancels' = [cancels EXCEPT ![k] = h]
  /\ sendCancels' = IF sender = NoTurn THEN sendCancels
                    ELSE [sendCancels EXCEPT ![k] = sender]

(* Both entries leave the maps together: `release`, and the first critical  *)
(* section of `cancel`, which keeps what it removed.                        *)
RemoveBoth(k) ==
  /\ cancels' = [cancels EXCEPT ![k] = NoHandle]
  /\ sendCancels' = [sendCancels EXCEPT ![k] = NoTurn]

SetSendCancel(k, t) ==
  /\ sendCancels' = IF IsActive(k) THEN [sendCancels EXCEPT ![k] = t]
                    ELSE sendCancels
  /\ UNCHANGED cancels

ReplaceCancel(k, h) ==
  /\ cancels' = IF IsActive(k) THEN [cancels EXCEPT ![k] = h] ELSE cancels
  /\ UNCHANGED sendCancels

(* A sender never outlives the reservation it was registered under, so an   *)
(* `acquire` without a sender cannot inherit one from an earlier turn.      *)
SenderNeedsReservation ==
  \A k \in Keys : sendCancels[k] # NoTurn => IsActive(k)
=============================================================================
