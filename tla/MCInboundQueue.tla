---------------------------- MODULE MCInboundQueue ----------------------------
(***************************************************************************)
(* The two things a Client makes of the frames that come in: events in the  *)
(* queue (InboundQueue), and a verdict on the daemon (Heartbeat).  They     *)
(* share no state, so that every behaviour follows one of them while the    *)
(* other rests in its initial state.                                        *)
(***************************************************************************)
EXTENDS InboundQueue

CONSTANTS Intervals, Thresholds, Timeouts, Delay, MaxConnections, Horizon

VARIABLES
  link, interval, pingers, tracking, threshold, age, silent, waiting, well,
  due, healthy, quiet, made

Beat == INSTANCE Heartbeat

(* Every wait_for_alive of the model ends within its horizon.               *)
ASSUME BeatAssumption ==
  /\ Intervals \subseteq Nat /\ 0 \in Intervals
  /\ Thresholds \subseteq Nat /\ Beat!DefaultThreshold \in Thresholds
  /\ Horizon \in Nat /\ Beat!DefaultTimeout <= Horizon
  /\ Timeouts \subseteq 0..Horizon
  /\ Delay \in Nat
  /\ MaxConnections \in Nat

beatVars == <<link, interval, pingers, tracking, threshold, age, silent,
              waiting, well, due, healthy, quiet, made>>

(* Callbacks and reconnects race each other where there is no request.      *)
Apart == rearms > 1 => \A r \in Rpcs : rpc[r] = "idle"

MCInit == Init /\ Beat!Init

MCNext ==
  \/ Beat!Init /\ Next /\ Apart' /\ UNCHANGED beatVars
  \/ Init /\ Beat!Next /\ UNCHANGED vars

MCSpec == MCInit /\ [][MCNext]_<<vars, beatVars>>

-----------------------------------------------------------------------------
(* The types of InboundQueue and of Heartbeat.                              *)
MCTypeOK == TypeOK /\ Beat!TypeOK

(* A daemon that is well is not reported dead: see Heartbeat.               *)
NoFalseAlarm == Beat!NoFalseAlarm

(* A daemon that has fallen silent is reported dead: see Heartbeat.         *)
SilenceIsNoticed == Beat!SilenceIsNoticed
=============================================================================
