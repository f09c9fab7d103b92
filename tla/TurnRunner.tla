------------------------------ MODULE TurnRunner ------------------------------
(***************************************************************************)
(* Turns against pooled connections, and the application's cancels, around  *)
(* one shared QueryGate: src/src/appkit/turn_runner.rs with the async half  *)
(* of QueryGate::cancel (src/src/appkit/query_gate.rs).                     *)
(*                                                                         *)
(* A turn is one call of `execute`, or of `execute_reserved` by a caller    *)
(* that reserved the gate first.  Its pc stands at the points where the     *)
(* future awaits or where another thread may run between two critical       *)
(* sections.  What the event stream delivers is abstracted to how the loop  *)
(* can end: the frames themselves are the subject of TurnBoundary.  The     *)
(* daemon is reduced to whether it runs a turn's input, and a daemon cancel *)
(* names a loop: it stops whatever runs there.  One loop per key: a pooled  *)
(* connection keeps its loop across the turns of a session.                 *)
(***************************************************************************)
EXTENDS QueryGate, Naturals, FiniteSets

CONSTANTS
  Cancels,       \* calls of QueryGate::cancel
  TurnKey,       \* the key of each turn
  CancelKey,     \* the key of each cancel
  ReservedTurns, \* turns started with execute_reserved
  Abandonable,   \* turns whose future the application may drop
  Droppable,     \* cancels whose future the application may drop
  OnTimeout,     \* on_query_timeout / on_idle_timeout: "fail" or "soft"
  OnStreamClose  \* on_stream_close: "fail" or "soft"

ASSUME RunnerAssumption ==
  /\ TurnKey \in [Turns -> Keys]
  /\ CancelKey \in [Cancels -> Keys]
  /\ ReservedTurns \subseteq Turns
  /\ Abandonable \subseteq Turns
  /\ Droppable \subseteq Cancels
  /\ OnTimeout \in {"fail", "soft"}
  /\ OnStreamClose \in {"fail", "soft"}

VARIABLES
  pc,        \* where each turn is
  flag,      \* the turn's `cancelled` flag
  result,    \* what the turn returned and told its session
  daemon,    \* what became of the turn's input at the daemon
  cpc,       \* where each cancel is
  grabbed,   \* the two callbacks a cancel took out of the gate
  takenAt,   \* whether a cancel took the turn's callback, in the loop or not
  told,      \* turns the daemon was asked to stop, after their input was sent
  takes      \* number of reservations that cancels took, per key

turnVars == <<pc, flag, result, daemon>>
cancelVars == <<cpc, grabbed>>
historyVars == <<takenAt, told, takes>>
vars == <<cancels, sendCancels, pc, flag, result, daemon,
          cpc, grabbed, takenAt, told, takes>>

LivePCs == {"reserved", "checked", "pool", "setSend", "drain", "send",
            "loop", "timedOut", "ended"}
PCs == LivePCs \cup {"start", "done", "abandoned"}

(* "rejected" never entered run_turn; "silent" returned an error that was   *)
(* broadcast to nobody; the others broadcast `complete` or `query_error`,   *)
(* "cancelled" being the failure the cancelled flag causes.                 *)
Results == {"none", "rejected", "silent", "completed", "failed", "cancelled"}
Reported == {"completed", "failed", "cancelled"}

(* A turn is in flight from its reservation to its release.                 *)
Live(t) == pc[t] \in LivePCs

TypeOK ==
  /\ GateTypeOK
  /\ pc \in [Turns -> PCs]
  /\ flag \in [Turns -> BOOLEAN]
  /\ result \in [Turns -> Results]
  /\ daemon \in [Turns -> {"none", "running", "finished", "stopped"}]
  /\ cpc \in [Cancels -> {"start", "daemon", "local", "done", "dropped"}]
  /\ grabbed \in [Cancels -> Handles \cup {NoHandle}]
  /\ takenAt \in [Turns -> {"never", "loop", "elsewhere"}]
  /\ told \in [Turns -> BOOLEAN]
  /\ takes \in [Keys -> Nat]

Init ==
  /\ GateInit
  /\ pc = [t \in Turns |-> "start"]
  /\ flag = [t \in Turns |-> FALSE]
  /\ result = [t \in Turns |-> "none"]
  /\ daemon = [t \in Turns |-> "none"]
  /\ cpc = [c \in Cancels |-> "start"]
  /\ grabbed = [c \in Cancels |-> NoHandle]
  /\ takenAt = [t \in Turns |-> "never"]
  /\ told = [t \in Turns |-> FALSE]
  /\ takes = [k \in Keys |-> 0]

-----------------------------------------------------------------------------
(* The steps of a turn.                                                     *)

Goto(t, from, to) ==
  /\ pc[t] = from
  /\ pc' = [pc EXCEPT ![t] = to]

(* Leave run_turn with a result; the post-turn drain and `release` remain.  *)
Leave(t, from, res) ==
  /\ Goto(t, from, "ended")
  /\ result' = [result EXCEPT ![t] = res]

(* Mutant of Refuse: the busy path frees the key as every other path does.  *)
RefuseReleasing(t, from) ==
  /\ Goto(t, from, "done")
  /\ result' = [result EXCEPT ![t] = "rejected"]
  /\ RemoveBoth(TurnKey[t])
  /\ UNCHANGED <<flag, daemon, cancelVars, historyVars>>

(* Return without touching the gate.                                        *)
Refuse(t, from) ==
  /\ Goto(t, from, "done")
  /\ result' = [result EXCEPT ![t] = "rejected"]
  /\ UNCHANGED <<gateVars, flag, daemon, cancelVars, historyVars>>

(* `command_cancel(loop)` as the daemon sees it: every input of that loop    *)
(* that still runs stops.  The request may also never reach the daemon.     *)
Stop(k) ==
  [t \in Turns |-> IF TurnKey[t] = k /\ daemon[t] = "running" THEN "stopped"
                   ELSE daemon[t]]

AskDaemonToStop(k) ==
  /\ \/ daemon' = Stop(k)
     \/ UNCHANGED daemon
  /\ told' = [t \in Turns |-> told[t] \/ (TurnKey[t] = k /\ daemon[t] # "none")]

Execute(t) ==
  /\ t \notin ReservedTurns
  /\ \/ /\ Goto(t, "start", "pool")
        /\ Acquire(TurnKey[t], RunnerHandle(t), NoTurn)
        /\ UNCHANGED <<flag, result, daemon, cancelVars, historyVars>>
     \/ /\ IsActive(TurnKey[t])
        /\ Refuse(t, "start")

(* The caller of execute_reserved takes the gate itself, with or without a  *)
(* daemon-cancel sender of its own.                                         *)
Reserve(t) ==
  /\ t \in ReservedTurns
  /\ \/ /\ Goto(t, "start", "reserved")
        /\ \E sender \in {NoTurn, t} :
             Acquire(TurnKey[t], CallerHandle(t), sender)
        /\ UNCHANGED <<flag, result, daemon, cancelVars, historyVars>>
     \/ /\ IsActive(TurnKey[t])
        /\ Refuse(t, "start")

CheckReserved(t) ==
  \/ /\ IsActive(TurnKey[t])
     /\ Goto(t, "reserved", "checked")
     /\ UNCHANGED <<gateVars, flag, result, daemon, cancelVars,
                    historyVars>>
  \/ /\ ~IsActive(TurnKey[t])
     /\ Refuse(t, "reserved")

ReplaceCallerCancel(t) ==
  /\ Goto(t, "checked", "pool")
  /\ ReplaceCancel(TurnKey[t], RunnerHandle(t))
  /\ UNCHANGED <<flag, result, daemon, cancelVars, historyVars>>

(* `pool.acquire(..).await?`: an error returns before anything is broadcast. *)
PoolAcquire(t) ==
  /\ \/ Goto(t, "pool", "setSend") /\ UNCHANGED result
     \/ Leave(t, "pool", "silent")
  /\ UNCHANGED <<gateVars, flag, daemon, cancelVars, historyVars>>

RegisterDaemonCancel(t) ==
  /\ Goto(t, "setSend", "drain")
  /\ SetSendCancel(TurnKey[t], t)
  /\ UNCHANGED <<flag, result, daemon, cancelVars, historyVars>>

(* Settle-drain of pooled leftovers; the event stream may be gone.           *)
SettleDrain(t) ==
  /\ \/ Goto(t, "drain", "send") /\ UNCHANGED result
     \/ Leave(t, "drain", "failed")
  /\ UNCHANGED <<gateVars, flag, daemon, cancelVars, historyVars>>

(* `loop_input`; the cancelled flag is not looked at before the send.       *)
SendInput(t) ==
  /\ \/ /\ Goto(t, "send", "loop")
        /\ daemon' = [daemon EXCEPT ![t] = "running"]
        /\ UNCHANGED result
     \/ /\ Leave(t, "send", "failed")
        /\ UNCHANGED daemon
  /\ UNCHANGED <<gateVars, flag, cancelVars, historyVars>>

ObserveCancelled(t) ==
  /\ flag[t]
  /\ Leave(t, "loop", "cancelled")
  /\ UNCHANGED <<gateVars, flag, daemon, cancelVars, historyVars>>

(* Mutant of ExpireDeadline: the deadline is looked at only after a frame.   *)
ExpireDeadlineOnFrame(t) ==
  /\ daemon[t] # "running"
  /\ Goto(t, "loop", "timedOut")
  /\ AskDaemonToStop(TurnKey[t])
  /\ UNCHANGED <<gateVars, flag, result, cancelVars, takenAt, takes>>

(* The query deadline or the idle clock expired: the daemon cancel is       *)
(* awaited first.  The flag may have been set since the loop looked at it.  *)
ExpireDeadline(t) ==
  /\ Goto(t, "loop", "timedOut")
  /\ AskDaemonToStop(TurnKey[t])
  /\ UNCHANGED <<gateVars, flag, result, cancelVars, takenAt, takes>>

(* Mutant of FinishTimeout: a soft completion is not broadcast.             *)
FinishTimeoutUnreported(t) ==
  /\ Goto(t, "timedOut", "ended")
  /\ UNCHANGED <<gateVars, flag, result, daemon, cancelVars, historyVars>>

FinishTimeout(t) ==
  /\ Leave(t, "timedOut", IF OnTimeout = "soft" THEN "completed" ELSE "failed")
  /\ UNCHANGED <<gateVars, flag, daemon, cancelVars, historyVars>>

(* A frame ends the turn: the daemon finished it or was told to stop it, or *)
(* the runner takes the answer as final while the daemon still runs.        *)
EndOnEvent(t) ==
  /\ \E res \in {"completed", "failed"} : Leave(t, "loop", res)
  /\ \/ /\ daemon[t] = "running"
        /\ daemon' = [daemon EXCEPT ![t] = "finished"]
     \/ UNCHANGED daemon
  /\ UNCHANGED <<gateVars, flag, cancelVars, historyVars>>

(* The stream closed; a soft close completes the turn when it collected     *)
(* some text.  What the daemon runs is not affected.                        *)
EndOnClose(t) ==
  /\ \E collected \in BOOLEAN :
       Leave(t, "loop", IF OnStreamClose = "soft" /\ collected THEN "completed"
                        ELSE "failed")
  /\ UNCHANGED <<gateVars, flag, daemon, cancelVars, historyVars>>

(* `event_rx` was taken from the connection (its slot was released).         *)
EndOnMissingStream(t) ==
  /\ Leave(t, "loop", "silent")
  /\ UNCHANGED <<gateVars, flag, daemon, cancelVars, historyVars>>

(* Mutant of ReleaseGate: an early `?` skips the release.                   *)
ReleaseGateUnlessSilent(t) ==
  /\ Goto(t, "ended", "done")
  /\ IF result[t] = "silent" THEN UNCHANGED gateVars
     ELSE RemoveBoth(TurnKey[t])
  /\ UNCHANGED <<flag, result, daemon, cancelVars, historyVars>>

(* `gate.release(session_id)`, whoever holds the key by then.                *)
ReleaseGate(t) ==
  /\ Goto(t, "ended", "done")
  /\ RemoveBoth(TurnKey[t])
  /\ UNCHANGED <<flag, result, daemon, cancelVars, historyVars>>

(* The application drops the future of `execute`: no release runs.          *)
Abandon(t) ==
  /\ t \in Abandonable
  /\ pc[t] \in LivePCs \ {"reserved", "checked"}
  /\ pc' = [pc EXCEPT ![t] = "abandoned"]
  /\ UNCHANGED <<gateVars, flag, result, daemon, cancelVars,
                 historyVars>>

-----------------------------------------------------------------------------
(* The steps of a cancel.                                                   *)

(* Mutant of CancelTake: the two removed callbacks change places.           *)
CancelTakeSwapped(c) ==
  LET k == CancelKey[c]
  IN /\ cpc[c] = "start"
     /\ RemoveBoth(k)
     /\ grabbed' = [grabbed EXCEPT ![c] = sendCancels[k]]
     /\ cpc' = [cpc EXCEPT ![c] = IF sendCancels[k] # NoTurn THEN "local"
                                  ELSE "done"]
     /\ UNCHANGED <<turnVars, historyVars>>

(* Mutant of CancelTake: the local callback comes before the daemon cancel. *)
CancelTakeLocalFirst(c) ==
  LET k == CancelKey[c]
      h == cancels[k]
  IN /\ cpc[c] = "start"
     /\ RemoveBoth(k)
     /\ grabbed' = [grabbed EXCEPT ![c] = h]
     /\ cpc' = [cpc EXCEPT ![c] = IF h # NoHandle THEN "local"
                                  ELSE IF sendCancels[k] # NoTurn THEN "daemon"
                                  ELSE "done"]
     /\ IF h = NoHandle THEN UNCHANGED <<takenAt, takes>>
        ELSE /\ takenAt' = [takenAt EXCEPT ![h.turn] =
                           IF pc[h.turn] = "loop" THEN "loop" ELSE "elsewhere"]
             /\ takes' = [takes EXCEPT ![k] = @ + 1]
     /\ UNCHANGED <<turnVars, told>>

CancelTake(c) ==
  LET k == CancelKey[c]
      h == cancels[k]
  IN /\ cpc[c] = "start"
     /\ RemoveBoth(k)
     /\ grabbed' = [grabbed EXCEPT ![c] = h]
     /\ cpc' = [cpc EXCEPT ![c] = IF sendCancels[k] # NoTurn THEN "daemon"
                                  ELSE IF h # NoHandle THEN "local"
                                  ELSE "done"]
     /\ IF h = NoHandle THEN UNCHANGED <<takenAt, takes>>
        ELSE /\ takenAt' = [takenAt EXCEPT ![h.turn] =
                           IF pc[h.turn] = "loop" THEN "loop" ELSE "elsewhere"]
             /\ takes' = [takes EXCEPT ![k] = @ + 1]
     /\ UNCHANGED <<turnVars, told>>

(* Await the daemon cancel, ten seconds at most, whatever it answers.       *)
CancelDaemon(c) ==
  /\ cpc[c] = "daemon"
  /\ cpc' = [cpc EXCEPT ![c] = IF grabbed[c] = NoHandle THEN "done" ELSE "local"]
  /\ AskDaemonToStop(CancelKey[c])
  /\ UNCHANGED <<gateVars, pc, flag, result, grabbed, takenAt, takes>>

(* The local callback: the runner's sets the flag of its turn, the          *)
(* application's is its own business.                                       *)
CancelLocal(c) ==
  LET h == grabbed[c]
  IN /\ cpc[c] = "local"
     /\ cpc' = [cpc EXCEPT ![c] = "done"]
     /\ flag' = IF h.owner = "runner" THEN [flag EXCEPT ![h.turn] = TRUE]
                ELSE flag
     /\ UNCHANGED <<gateVars, pc, result, daemon, grabbed,
                    historyVars>>

(* The application drops the future of `cancel` while it awaits the daemon, *)
(* before or after the request went out.                                    *)
DropCancel(c) ==
  /\ c \in Droppable
  /\ cpc[c] = "daemon"
  /\ cpc' = [cpc EXCEPT ![c] = "dropped"]
  /\ AskDaemonToStop(CancelKey[c]) \/ UNCHANGED <<daemon, told>>
  /\ UNCHANGED <<gateVars, pc, flag, result, grabbed, takenAt, takes>>

-----------------------------------------------------------------------------
(* Steps a turn takes on its own once its connection is acquired.           *)
OwnStep(t) ==
  \/ RegisterDaemonCancel(t)
  \/ SendInput(t)
  \/ ObserveCancelled(t)
  \/ ExpireDeadline(t)
  \/ FinishTimeout(t)
  \/ ReleaseGate(t)

(* Ends of the turn that wait for the event stream.                         *)
StreamStep(t) ==
  \/ EndOnEvent(t)
  \/ EndOnClose(t)
  \/ EndOnMissingStream(t)

TurnStep(t) ==
  \/ Execute(t)
  \/ Reserve(t)
  \/ CheckReserved(t)
  \/ ReplaceCallerCancel(t)
  \/ PoolAcquire(t)
  \/ SettleDrain(t)
  \/ OwnStep(t)
  \/ StreamStep(t)
  \/ Abandon(t)

CancelStep(c) ==
  \/ CancelTake(c)
  \/ CancelDaemon(c)
  \/ CancelLocal(c)
  \/ DropCancel(c)

(* Every call has returned: the only state where nothing is left to do.     *)
AllReturned ==
  /\ \A t \in Turns : pc[t] \in {"done", "abandoned"}
  /\ \A c \in Cancels : cpc[c] \in {"done", "dropped"}
  /\ UNCHANGED vars

Next ==
  \/ \E t \in Turns : TurnStep(t)
  \/ \E c \in Cancels : CancelStep(c)
  \/ AllReturned

Spec == Init /\ [][Next]_vars

OnKey(k) == {t \in Turns : TurnKey[t] = k}

(* Another turn of the session holds the lock of the event stream while it  *)
(* drains; each of the loop's own reads holds it for half a second at most. *)
StreamHeld(t) == \E u \in OnKey(TurnKey[t]) \ {t} : pc[u] = "drain"

(* The runtime polls every ready task, the write channel is unbounded, and  *)
(* each other await of an OwnStep carries a timeout, the query deadline     *)
(* among them.  Dialling in pool.acquire has none; the settle-drain starts  *)
(* its 5 ms anew with every frame it discards; the stream may stay silent   *)
(* for ever; and nobody is obliged to start a turn or a cancel.             *)
Fairness == \A t \in Turns : WF_vars(~StreamHeld(t) /\ OwnStep(t))

-----------------------------------------------------------------------------
(* Properties.                                                              *)

(* No key stays reserved, and no sender registered, for a turn that has     *)
(* returned: every return path of execute and execute_reserved frees the    *)
(* key, also when an older turn's release or a cancel freed it before, so   *)
(* only a dropped future can leave a session busy.                          *)
ReservationHasOwner ==
  \A k \in Keys :
    /\ IsActive(k) =>
         /\ TurnKey[cancels[k].turn] = k
         /\ pc[cancels[k].turn] \in LivePCs \cup {"abandoned"}
    /\ sendCancels[k] # NoTurn =>
         /\ TurnKey[sendCancels[k]] = k
         /\ pc[sendCancels[k]] \in LivePCs \cup {"abandoned"}

(* As long as no cancel has taken a reservation of the key, at most one     *)
(* turn is in flight on it, however many callers race, on whichever path    *)
(* each of them returns, and including reservations made by the caller.     *)
SingleFlightUntilCancel ==
  \A k \in Keys :
    takes[k] = 0 => \A t, u \in OnKey(k) : Live(t) /\ Live(u) => t = u

(* Each cancel that takes a reservation can leave one turn running without  *)
(* it; the release of such a turn may free a later turn's reservation in    *)
(* its place, but the number of turns in flight outside the gate never      *)
(* exceeds the number of cancels.                                           *)
OverlapBoundedByCancels ==
  \A k \in Keys :
    Cardinality({t \in OnKey(k) : Live(t) /\ cancels[k] # RunnerHandle(t)
                                          /\ cancels[k] # CallerHandle(t)})
      <= takes[k]

(* Cancel-before-context: a cancel that takes the callback of a turn whose  *)
(* input is at the daemon has asked the daemon to stop it before the        *)
(* turn's flag is set.                                                      *)
DaemonBeforeFlag ==
  \A t \in Turns : flag[t] /\ takenAt[t] = "loop" => told[t]

(* Until a cancel is taken, the daemon run of a turn in flight is stopped   *)
(* by nobody but the turn itself, on its own deadline: a daemon cancel      *)
(* names the loop, so an overlapping turn could kill it.                    *)
StopsOnlyItself ==
  [][\A t \in Turns :
       /\ Live(t)
       /\ takes[TurnKey[t]] = 0
       /\ daemon[t] = "running"
       /\ daemon'[t] = "stopped"
       => pc'[t] = "timedOut"]_vars

(* A turn past its settle-drain returns, whatever the daemon, the stream    *)
(* and the cancels do, unless another turn of its session never stops       *)
(* draining the stream they share.                                          *)
TurnsReturn ==
  \A t \in Turns :
    pc[t] \in {"send", "loop", "timedOut", "ended"}
      ~> pc[t] = "done" \/ StreamHeld(t)

(* A turn whose input reached the daemon reports completion or failure to   *)
(* its session, unless its stream was taken away under it or is held by     *)
(* another turn.                                                            *)
SentTurnsAreReported ==
  \A t \in Turns :
    daemon[t] # "none"
      ~> result[t] \in Reported \cup {"silent"} \/ StreamHeld(t)

(* Inductive strengthenings, used by the proofs in TurnRunnerProofs.        *)

(* Until a cancel is taken, a turn in flight is the one the gate names.     *)
UncancelledTurnHoldsKey ==
  \A k \in Keys :
    takes[k] = 0 =>
      \A t \in OnKey(k) :
        Live(t) => cancels[k] = CallerHandle(t) \/ cancels[k] = RunnerHandle(t)

(* A cancel under way has taken a callback of its own key.                  *)
CancelHoldsCallback ==
  \A c \in Cancels :
    cpc[c] \in {"daemon", "local"} =>
      /\ grabbed[c] # NoHandle
      /\ TurnKey[grabbed[c].turn] = CancelKey[c]
      /\ takes[CancelKey[c]] > 0

(* The caller's callback is in the gate only before the runner's; the       *)
(* runner's enters once, and is in one place: not yet created, in the gate, *)
(* or with the one cancel that took it.                                     *)
CallbackInOnePlace ==
  \A t \in Turns :
    /\ cancels[TurnKey[t]] = CallerHandle(t) => pc[t] \in {"reserved", "checked"}
    /\ pc[t] \in {"start", "reserved", "checked"} =>
         cancels[TurnKey[t]] # RunnerHandle(t)
    /\ \/ pc[t] \in {"start", "reserved", "checked"}
       \/ cancels[TurnKey[t]] = RunnerHandle(t)
       => ~flag[t] /\ \A c \in Cancels : grabbed[c] # RunnerHandle(t)

(* A turn in its loop has its input at the daemon, and if the gate still    *)
(* names it, a daemon-cancel sender next to it.                             *)
LoopIsCancellable ==
  \A t \in Turns :
    /\ pc[t] = "loop" => daemon[t] # "none"
    /\ /\ pc[t] \in {"drain", "send", "loop"}
       /\ cancels[TurnKey[t]] = RunnerHandle(t)
       => sendCancels[TurnKey[t]] # NoTurn

(* A turn taken in its loop has been told to stop before its callback runs. *)
ToldBeforeCallback ==
  \A t \in Turns :
    takenAt[t] = "loop" =>
      /\ daemon[t] # "none"
      /\ \A c \in Cancels :
           cpc[c] = "local" /\ grabbed[c] = RunnerHandle(t) => told[t]

(* What the documentation of the gate says, and the code does not do: at    *)
(* most one turn per key is in flight, cancels or not.                      *)
SingleFlight ==
  \A k \in Keys : \A t, u \in OnKey(k) : Live(t) /\ Live(u) => t = u

=============================================================================
