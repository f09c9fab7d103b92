-------------------------- MODULE TurnRunnerProofs --------------------------
(***************************************************************************)
(* Theorems about TurnRunner for every set of keys, turns and cancels.      *)
(***************************************************************************)
EXTENDS TurnRunner, FiniteSetTheorems, TLAPS

(* The steps of the system, one disjunct per action.                        *)
ActionOf(t) ==
  \/ Execute(t) \/ Reserve(t) \/ CheckReserved(t) \/ ReplaceCallerCancel(t)
  \/ PoolAcquire(t) \/ RegisterDaemonCancel(t) \/ SettleDrain(t)
  \/ SendInput(t) \/ ObserveCancelled(t) \/ ExpireDeadline(t)
  \/ FinishTimeout(t) \/ EndOnEvent(t) \/ EndOnClose(t)
  \/ EndOnMissingStream(t) \/ ReleaseGate(t) \/ Abandon(t)

CancelActionOf(c) ==
  CancelTake(c) \/ CancelDaemon(c) \/ CancelLocal(c) \/ DropCancel(c)

(* Every step is one of the actions, or changes nothing.                    *)
LEMMA StepCases ==
  [Next]_vars =>
    \/ \E t \in Turns : ActionOf(t)
    \/ \E c \in Cancels : CancelActionOf(c)
    \/ UNCHANGED vars
BY DEF Next, TurnStep, OwnStep, StreamStep, CancelStep, AllReturned, ActionOf,
       CancelActionOf

-----------------------------------------------------------------------------
(* Type correctness.                                                        *)

LEMMA InitType == Init => TypeOK
BY AbsentAssumption, HandleAssumption, RunnerAssumption
   DEF Init, GateInit, TypeOK, GateTypeOK, PCs, LivePCs, Results

(* A handle taken from the gate is a handle or absent.                      *)
LEMMA HandlesType ==
  ASSUME NEW t \in Turns
  PROVE  CallerHandle(t) \in Handles /\ RunnerHandle(t) \in Handles
BY DEF CallerHandle, RunnerHandle, Handles

(* A daemon cancel leaves the two functions it changes well typed.          *)
LEMMA AskType ==
  ASSUME TypeOK, NEW k, AskDaemonToStop(k)
  PROVE  /\ daemon' \in [Turns -> {"none", "running", "finished", "stopped"}]
         /\ told' \in [Turns -> BOOLEAN]
BY DEF TypeOK, AskDaemonToStop, Stop

(* A handle names its turn.                                                 *)
LEMMA HandleTurn ==
  ASSUME NEW t
  PROVE  CallerHandle(t).turn = t /\ RunnerHandle(t).turn = t
BY DEF CallerHandle, RunnerHandle

LEMMA TurnStepType ==
  ASSUME TypeOK, NEW t \in Turns, ActionOf(t)
  PROVE  TypeOK'
<1> USE RunnerAssumption, HandlesType
    DEF TypeOK, GateTypeOK, PCs, LivePCs, Results, Goto, cancelVars,
        historyVars, gateVars
<1>1. CASE Execute(t)
  BY <1>1 DEF Execute, Acquire, Refuse
<1>2. CASE Reserve(t)
  BY <1>2 DEF Reserve, Acquire, Refuse
<1>3. CASE CheckReserved(t)
  BY <1>3 DEF CheckReserved, Refuse
<1>4. CASE ReplaceCallerCancel(t)
  BY <1>4 DEF ReplaceCallerCancel, ReplaceCancel
<1>5. CASE PoolAcquire(t)
  BY <1>5 DEF PoolAcquire, Leave
<1>6. CASE RegisterDaemonCancel(t)
  BY <1>6 DEF RegisterDaemonCancel, SetSendCancel
<1>7. CASE SettleDrain(t)
  BY <1>7 DEF SettleDrain, Leave
<1>8. CASE SendInput(t)
  BY <1>8 DEF SendInput, Leave
<1>9. CASE ObserveCancelled(t)
  BY <1>9 DEF ObserveCancelled, Leave
<1>10. CASE ExpireDeadline(t)
  BY <1>10, AskType DEF ExpireDeadline
<1>11. CASE FinishTimeout(t)
  BY <1>11 DEF FinishTimeout, Leave
<1>12. CASE EndOnEvent(t)
  BY <1>12 DEF EndOnEvent, Leave
<1>13. CASE EndOnClose(t)
  BY <1>13 DEF EndOnClose, Leave
<1>14. CASE EndOnMissingStream(t)
  BY <1>14 DEF EndOnMissingStream, Leave
<1>15. CASE ReleaseGate(t)
  BY <1>15 DEF ReleaseGate, RemoveBoth
<1>16. CASE Abandon(t)
  BY <1>16 DEF Abandon
<1> QED
  BY <1>1, <1>2, <1>3, <1>4, <1>5, <1>6, <1>7, <1>8, <1>9, <1>10, <1>11,
     <1>12, <1>13, <1>14, <1>15, <1>16 DEF ActionOf

LEMMA CancelStepType ==
  ASSUME TypeOK, NEW c \in Cancels, CancelActionOf(c)
  PROVE  TypeOK'
<1> USE RunnerAssumption
    DEF TypeOK, GateTypeOK, turnVars, historyVars, gateVars
<1>1. CASE CancelTake(c)
  BY <1>1, HandleAssumption DEF CancelTake, RemoveBoth, Handles
<1>2. CASE CancelDaemon(c)
  BY <1>2, AskType DEF CancelDaemon
<1>3. CASE CancelLocal(c)
  BY <1>3 DEF CancelLocal
<1>4. CASE DropCancel(c)
  <2>1. /\ daemon' \in [Turns -> {"none", "running", "finished", "stopped"}]
        /\ told' \in [Turns -> BOOLEAN]
    BY <1>4, AskType DEF DropCancel
  <2> QED
    BY <1>4, <2>1 DEF DropCancel
<1> QED
  BY <1>1, <1>2, <1>3, <1>4 DEF CancelActionOf

(* Type correctness of the runner, the gate and the cancels.                *)
THEOREM TypeCorrect == Spec => []TypeOK
<1>1. TypeOK /\ [Next]_vars => TypeOK'
  <2> SUFFICES ASSUME TypeOK, [Next]_vars PROVE TypeOK'
    OBVIOUS
  <2>1. CASE UNCHANGED vars
    BY <2>1 DEF vars, TypeOK, GateTypeOK
  <2> QED
    BY <2>1, StepCases, TurnStepType, CancelStepType
<1> QED
  BY <1>1, InitType, PTL DEF Spec
-----------------------------------------------------------------------------
(* The gate's two maps: who holds a key, and for how long.                  *)

GateInv == SenderNeedsReservation /\ ReservationHasOwner

(* The maps name turns of the key that have not returned.                   *)
LEMMA GateTurnStep ==
  ASSUME TypeOK, GateInv, NEW t \in Turns, ActionOf(t)
  PROVE  GateInv'
<1> USE RunnerAssumption, HandleAssumption, AbsentAssumption
    DEF TypeOK, GateTypeOK, GateInv, SenderNeedsReservation, ReservationHasOwner,
        IsActive, Handles, CallerHandle, RunnerHandle, LivePCs, Goto,
        cancelVars, historyVars, gateVars
<1>1. CASE Execute(t)
  <2>1. CASE IsActive(TurnKey[t])
    BY <1>1, <2>1 DEF Execute, Acquire, Refuse
  <2>2. CASE ~IsActive(TurnKey[t])
    BY <1>1, <2>2, HandleTurn, HandlesType DEF Execute, Acquire
  <2> QED
    BY <2>1, <2>2
<1>2. CASE Reserve(t)
  BY <1>2 DEF Reserve, Acquire, Refuse
<1>3. CASE CheckReserved(t)
  BY <1>3 DEF CheckReserved, Refuse
<1>4. CASE ReplaceCallerCancel(t)
  BY <1>4 DEF ReplaceCallerCancel, ReplaceCancel
<1>5. CASE PoolAcquire(t)
  BY <1>5 DEF PoolAcquire, Leave
<1>6. CASE RegisterDaemonCancel(t)
  BY <1>6 DEF RegisterDaemonCancel, SetSendCancel
<1>7. CASE SettleDrain(t)
  BY <1>7 DEF SettleDrain, Leave
<1>8. CASE SendInput(t)
  BY <1>8 DEF SendInput, Leave
<1>9. CASE ObserveCancelled(t)
  BY <1>9 DEF ObserveCancelled, Leave
<1>10. CASE ExpireDeadline(t)
  BY <1>10 DEF ExpireDeadline, AskDaemonToStop
<1>11. CASE FinishTimeout(t)
  BY <1>11 DEF FinishTimeout, Leave
<1>12. CASE EndOnEvent(t)
  BY <1>12 DEF EndOnEvent, Leave
<1>13. CASE EndOnClose(t)
  BY <1>13 DEF EndOnClose, Leave
<1>14. CASE EndOnMissingStream(t)
  BY <1>14 DEF EndOnMissingStream, Leave
<1>15. CASE ReleaseGate(t)
  BY <1>15 DEF ReleaseGate, RemoveBoth
<1>16. CASE Abandon(t)
  BY <1>16 DEF Abandon
<1> QED
  BY <1>1, <1>2, <1>3, <1>4, <1>5, <1>6, <1>7, <1>8, <1>9, <1>10,
     <1>11, <1>12, <1>13, <1>14, <1>15, <1>16 DEF ActionOf

LEMMA GateCancelStep ==
  ASSUME TypeOK, GateInv, NEW c \in Cancels, CancelActionOf(c)
  PROVE  GateInv'
<1> USE RunnerAssumption, HandleAssumption, AbsentAssumption
    DEF TypeOK, GateTypeOK, GateInv, SenderNeedsReservation, ReservationHasOwner,
        IsActive, Handles, turnVars, historyVars, gateVars
<1>1. CASE CancelTake(c)
  BY <1>1 DEF CancelTake, RemoveBoth
<1>2. CASE CancelDaemon(c)
  BY <1>2 DEF CancelDaemon, AskDaemonToStop
<1>3. CASE CancelLocal(c)
  BY <1>3 DEF CancelLocal
<1>4. CASE DropCancel(c)
  BY <1>4 DEF DropCancel, AskDaemonToStop
<1> QED
  BY <1>1, <1>2, <1>3, <1>4 DEF CancelActionOf

(* No sender without a reservation, and no reservation without a turn that  *)
(* is in flight or was abandoned.                                           *)
THEOREM GateCorrect == Spec => [](SenderNeedsReservation /\ ReservationHasOwner)
<1>1. Init => GateInv
  BY RunnerAssumption DEF Init, GateInit, GateInv, SenderNeedsReservation,
     ReservationHasOwner, IsActive
<1>2. TypeOK /\ GateInv /\ [Next]_vars => GateInv'
  <2> SUFFICES ASSUME TypeOK, GateInv, [Next]_vars PROVE GateInv'
    OBVIOUS
  <2>1. CASE UNCHANGED vars
    BY <2>1 DEF vars, GateInv, SenderNeedsReservation, ReservationHasOwner,
       IsActive
  <2> QED
    BY <2>1, StepCases, GateTurnStep, GateCancelStep
<1>3. GateInv => SenderNeedsReservation /\ ReservationHasOwner
  BY DEF GateInv
<1> QED
  BY <1>1, <1>2, <1>3, TypeCorrect, PTL DEF Spec

-----------------------------------------------------------------------------
(* Single flight.                                                           *)

(* The gate keeps naming the one uncancelled turn in flight.                *)
LEMMA FlightTurnStep ==
  ASSUME TypeOK, UncancelledTurnHoldsKey, NEW t \in Turns, ActionOf(t)
  PROVE  UncancelledTurnHoldsKey'
<1> USE RunnerAssumption, HandleAssumption, AbsentAssumption
    DEF TypeOK, GateTypeOK, UncancelledTurnHoldsKey, OnKey, Live, IsActive,
        Handles, CallerHandle, RunnerHandle, LivePCs, Goto,
        cancelVars, historyVars, gateVars
<1>1. CASE Execute(t)
  BY <1>1 DEF Execute, Acquire, Refuse
<1>2. CASE Reserve(t)
  BY <1>2 DEF Reserve, Acquire, Refuse
<1>3. CASE CheckReserved(t)
  BY <1>3 DEF CheckReserved, Refuse
<1>4. CASE ReplaceCallerCancel(t)
  BY <1>4 DEF ReplaceCallerCancel, ReplaceCancel
<1>5. CASE PoolAcquire(t)
  BY <1>5 DEF PoolAcquire, Leave
<1>6. CASE RegisterDaemonCancel(t)
  BY <1>6 DEF RegisterDaemonCancel, SetSendCancel
<1>7. CASE SettleDrain(t)
  BY <1>7 DEF SettleDrain, Leave
<1>8. CASE SendInput(t)
  BY <1>8 DEF SendInput, Leave
<1>9. CASE ObserveCancelled(t)
  BY <1>9 DEF ObserveCancelled, Leave
<1>10. CASE ExpireDeadline(t)
  BY <1>10 DEF ExpireDeadline, AskDaemonToStop
<1>11. CASE FinishTimeout(t)
  BY <1>11 DEF FinishTimeout, Leave
<1>12. CASE EndOnEvent(t)
  BY <1>12 DEF EndOnEvent, Leave
<1>13. CASE EndOnClose(t)
  BY <1>13 DEF EndOnClose, Leave
<1>14. CASE EndOnMissingStream(t)
  BY <1>14 DEF EndOnMissingStream, Leave
<1>15. CASE ReleaseGate(t)
  BY <1>15 DEF ReleaseGate, RemoveBoth
<1>16. CASE Abandon(t)
  BY <1>16 DEF Abandon
<1> QED
  BY <1>1, <1>2, <1>3, <1>4, <1>5, <1>6, <1>7, <1>8, <1>9, <1>10,
     <1>11, <1>12, <1>13, <1>14, <1>15, <1>16 DEF ActionOf

LEMMA FlightCancelStep ==
  ASSUME TypeOK, UncancelledTurnHoldsKey, NEW c \in Cancels, CancelActionOf(c)
  PROVE  UncancelledTurnHoldsKey'
<1> USE RunnerAssumption, HandleAssumption, AbsentAssumption
    DEF TypeOK, GateTypeOK, UncancelledTurnHoldsKey, OnKey, Live,
        Handles, CallerHandle, RunnerHandle, turnVars, historyVars, gateVars
<1>1. CASE CancelTake(c)
  BY <1>1 DEF CancelTake, RemoveBoth
<1>2. CASE CancelDaemon(c)
  BY <1>2 DEF CancelDaemon, AskDaemonToStop
<1>3. CASE CancelLocal(c)
  BY <1>3 DEF CancelLocal
<1>4. CASE DropCancel(c)
  BY <1>4 DEF DropCancel, AskDaemonToStop
<1> QED
  BY <1>1, <1>2, <1>3, <1>4 DEF CancelActionOf

(* At most one turn in flight per key until a cancel takes a reservation.   *)
THEOREM SingleFlightHolds == Spec => []SingleFlightUntilCancel
<1>1. Init => UncancelledTurnHoldsKey
  BY DEF Init, UncancelledTurnHoldsKey, OnKey, Live, LivePCs
<1>2. TypeOK /\ UncancelledTurnHoldsKey /\ [Next]_vars
        => UncancelledTurnHoldsKey'
  <2> SUFFICES ASSUME TypeOK, UncancelledTurnHoldsKey, [Next]_vars
               PROVE  UncancelledTurnHoldsKey'
    OBVIOUS
  <2>1. CASE UNCHANGED vars
    BY <2>1 DEF vars, UncancelledTurnHoldsKey, OnKey, Live
  <2> QED
    BY <2>1, StepCases, FlightTurnStep, FlightCancelStep
<1>3. UncancelledTurnHoldsKey => SingleFlightUntilCancel
  <2> SUFFICES ASSUME UncancelledTurnHoldsKey,
                      NEW k \in Keys, takes[k] = 0,
                      NEW t \in OnKey(k), NEW u \in OnKey(k),
                      Live(t), Live(u)
               PROVE  t = u
    BY DEF SingleFlightUntilCancel
  <2>1. cancels[k].turn = t /\ cancels[k].turn = u
    BY HandleTurn DEF UncancelledTurnHoldsKey
  <2> QED
    BY <2>1
<1> QED
  BY <1>1, <1>2, <1>3, TypeCorrect, PTL DEF Spec
-----------------------------------------------------------------------------
(* Cancel-before-context, and who stops a daemon run.                       *)

(* What a step of a turn leaves alone, and what only grows.                 *)
LEMMA TurnFrame ==
  ASSUME TypeOK, NEW t \in Turns, ActionOf(t)
  PROVE  /\ UNCHANGED <<flag, cpc, grabbed, takenAt, takes>>
         /\ \A u \in Turns \ {t} : pc'[u] = pc[u]
         /\ pc'[t] = "loop" => daemon'[t] # "none"
         /\ \A u \in Turns : /\ told[u] => told'[u]
                             /\ daemon[u] # "none" => daemon'[u] # "none"
<1> USE DEF TypeOK, PCs, LivePCs, Goto, cancelVars, historyVars
<1>1. CASE Execute(t)
  BY <1>1 DEF Execute, Acquire, Refuse
<1>2. CASE Reserve(t)
  BY <1>2 DEF Reserve, Acquire, Refuse
<1>3. CASE CheckReserved(t)
  BY <1>3 DEF CheckReserved, Refuse
<1>4. CASE ReplaceCallerCancel(t)
  BY <1>4 DEF ReplaceCallerCancel, ReplaceCancel
<1>5. CASE PoolAcquire(t)
  BY <1>5 DEF PoolAcquire, Leave
<1>6. CASE RegisterDaemonCancel(t)
  BY <1>6 DEF RegisterDaemonCancel, SetSendCancel
<1>7. CASE SettleDrain(t)
  BY <1>7 DEF SettleDrain, Leave
<1>8. CASE SendInput(t)
  BY <1>8 DEF SendInput, Leave
<1>9. CASE ObserveCancelled(t)
  BY <1>9 DEF ObserveCancelled, Leave
<1>10. CASE ExpireDeadline(t)
  BY <1>10 DEF ExpireDeadline, AskDaemonToStop, Stop
<1>11. CASE FinishTimeout(t)
  BY <1>11 DEF FinishTimeout, Leave
<1>12. CASE EndOnEvent(t)
  BY <1>12 DEF EndOnEvent, Leave
<1>13. CASE EndOnClose(t)
  BY <1>13 DEF EndOnClose, Leave
<1>14. CASE EndOnMissingStream(t)
  BY <1>14 DEF EndOnMissingStream, Leave
<1>15. CASE ReleaseGate(t)
  BY <1>15 DEF ReleaseGate, RemoveBoth
<1>16. CASE Abandon(t)
  BY <1>16 DEF Abandon
<1> QED
  BY <1>1, <1>2, <1>3, <1>4, <1>5, <1>6, <1>7, <1>8, <1>9, <1>10,
     <1>11, <1>12, <1>13, <1>14, <1>15, <1>16 DEF ActionOf

(* A step of a turn puts no callback of another turn into the gate, and     *)
(* takes no sender away from one that stays.                                *)
LEMMA TurnGateFrame ==
  ASSUME TypeOK, NEW t \in Turns, ActionOf(t), NEW u \in Turns \ {t},
         \/ cancels'[TurnKey[u]] = CallerHandle(u)
         \/ cancels'[TurnKey[u]] = RunnerHandle(u)
  PROVE  /\ cancels'[TurnKey[u]] = cancels[TurnKey[u]]
         /\ sendCancels[TurnKey[u]] # NoTurn => sendCancels'[TurnKey[u]] # NoTurn
<1>0. TurnKey[u] \in Keys /\ TurnKey[t] \in Keys
  BY RunnerAssumption
<1>1. /\ cancels'[TurnKey[u]] # NoHandle
      /\ cancels'[TurnKey[u]] # CallerHandle(t)
      /\ cancels'[TurnKey[u]] # RunnerHandle(t)
  BY HandleTurn, HandlesType, HandleAssumption
<1> USE <1>0, <1>1, AbsentAssumption DEF TypeOK, GateTypeOK, gateVars
<1>2. CASE UNCHANGED gateVars
  BY <1>2
<1>3. CASE \E h \in {CallerHandle(t), RunnerHandle(t)}, x \in {NoTurn, t} :
             Acquire(TurnKey[t], h, x)
  BY <1>3 DEF Acquire
<1>4. CASE ReplaceCancel(TurnKey[t], RunnerHandle(t))
  BY <1>4 DEF ReplaceCancel
<1>5. CASE SetSendCancel(TurnKey[t], t)
  BY <1>5 DEF SetSendCancel
<1>6. CASE RemoveBoth(TurnKey[t])
  BY <1>6 DEF RemoveBoth
<1>7. \/ UNCHANGED gateVars
      \/ \E h \in {CallerHandle(t), RunnerHandle(t)}, x \in {NoTurn, t} :
           Acquire(TurnKey[t], h, x)
      \/ ReplaceCancel(TurnKey[t], RunnerHandle(t))
      \/ SetSendCancel(TurnKey[t], t)
      \/ RemoveBoth(TurnKey[t])
  BY DEF ActionOf, Execute, Reserve, CheckReserved, ReplaceCallerCancel,
     PoolAcquire, RegisterDaemonCancel, SettleDrain, SendInput,
     ObserveCancelled, ExpireDeadline, FinishTimeout, EndOnEvent, EndOnClose,
     EndOnMissingStream, ReleaseGate, Abandon, Refuse
<1> QED
  BY <1>2, <1>3, <1>4, <1>5, <1>6, <1>7

(* What a step of a cancel leaves alone, and what only grows.               *)
LEMMA CancelFrame ==
  ASSUME TypeOK, NEW c \in Cancels, CancelActionOf(c)
  PROVE  /\ UNCHANGED pc
         /\ \A d \in Cancels \ {c} : cpc'[d] = cpc[d] /\ grabbed'[d] = grabbed[d]
         /\ \A k \in Keys : takes'[k] >= takes[k]
         /\ \A u \in Turns : /\ told[u] => told'[u]
                             /\ daemon[u] # "none" => daemon'[u] # "none"
         /\ \A k \in Keys : cancels'[k] # NoHandle =>
              cancels'[k] = cancels[k] /\ sendCancels'[k] = sendCancels[k]
<1> USE RunnerAssumption DEF TypeOK, GateTypeOK, turnVars, historyVars, gateVars
<1>1. CASE CancelTake(c)
  BY <1>1 DEF CancelTake, RemoveBoth
<1>2. CASE CancelDaemon(c)
  BY <1>2 DEF CancelDaemon, AskDaemonToStop, Stop
<1>3. CASE CancelLocal(c)
  BY <1>3 DEF CancelLocal
<1>4. CASE DropCancel(c)
  BY <1>4 DEF DropCancel, AskDaemonToStop, Stop
<1> QED
  BY <1>1, <1>2, <1>3, <1>4 DEF CancelActionOf

(* A cancel under way holds a callback of its own key.                      *)
LEMMA HoldsStep ==
  ASSUME TypeOK, GateInv, CancelHoldsCallback, [Next]_vars
  PROVE  CancelHoldsCallback'
<1> USE RunnerAssumption DEF CancelHoldsCallback
<1>1. ASSUME NEW t \in Turns, ActionOf(t) PROVE CancelHoldsCallback'
  BY <1>1, TurnFrame
<1>2. ASSUME NEW c \in Cancels, CancelActionOf(c) PROVE CancelHoldsCallback'
  <2> SUFFICES ASSUME NEW d \in Cancels, cpc'[d] \in {"daemon", "local"}
               PROVE  /\ grabbed'[d] # NoHandle
                      /\ TurnKey[grabbed'[d].turn] = CancelKey[d]
                      /\ takes'[CancelKey[d]] > 0
    OBVIOUS
  <2>1. CASE d # c
    BY <1>2, <2>1, CancelFrame, CancelStepType DEF TypeOK
  <2>2. CASE d = c
    <3> USE <2>2 DEF TypeOK, GateTypeOK
    <3>1. CASE CancelTake(c)
      BY <3>1 DEF CancelTake, GateInv, SenderNeedsReservation,
         ReservationHasOwner, IsActive, turnVars
    <3>2. CASE CancelDaemon(c)
      BY <3>2 DEF CancelDaemon
    <3>3. CASE CancelLocal(c)
      BY <3>3 DEF CancelLocal
    <3>4. CASE DropCancel(c)
      BY <3>4 DEF DropCancel
    <3> QED
      BY <1>2, <3>1, <3>2, <3>3, <3>4 DEF CancelActionOf
  <2> QED
    BY <2>1, <2>2
<1>3. CASE UNCHANGED vars
  BY <1>3 DEF vars
<1> QED
  BY <1>1, <1>2, <1>3, StepCases

(* The runner's callback of a turn is in one place at a time.               *)
LEMMA PlaceStep ==
  ASSUME TypeOK, GateInv, CancelHoldsCallback, CallbackInOnePlace,
         [Next]_vars
  PROVE  CallbackInOnePlace'
<1> DEFINE Early(u) == pc[u] \in {"start", "reserved", "checked"}
           Place(u) ==
             /\ cancels[TurnKey[u]] = CallerHandle(u)
                  => pc[u] \in {"reserved", "checked"}
             /\ Early(u) => cancels[TurnKey[u]] # RunnerHandle(u)
             /\ Early(u) \/ cancels[TurnKey[u]] = RunnerHandle(u)
                  => ~flag[u] /\ \A d \in Cancels : grabbed[d] # RunnerHandle(u)
<1>0. \A u \in Turns : Place(u)
  BY DEF CallbackInOnePlace
<1> SUFFICES ASSUME NEW u \in Turns PROVE Place(u)'
  BY DEF CallbackInOnePlace
<1>h. /\ CallerHandle(u) # RunnerHandle(u)
      /\ CallerHandle(u) \in Handles /\ RunnerHandle(u) \in Handles
      /\ CallerHandle(u) # NoHandle /\ RunnerHandle(u) # NoHandle
      /\ CallerHandle(u)' = CallerHandle(u) /\ RunnerHandle(u)' = RunnerHandle(u)
  BY HandlesType, HandleAssumption DEF CallerHandle, RunnerHandle
<1>k. TurnKey[u] \in Keys
  BY RunnerAssumption
<1>1. ASSUME NEW t \in Turns, ActionOf(t) PROVE Place(u)'
  <2>1. CASE u # t
    BY <1>0, <1>1, <1>h, <2>1, TurnFrame, TurnGateFrame
  <2>2. CASE u = t
    <3>1. UNCHANGED <<flag, cpc, grabbed, takenAt, takes>>
      BY <1>1, TurnFrame
    <3> USE <1>0, <1>h, <1>k, <2>2, <3>1
        DEF TypeOK, GateTypeOK, IsActive, Goto, gateVars
    <3>2. CASE Execute(t)
      BY <3>2 DEF Execute, Acquire, Refuse
    <3>3. CASE Reserve(t)
      BY <3>3 DEF Reserve, Acquire, Refuse
    <3>4. CASE CheckReserved(t)
      BY <3>4 DEF CheckReserved, Refuse
    <3>5. CASE ReplaceCallerCancel(t)
      BY <3>5 DEF ReplaceCallerCancel, ReplaceCancel
    <3>6. CASE PoolAcquire(t)
      BY <3>6 DEF PoolAcquire, Leave
    <3>7. CASE RegisterDaemonCancel(t)
      BY <3>7 DEF RegisterDaemonCancel, SetSendCancel
    <3>8. CASE SettleDrain(t)
      BY <3>8 DEF SettleDrain, Leave
    <3>9. CASE SendInput(t)
      BY <3>9 DEF SendInput, Leave
    <3>10. CASE ObserveCancelled(t)
      BY <3>10 DEF ObserveCancelled, Leave
    <3>11. CASE ExpireDeadline(t)
      BY <3>11 DEF ExpireDeadline, AskDaemonToStop, Stop
    <3>12. CASE FinishTimeout(t)
      BY <3>12 DEF FinishTimeout, Leave
    <3>13. CASE EndOnEvent(t)
      BY <3>13 DEF EndOnEvent, Leave
    <3>14. CASE EndOnClose(t)
      BY <3>14 DEF EndOnClose, Leave
    <3>15. CASE EndOnMissingStream(t)
      BY <3>15 DEF EndOnMissingStream, Leave
    <3>16. CASE ReleaseGate(t)
      BY <3>16 DEF ReleaseGate, RemoveBoth
    <3>17. CASE Abandon(t)
      BY <3>17 DEF Abandon, LivePCs
    <3> QED
      BY <1>1, <3>2, <3>3, <3>4, <3>5, <3>6, <3>7, <3>8, <3>9, <3>10,
         <3>11, <3>12, <3>13, <3>14, <3>15, <3>16, <3>17 DEF ActionOf
  <2> QED
    BY <2>1, <2>2
<1>2. ASSUME NEW c \in Cancels, CancelActionOf(c) PROVE Place(u)'
  <2>1. /\ UNCHANGED pc
        /\ \A d \in Cancels \ {c} : grabbed'[d] = grabbed[d]
        /\ cancels'[TurnKey[u]] # NoHandle =>
             cancels'[TurnKey[u]] = cancels[TurnKey[u]]
    BY <1>2, <1>k, CancelFrame
  <2>2. CASE CancelTake(c)
    <3>1. /\ flag' = flag
          /\ grabbed'[c] = cancels[CancelKey[c]]
          /\ cancels'[CancelKey[c]] = NoHandle
      BY <2>2, RunnerAssumption
         DEF CancelTake, RemoveBoth, turnVars, TypeOK, GateTypeOK
    <3>2. ASSUME grabbed'[c] = RunnerHandle(u)
          PROVE  ~Early(u) /\ cancels'[TurnKey[u]] # RunnerHandle(u)
      <4>1. u = cancels[CancelKey[c]].turn
        BY <3>1, <3>2, HandleTurn
      <4>2. CASE TurnKey[u] = CancelKey[c]
        BY <1>0, <1>h, <3>1, <3>2, <4>2
      <4>3. CASE TurnKey[u] # CancelKey[c]
        BY <1>h, <3>1, <3>2, <4>1, <4>3, RunnerAssumption
           DEF GateInv, ReservationHasOwner, IsActive
      <4> QED
        BY <4>2, <4>3
    <3> QED
      BY <1>0, <1>h, <2>1, <3>1, <3>2
  <2>3. CASE CancelDaemon(c)
    BY <1>0, <1>h, <2>3 DEF CancelDaemon, gateVars
  <2>4. CASE CancelLocal(c)
    <3>1. /\ UNCHANGED <<gateVars, grabbed, pc>>
          /\ flag'[u] # flag[u] => grabbed[c] = RunnerHandle(u)
      BY <2>4 DEF CancelLocal, CancelHoldsCallback, TypeOK, Handles,
         RunnerHandle
    <3> QED
      BY <1>0, <1>h, <3>1 DEF gateVars, TypeOK
  <2>5. CASE DropCancel(c)
    BY <1>0, <1>h, <2>5 DEF DropCancel, gateVars
  <2> QED
    BY <1>2, <2>2, <2>3, <2>4, <2>5 DEF CancelActionOf
<1>3. CASE UNCHANGED vars
  BY <1>0, <1>h, <1>3 DEF vars
<1> QED
  BY <1>1, <1>2, <1>3, StepCases

(* A turn in its loop that the gate names can be stopped at the daemon.     *)
LEMMA LoopStep ==
  ASSUME TypeOK, CallbackInOnePlace, LoopIsCancellable, [Next]_vars
  PROVE  LoopIsCancellable'
<1> DEFINE Stoppable(u) ==
             /\ pc[u] = "loop" => daemon[u] # "none"
             /\ /\ pc[u] \in {"drain", "send", "loop"}
                /\ cancels[TurnKey[u]] = RunnerHandle(u)
                => sendCancels[TurnKey[u]] # NoTurn
<1>0. \A u \in Turns : Stoppable(u)
  BY DEF LoopIsCancellable
<1> SUFFICES ASSUME NEW u \in Turns PROVE Stoppable(u)'
  BY DEF LoopIsCancellable
<1>h. /\ RunnerHandle(u) # NoHandle
      /\ RunnerHandle(u)' = RunnerHandle(u)
  BY HandlesType, HandleAssumption DEF RunnerHandle
<1>k. TurnKey[u] \in Keys
  BY RunnerAssumption
<1>1. ASSUME NEW t \in Turns, ActionOf(t) PROVE Stoppable(u)'
  <2>1. CASE u # t
    BY <1>0, <1>1, <1>h, <2>1, TurnFrame, TurnGateFrame
  <2>2. CASE u = t
    <3>1. pc'[t] = "loop" => daemon'[t] # "none"
      BY <1>1, TurnFrame
    <3> USE <1>0, <1>h, <1>k, <2>2, <3>1, AbsentAssumption
        DEF TypeOK, GateTypeOK, IsActive, Goto, gateVars
    <3>2. CASE Execute(t)
      BY <3>2 DEF Execute, Acquire, Refuse
    <3>3. CASE Reserve(t)
      BY <3>3 DEF Reserve, Acquire, Refuse
    <3>4. CASE CheckReserved(t)
      BY <3>4 DEF CheckReserved, Refuse
    <3>5. CASE ReplaceCallerCancel(t)
      BY <3>5 DEF ReplaceCallerCancel, ReplaceCancel
    <3>6. CASE PoolAcquire(t)
      BY <3>6 DEF PoolAcquire, Leave
    <3>7. CASE RegisterDaemonCancel(t)
      BY <3>7 DEF RegisterDaemonCancel, SetSendCancel
    <3>8. CASE SettleDrain(t)
      BY <3>8 DEF SettleDrain, Leave
    <3>9. CASE SendInput(t)
      BY <3>9 DEF SendInput, Leave
    <3>10. CASE ObserveCancelled(t)
      BY <3>10 DEF ObserveCancelled, Leave
    <3>11. CASE ExpireDeadline(t)
      BY <3>11 DEF ExpireDeadline, AskDaemonToStop, Stop
    <3>12. CASE FinishTimeout(t)
      BY <3>12 DEF FinishTimeout, Leave
    <3>13. CASE EndOnEvent(t)
      BY <3>13 DEF EndOnEvent, Leave
    <3>14. CASE EndOnClose(t)
      BY <3>14 DEF EndOnClose, Leave
    <3>15. CASE EndOnMissingStream(t)
      BY <3>15 DEF EndOnMissingStream, Leave
    <3>16. CASE ReleaseGate(t)
      BY <3>16 DEF ReleaseGate, RemoveBoth
    <3>17. CASE Abandon(t)
      BY <3>17 DEF Abandon, LivePCs
    <3> QED
      BY <1>1, <3>2, <3>3, <3>4, <3>5, <3>6, <3>7, <3>8, <3>9, <3>10,
         <3>11, <3>12, <3>13, <3>14, <3>15, <3>16, <3>17 DEF ActionOf
  <2> QED
    BY <2>1, <2>2
<1>2. ASSUME NEW c \in Cancels, CancelActionOf(c) PROVE Stoppable(u)'
  BY <1>0, <1>2, <1>h, <1>k, CancelFrame
<1>3. CASE UNCHANGED vars
  BY <1>0, <1>h, <1>3 DEF vars
<1> QED
  BY <1>1, <1>2, <1>3, StepCases

(* A cancel notes "loop" for the turn whose runner callback it takes out of *)
(* the gate, or had noted it before.                                        *)
LEMMA TakenInLoop ==
  ASSUME TypeOK, GateInv, CallbackInOnePlace,
         NEW c \in Cancels, CancelTake(c),
         NEW u \in Turns, takenAt'[u] = "loop"
  PROVE  \/ /\ cancels[CancelKey[c]] = RunnerHandle(u)
            /\ pc[u] = "loop"
            /\ TurnKey[u] = CancelKey[c]
         \/ /\ cancels[CancelKey[c]] # RunnerHandle(u)
            /\ takenAt[u] = "loop"
<1> DEFINE k == CancelKey[c]
           h == cancels[k]
<1>1. k \in Keys /\ h \in Handles \cup {NoHandle}
  BY RunnerAssumption DEF TypeOK, GateTypeOK
<1>2. CASE h # NoHandle /\ h.turn = u
  <2>1. takenAt'[u] = IF pc[u] = "loop" THEN "loop" ELSE "elsewhere"
    BY <1>2 DEF CancelTake, TypeOK
  <2>2. pc[u] = "loop"
    BY <2>1
  <2>3. TurnKey[u] = k
    BY <1>1, <1>2 DEF GateInv, ReservationHasOwner, IsActive
  <2>4. h = CallerHandle(u) \/ h = RunnerHandle(u)
    BY <1>1, <1>2 DEF Handles, CallerHandle, RunnerHandle
  <2>5. h # CallerHandle(u)
    BY <2>2, <2>3 DEF CallbackInOnePlace
  <2> QED
    BY <2>2, <2>3, <2>4, <2>5
<1>3. CASE h = NoHandle \/ h.turn # u
  <2>1. takenAt'[u] = takenAt[u]
    BY <1>1, <1>3 DEF CancelTake, TypeOK, Handles
  <2>2. h # RunnerHandle(u)
    BY <1>3, HandleTurn, HandlesType, HandleAssumption
  <2> QED
    BY <2>1, <2>2
<1> QED
  BY <1>2, <1>3

(* A turn taken in its loop is told to stop before its callback runs.       *)
LEMMA ToldStep ==
  ASSUME TypeOK, GateInv, CancelHoldsCallback, CallbackInOnePlace,
         LoopIsCancellable, ToldBeforeCallback, [Next]_vars
  PROVE  ToldBeforeCallback'
<1> DEFINE Kept(u, d) == cpc[d] = "local" /\ grabbed[d] = RunnerHandle(u)
                           => told[u]
<1> SUFFICES ASSUME NEW u \in Turns, takenAt'[u] = "loop"
             PROVE  daemon'[u] # "none" /\ \A d \in Cancels : Kept(u, d)'
  BY DEF ToldBeforeCallback, RunnerHandle
<1>0. takenAt[u] = "loop" =>
        daemon[u] # "none" /\ \A d \in Cancels : Kept(u, d)
  BY DEF ToldBeforeCallback
<1>1. ASSUME NEW t \in Turns, ActionOf(t)
      PROVE  daemon'[u] # "none" /\ \A d \in Cancels : Kept(u, d)'
  BY <1>0, <1>1, TurnFrame DEF RunnerHandle
<1>2. ASSUME NEW c \in Cancels, CancelActionOf(c)
      PROVE  daemon'[u] # "none" /\ \A d \in Cancels : Kept(u, d)'
  <2>1. /\ \A d \in Cancels \ {c} : cpc'[d] = cpc[d] /\ grabbed'[d] = grabbed[d]
        /\ told[u] => told'[u]
        /\ daemon[u] # "none" => daemon'[u] # "none"
        /\ RunnerHandle(u)' = RunnerHandle(u)
    BY <1>2, CancelFrame DEF RunnerHandle
  <2>2. CASE CancelTake(c)
    <3>1. /\ CancelKey[c] \in Keys
          /\ grabbed'[c] = cancels[CancelKey[c]]
          /\ sendCancels[CancelKey[c]] # NoTurn => cpc'[c] = "daemon"
          /\ daemon' = daemon
      BY <2>2, RunnerAssumption DEF CancelTake, turnVars, TypeOK
    <3>2. CASE /\ cancels[CancelKey[c]] = RunnerHandle(u)
               /\ pc[u] = "loop"
               /\ TurnKey[u] = CancelKey[c]
      <4>1. daemon[u] # "none" /\ cpc'[c] = "daemon"
        BY <3>1, <3>2 DEF LoopIsCancellable
      <4>2. \A d \in Cancels : grabbed[d] # RunnerHandle(u)
        BY <3>2 DEF CallbackInOnePlace
      <4> QED
        BY <2>1, <4>1, <4>2
    <3>3. CASE /\ cancels[CancelKey[c]] # RunnerHandle(u)
               /\ takenAt[u] = "loop"
      BY <1>0, <2>1, <3>1, <3>3
    <3> QED
      BY <2>2, <3>2, <3>3, TakenInLoop
  <2>3. CASE CancelDaemon(c)
    <3>1. /\ takenAt[u] = "loop"
          /\ cpc[c] = "daemon"
          /\ grabbed'[c] = grabbed[c]
          /\ told'[u] = (told[u] \/ (TurnKey[u] = CancelKey[c]
                                       /\ daemon[u] # "none"))
      BY <2>3 DEF CancelDaemon, AskDaemonToStop
    <3>2. grabbed[c] = RunnerHandle(u) => TurnKey[u] = CancelKey[c]
      BY <3>1, HandleTurn DEF CancelHoldsCallback
    <3> QED
      BY <1>0, <2>1, <3>1, <3>2
  <2>4. CASE CancelLocal(c)
    BY <1>0, <2>1, <2>4 DEF CancelLocal, historyVars, TypeOK
  <2>5. CASE DropCancel(c)
    BY <1>0, <2>1, <2>5 DEF DropCancel, TypeOK
  <2> QED
    BY <1>2, <2>2, <2>3, <2>4, <2>5 DEF CancelActionOf
<1>3. CASE UNCHANGED vars
  BY <1>0, <1>3 DEF vars, RunnerHandle
<1> QED
  BY <1>1, <1>2, <1>3, StepCases

(* A flag set on a turn taken in its loop comes after the daemon cancel.    *)
LEMMA FlagStep ==
  ASSUME TypeOK, GateInv, CancelHoldsCallback, CallbackInOnePlace,
         ToldBeforeCallback, DaemonBeforeFlag, [Next]_vars
  PROVE  DaemonBeforeFlag'
<1> SUFFICES ASSUME NEW u \in Turns, flag'[u], takenAt'[u] = "loop"
             PROVE  told'[u]
  BY DEF DaemonBeforeFlag
<1>1. ASSUME NEW t \in Turns, ActionOf(t) PROVE told'[u]
  BY <1>1, TurnFrame DEF DaemonBeforeFlag
<1>2. ASSUME NEW c \in Cancels, CancelActionOf(c) PROVE told'[u]
  <2>1. told[u] => told'[u]
    BY <1>2, CancelFrame
  <2>2. CASE CancelTake(c)
    <3>1. flag' = flag
      BY <2>2 DEF CancelTake, turnVars
    <3>2. cancels[CancelKey[c]] = RunnerHandle(u) /\ TurnKey[u] = CancelKey[c]
            => ~flag[u]
      BY DEF CallbackInOnePlace
    <3> QED
      BY <2>1, <2>2, <3>1, <3>2, TakenInLoop DEF DaemonBeforeFlag
  <2>3. CASE CancelDaemon(c)
    BY <2>1, <2>3 DEF CancelDaemon, DaemonBeforeFlag
  <2>4. CASE CancelLocal(c)
    <3>1. cpc[c] = "local" /\ takenAt[u] = "loop"
      BY <2>4 DEF CancelLocal, historyVars
    <3>2. flag[u] \/ grabbed[c] = RunnerHandle(u)
      BY <2>4, <3>1 DEF CancelLocal, CancelHoldsCallback, TypeOK, Handles,
         RunnerHandle
    <3> QED
      BY <2>1, <3>1, <3>2 DEF DaemonBeforeFlag, ToldBeforeCallback
  <2>5. CASE DropCancel(c)
    BY <2>1, <2>5 DEF DropCancel, DaemonBeforeFlag
  <2> QED
    BY <1>2, <2>2, <2>3, <2>4, <2>5 DEF CancelActionOf
<1>3. CASE UNCHANGED vars
  BY <1>3 DEF vars, DaemonBeforeFlag
<1> QED
  BY <1>1, <1>2, <1>3, StepCases

CancelInv ==
  /\ CancelHoldsCallback
  /\ CallbackInOnePlace
  /\ LoopIsCancellable
  /\ ToldBeforeCallback
  /\ DaemonBeforeFlag

LEMMA CancelInvHolds == Spec => [](TypeOK /\ GateInv /\ CancelInv)
<1>1. Init => CancelInv
  BY RunnerAssumption, HandlesType, HandleAssumption
     DEF Init, GateInit, CancelInv, CancelHoldsCallback, CallbackInOnePlace,
         LoopIsCancellable, ToldBeforeCallback, DaemonBeforeFlag
<1>2. TypeOK /\ GateInv /\ CancelInv /\ [Next]_vars => CancelInv'
  BY HoldsStep, PlaceStep, LoopStep, ToldStep, FlagStep DEF CancelInv
<1>3. Spec => []GateInv
  BY GateCorrect DEF GateInv
<1> QED
  BY <1>1, <1>2, <1>3, TypeCorrect, PTL DEF Spec

(* The daemon is asked to stop before the flag of a turn in its loop is set. *)
THEOREM DaemonFirst == Spec => []DaemonBeforeFlag
<1>1. CancelInv => DaemonBeforeFlag
  BY DEF CancelInv
<1> QED
  BY <1>1, CancelInvHolds, PTL

(* The only step of a turn that stops a daemon run is its deadline.         *)
LEMMA OnlyDeadlineStops ==
  ASSUME TypeOK, NEW u \in Turns, ActionOf(u), NEW t \in Turns,
         daemon[t] = "running", daemon'[t] = "stopped"
  PROVE  ExpireDeadline(u)
<1> USE DEF TypeOK, historyVars, cancelVars
<1>1. CASE Execute(u)
  BY <1>1 DEF Execute, Refuse
<1>2. CASE Reserve(u)
  BY <1>2 DEF Reserve, Refuse
<1>3. CASE CheckReserved(u)
  BY <1>3 DEF CheckReserved, Refuse
<1>4. CASE ReplaceCallerCancel(u)
  BY <1>4 DEF ReplaceCallerCancel
<1>5. CASE PoolAcquire(u)
  BY <1>5 DEF PoolAcquire
<1>6. CASE RegisterDaemonCancel(u)
  BY <1>6 DEF RegisterDaemonCancel
<1>7. CASE SettleDrain(u)
  BY <1>7 DEF SettleDrain
<1>8. CASE SendInput(u)
  BY <1>8 DEF SendInput
<1>9. CASE ObserveCancelled(u)
  BY <1>9 DEF ObserveCancelled
<1>10. CASE FinishTimeout(u)
  BY <1>10 DEF FinishTimeout
<1>11. CASE EndOnEvent(u)
  BY <1>11 DEF EndOnEvent
<1>12. CASE EndOnClose(u)
  BY <1>12 DEF EndOnClose
<1>13. CASE EndOnMissingStream(u)
  BY <1>13 DEF EndOnMissingStream
<1>14. CASE ReleaseGate(u)
  BY <1>14 DEF ReleaseGate
<1>15. CASE Abandon(u)
  BY <1>15 DEF Abandon
<1> QED
  BY <1>1, <1>2, <1>3, <1>4, <1>5, <1>6, <1>7, <1>8,
     <1>9, <1>10, <1>11, <1>12, <1>13, <1>14, <1>15 DEF ActionOf

(* Until a cancel is taken, only a turn itself has its daemon run stopped.  *)
THEOREM OnlyItselfIsStopped == Spec => StopsOnlyItself
<1> DEFINE Own == \A t \in Turns :
             /\ Live(t)
             /\ takes[TurnKey[t]] = 0
             /\ daemon[t] = "running"
             /\ daemon'[t] = "stopped"
             => pc'[t] = "timedOut"
<1>1. TypeOK /\ CancelInv /\ SingleFlightUntilCancel /\ [Next]_vars
        => [Own]_vars
  <2> SUFFICES ASSUME TypeOK, CancelInv, SingleFlightUntilCancel, [Next]_vars,
                      NEW t \in Turns, Live(t), takes[TurnKey[t]] = 0,
                      daemon[t] = "running", daemon'[t] = "stopped"
               PROVE  pc'[t] = "timedOut"
    OBVIOUS
  <2>1. ASSUME NEW u \in Turns, ActionOf(u) PROVE pc'[t] = "timedOut"
    <3>1. ExpireDeadline(u)
      BY <2>1, OnlyDeadlineStops
    <3>2. pc[u] = "loop" /\ pc'[u] = "timedOut"
      BY <3>1 DEF ExpireDeadline, Goto, TypeOK
    <3>3. TurnKey[u] = TurnKey[t]
      BY <3>1 DEF ExpireDeadline, AskDaemonToStop, Stop
    <3>4. u = t
      BY <3>2, <3>3, RunnerAssumption
         DEF SingleFlightUntilCancel, OnKey, Live, LivePCs
    <3> QED
      BY <3>2, <3>4
  <2>2. ASSUME NEW c \in Cancels, CancelActionOf(c) PROVE FALSE
    <3>1. daemon' # daemon
      OBVIOUS
    <3>2. cpc[c] = "daemon" /\ AskDaemonToStop(CancelKey[c])
      BY <2>2, <3>1 DEF CancelActionOf, CancelTake, CancelDaemon, CancelLocal,
         DropCancel, turnVars
    <3>3. TurnKey[t] = CancelKey[c]
      BY <3>1, <3>2 DEF AskDaemonToStop, Stop
    <3>4. takes[TurnKey[t]] > 0
      BY <3>2, <3>3 DEF CancelInv, CancelHoldsCallback
    <3> QED
      BY <3>4
  <2>3. ASSUME UNCHANGED vars PROVE FALSE
    BY <2>3 DEF vars
  <2> QED
    BY <2>1, <2>2, <2>3, StepCases
<1>2. Spec => [][Own]_vars
  BY <1>1, CancelInvHolds, SingleFlightHolds, PTL DEF Spec
<1> QED
  BY <1>2 DEF StopsOnlyItself
-----------------------------------------------------------------------------
(* How many turns overlap.                                                  *)

(* The turns of a key in flight that the gate does not name.                *)
Outside(k) ==
  {t \in OnKey(k) : Live(t) /\ cancels[k] # RunnerHandle(t)
                            /\ cancels[k] # CallerHandle(t)}

OverlapInv ==
  \A k \in Keys : IsFiniteSet(Outside(k)) /\ Cardinality(Outside(k)) <= takes[k]

(* A handle names its turn and no other.                                    *)
LEMMA NamesOne ==
  ASSUME NEW h \in Handles \cup {NoHandle}, NEW t \in Turns
  PROVE  /\ h = NoHandle => h # RunnerHandle(t) /\ h # CallerHandle(t)
         /\ h = RunnerHandle(t) \/ h = CallerHandle(t) => h # NoHandle /\ h.turn = t
         /\ h # NoHandle /\ h.turn = t => h = RunnerHandle(t) \/ h = CallerHandle(t)
BY HandleAssumption DEF Handles, RunnerHandle, CallerHandle

(* What a step of a turn does to the callback of its key, by how it changes *)
(* whether the turn is in flight.                                           *)
LEMMA TurnMovesGate ==
  ASSUME TypeOK, NEW t \in Turns, ActionOf(t)
  PROVE  \/ cancels' = cancels /\ (Live(t)' => Live(t))
         \/ \E h \in {RunnerHandle(t), CallerHandle(t)} :
              /\ cancels[TurnKey[t]] = NoHandle
              /\ cancels' = [cancels EXCEPT ![TurnKey[t]] = h]
         \/ /\ Live(t)
            /\ cancels' = [cancels EXCEPT ![TurnKey[t]] = RunnerHandle(t)]
         \/ /\ Live(t) /\ ~Live(t)'
            /\ cancels' = [cancels EXCEPT ![TurnKey[t]] = NoHandle]
<1> USE DEF TypeOK, Live, LivePCs, Goto, gateVars
<1>1. CASE Execute(t)
  BY <1>1 DEF Execute, Acquire, Refuse, IsActive
<1>2. CASE Reserve(t)
  BY <1>2 DEF Reserve, Acquire, Refuse, IsActive
<1>3. CASE CheckReserved(t)
  BY <1>3 DEF CheckReserved, Refuse
<1>4. CASE ReplaceCallerCancel(t)
  BY <1>4 DEF ReplaceCallerCancel, ReplaceCancel
<1>5. CASE PoolAcquire(t)
  BY <1>5 DEF PoolAcquire, Leave
<1>6. CASE RegisterDaemonCancel(t)
  BY <1>6 DEF RegisterDaemonCancel, SetSendCancel
<1>7. CASE SettleDrain(t)
  BY <1>7 DEF SettleDrain, Leave
<1>8. CASE SendInput(t)
  BY <1>8 DEF SendInput, Leave
<1>9. CASE ObserveCancelled(t)
  BY <1>9 DEF ObserveCancelled, Leave
<1>10. CASE ExpireDeadline(t)
  BY <1>10 DEF ExpireDeadline
<1>11. CASE FinishTimeout(t)
  BY <1>11 DEF FinishTimeout, Leave
<1>12. CASE EndOnEvent(t)
  BY <1>12 DEF EndOnEvent, Leave
<1>13. CASE EndOnClose(t)
  BY <1>13 DEF EndOnClose, Leave
<1>14. CASE EndOnMissingStream(t)
  BY <1>14 DEF EndOnMissingStream, Leave
<1>15. CASE ReleaseGate(t)
  BY <1>15 DEF ReleaseGate, RemoveBoth
<1>16. CASE Abandon(t)
  BY <1>16 DEF Abandon
<1> QED
  BY <1>1, <1>2, <1>3, <1>4, <1>5, <1>6, <1>7, <1>8, <1>9, <1>10, <1>11,
     <1>12, <1>13, <1>14, <1>15, <1>16 DEF ActionOf

(* A step of a turn puts one turn outside the gate at most, and only by     *)
(* taking the place of the turn it puts out.                                *)
LEMMA TurnTradesPlaces ==
  ASSUME TypeOK, NEW t \in Turns, ActionOf(t), NEW k \in Keys
  PROVE  \/ Outside(k)' \subseteq Outside(k)
         \/ \E u : /\ t \in Outside(k)
                   /\ Outside(k)' \subseteq (Outside(k) \ {t}) \cup {u}
<1>1. \A u \in Turns \ {t} : Live(u)' = Live(u)
  BY TurnFrame DEF Live
<1>2. cancels[k] \in Handles \cup {NoHandle} /\ cancels'[k] \in Handles \cup {NoHandle}
  BY TurnStepType DEF TypeOK, GateTypeOK
<1>3. /\ \A u : u \in Outside(k) <=>
                  /\ u \in Turns /\ TurnKey[u] = k /\ Live(u)
                  /\ cancels[k] # RunnerHandle(u) /\ cancels[k] # CallerHandle(u)
      /\ \A u : u \in Outside(k)' <=>
                  /\ u \in Turns /\ TurnKey[u] = k /\ Live(u)'
                  /\ cancels'[k] # RunnerHandle(u) /\ cancels'[k] # CallerHandle(u)
  BY DEF Outside, OnKey, RunnerHandle, CallerHandle
<1>4. cancels \in [Keys -> Handles \cup {NoHandle}]
  BY DEF TypeOK, GateTypeOK
<1>5. CASE TurnKey[t] # k
  <2>1. cancels'[k] = cancels[k]
    BY <1>4, <1>5, TurnMovesGate
  <2> QED  BY <1>1, <1>3, <1>5, <2>1
<1>6. CASE TurnKey[t] = k
  <2>1. CASE cancels' = cancels /\ (Live(t)' => Live(t))
    BY <1>1, <1>3, <2>1
  <2>2. ASSUME NEW h \in {RunnerHandle(t), CallerHandle(t)},
               cancels[k] = NoHandle, cancels'[k] = h
        PROVE  Outside(k)' \subseteq Outside(k)
    BY <1>1, <1>2, <1>3, <2>2, NamesOne
  <2>3. CASE Live(t) /\ cancels'[k] = RunnerHandle(t)
    <3>1. CASE cancels[k] = NoHandle \/ cancels[k].turn = t
      BY <1>1, <1>2, <1>3, <2>3, <3>1, NamesOne
    <3>2. CASE cancels[k] # NoHandle /\ cancels[k].turn # t
      <4>1. t \in Outside(k)
        BY <1>2, <1>3, <1>6, <2>3, <3>2, NamesOne
      <4>2. \A u \in Outside(k)' : u # t /\ (u \in Outside(k) \/ u = cancels[k].turn)
        BY <1>1, <1>2, <1>3, <2>3, <3>2, NamesOne
      <4> QED  BY <4>1, <4>2
    <3> QED  BY <3>1, <3>2
  <2>4. CASE Live(t) /\ ~Live(t)' /\ cancels'[k] = NoHandle
    <3>1. CASE cancels[k] = NoHandle \/ cancels[k].turn = t
      BY <1>1, <1>2, <1>3, <2>4, <3>1, NamesOne
    <3>2. CASE cancels[k] # NoHandle /\ cancels[k].turn # t
      <4>1. t \in Outside(k)
        BY <1>2, <1>3, <1>6, <2>4, <3>2, NamesOne
      <4>2. \A u \in Outside(k)' : u # t /\ (u \in Outside(k) \/ u = cancels[k].turn)
        BY <1>1, <1>2, <1>3, <2>4, <3>2, NamesOne
      <4> QED  BY <4>1, <4>2
    <3> QED  BY <3>1, <3>2
  <2> QED
    BY <1>4, <1>6, <2>1, <2>2, <2>3, <2>4, TurnMovesGate
<1> QED  BY <1>5, <1>6

(* A step of a cancel puts one turn outside the gate at most, and counts.   *)
LEMMA CancelPutsOneOut ==
  ASSUME TypeOK, NEW c \in Cancels, CancelActionOf(c), NEW k \in Keys
  PROVE  \/ Outside(k)' \subseteq Outside(k) /\ takes'[k] = takes[k]
         \/ \E u : /\ Outside(k)' \subseteq Outside(k) \cup {u}
                   /\ takes'[k] = takes[k] + 1
<1>1. pc' = pc
  BY DEF CancelActionOf, CancelTake, CancelDaemon, CancelLocal, DropCancel, turnVars
<1>2. /\ cancels \in [Keys -> Handles \cup {NoHandle}]
      /\ cancels' \in [Keys -> Handles \cup {NoHandle}]
      /\ takes \in [Keys -> Nat] /\ CancelKey[c] \in Keys
  BY CancelStepType, RunnerAssumption DEF TypeOK, GateTypeOK
<1>3. /\ \A u : u \in Outside(k) <=>
                  /\ u \in Turns /\ TurnKey[u] = k /\ Live(u)
                  /\ cancels[k] # RunnerHandle(u) /\ cancels[k] # CallerHandle(u)
      /\ \A u : u \in Outside(k)' <=>
                  /\ u \in Turns /\ TurnKey[u] = k /\ Live(u)
                  /\ cancels'[k] # RunnerHandle(u) /\ cancels'[k] # CallerHandle(u)
  BY <1>1 DEF Outside, OnKey, RunnerHandle, CallerHandle, Live
<1>4. CASE cancels'[k] = cancels[k] /\ takes'[k] = takes[k]
  BY <1>3, <1>4
<1>5. CASE CancelTake(c)
  <2>1. cancels' = [cancels EXCEPT ![CancelKey[c]] = NoHandle]
    BY <1>5 DEF CancelTake, RemoveBoth
  <2>2. takes' = IF cancels[CancelKey[c]] = NoHandle THEN takes
                 ELSE [takes EXCEPT ![CancelKey[c]] = @ + 1]
    BY <1>5 DEF CancelTake
  <2>3. CASE CancelKey[c] # k \/ cancels[k] = NoHandle
    BY <1>2, <1>4, <2>1, <2>2, <2>3
  <2>4. CASE CancelKey[c] = k /\ cancels[k] # NoHandle
    <3>1. takes'[k] = takes[k] + 1
      BY <1>2, <2>2, <2>4
    <3>2. Outside(k)' \subseteq Outside(k) \cup {cancels[k].turn}
      BY <1>2, <1>3, NamesOne
    <3> QED  BY <3>1, <3>2
  <2> QED  BY <2>3, <2>4
<1>6. CASE CancelDaemon(c) \/ CancelLocal(c) \/ DropCancel(c)
  BY <1>4, <1>6 DEF CancelDaemon, CancelLocal, DropCancel, gateVars, historyVars
<1> QED  BY <1>5, <1>6 DEF CancelActionOf

LEMMA OverlapStep ==
  ASSUME TypeOK, OverlapInv, [Next]_vars PROVE OverlapInv'
<1> SUFFICES ASSUME NEW k \in Keys
             PROVE  /\ IsFiniteSet(Outside(k)')
                    /\ Cardinality(Outside(k)') <= takes'[k]
  BY DEF OverlapInv
<1> DEFINE S == Outside(k)
           T == Outside(k)'
<1>1. IsFiniteSet(S) /\ Cardinality(S) <= takes[k]
  BY DEF OverlapInv
<1>2. Cardinality(S) \in Nat /\ takes[k] \in Nat
  BY <1>1, FS_CardinalityType DEF TypeOK
<1> HIDE DEF S, T
<1>3. ASSUME T \subseteq S PROVE IsFiniteSet(T) /\ Cardinality(T) <= Cardinality(S)
                                 /\ Cardinality(T) \in Nat
  BY <1>1, <1>3, FS_Subset, FS_CardinalityType
<1>4. ASSUME NEW R, IsFiniteSet(R), NEW u, T \subseteq R \cup {u}
      PROVE  /\ IsFiniteSet(T) /\ Cardinality(T) \in Nat /\ Cardinality(R) \in Nat
             /\ Cardinality(T) <= Cardinality(R) + 1
  <2>1. IsFiniteSet(R \cup {u}) /\ Cardinality(R) \in Nat
    BY <1>4, FS_AddElement, FS_CardinalityType
  <2>2. Cardinality(R \cup {u}) \in {Cardinality(R), Cardinality(R) + 1}
    BY <1>4, FS_AddElement
  <2>3. IsFiniteSet(T) /\ Cardinality(T) <= Cardinality(R \cup {u})
    BY <1>4, <2>1, FS_Subset
  <2>4. Cardinality(T) \in Nat
    BY <2>3, FS_CardinalityType
  <2> QED  BY <2>1, <2>2, <2>3, <2>4
<1>5. ASSUME NEW t \in Turns, ActionOf(t)
      PROVE  IsFiniteSet(T) /\ Cardinality(T) <= takes'[k]
  <2>1. takes' = takes
    BY <1>5, TurnFrame
  <2>2. \/ T \subseteq S
        \/ \E u : t \in S /\ T \subseteq (S \ {t}) \cup {u}
    BY <1>5, TurnTradesPlaces DEF S, T
  <2>3. CASE T \subseteq S
    BY <1>1, <1>2, <1>3, <2>1, <2>3
  <2>4. ASSUME NEW u, t \in S, T \subseteq (S \ {t}) \cup {u}
        PROVE  IsFiniteSet(T) /\ Cardinality(T) <= takes'[k]
    <3>1. IsFiniteSet(S \ {t}) /\ Cardinality(S \ {t}) = Cardinality(S) - 1
      BY <1>1, <2>4, FS_RemoveElement
    <3>2. IsFiniteSet(T) /\ Cardinality(T) <= Cardinality(S \ {t}) + 1
          /\ Cardinality(T) \in Nat
      BY <1>4, <2>4, <3>1
    <3> QED  BY <1>1, <1>2, <2>1, <3>1, <3>2
  <2> QED  BY <2>2, <2>3, <2>4
<1>6. ASSUME NEW c \in Cancels, CancelActionOf(c)
      PROVE  IsFiniteSet(T) /\ Cardinality(T) <= takes'[k]
  <2>1. \/ T \subseteq S /\ takes'[k] = takes[k]
        \/ \E u : T \subseteq S \cup {u} /\ takes'[k] = takes[k] + 1
    BY <1>6, CancelPutsOneOut DEF S, T
  <2>2. CASE T \subseteq S /\ takes'[k] = takes[k]
    BY <1>1, <1>2, <1>3, <2>2
  <2>3. ASSUME NEW u, T \subseteq S \cup {u}, takes'[k] = takes[k] + 1
        PROVE  IsFiniteSet(T) /\ Cardinality(T) <= takes'[k]
    BY <1>1, <1>2, <1>4, <2>3
  <2> QED  BY <2>1, <2>2, <2>3
<1>7. CASE UNCHANGED vars
  <2>1. T = S /\ takes' = takes
    BY <1>7 DEF vars, T, S, Outside, Live, OnKey, RunnerHandle, CallerHandle
  <2> QED  BY <1>1, <2>1 DEF T
<1> QED  BY <1>5, <1>6, <1>7, StepCases DEF T

(* The turns in flight that the gate does not name are no more than the     *)
(* cancels that took a reservation of their key.                            *)
THEOREM OverlapIsBounded == Spec => []OverlapBoundedByCancels
<1>1. Init => OverlapInv
  <2> SUFFICES ASSUME Init PROVE OverlapInv
    OBVIOUS
  <2>1. ASSUME NEW k \in Keys
        PROVE  IsFiniteSet(Outside(k)) /\ Cardinality(Outside(k)) <= takes[k]
    <3>1. Outside(k) = {}
      BY DEF Init, Outside, OnKey, Live, LivePCs
    <3>2. takes[k] = 0
      BY DEF Init
    <3> QED  BY <3>1, <3>2, FS_EmptySet
  <2> QED  BY <2>1, Zenon DEF OverlapInv
<1>2. OverlapInv => OverlapBoundedByCancels
  BY Zenon DEF OverlapInv, Outside, OverlapBoundedByCancels
<1> QED
  BY <1>1, <1>2, OverlapStep, TypeCorrect, PTL DEF Spec
=============================================================================
