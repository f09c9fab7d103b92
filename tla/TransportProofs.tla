---------------------------- MODULE TransportProofs ----------------------------
(***************************************************************************)
(* Theorems about Transport for any calls, requests, forwarders and bounds. *)
(***************************************************************************)
EXTENDS Transport, SequenceLemmas

(* The steps of the system by who takes them.                               *)
CallStep(c) ==
  \/ \E o \in Ops : Start(c, o)
  \/ DropTx(c) \/ ReUp(c) \/ ReWaiters(c) \/ ReInbound(c)
  \/ Check(c) \/ Dial(c) \/ AttemptFails(c) \/ Publish(c) \/ SetUp(c)
  \/ Spawn(c) \/ SendInit(c) \/ WaitAck(c) \/ AckTimesOut(c) \/ ReadTimesOut(c)

ReaderStep(g) ==
  \/ \E kind \in Acks \cup {"event"} : RouteFrame(g, kind)
  \/ \E r \in Requests : RouteAnswer(g, r)
  \/ Notify(g) \/ EndReader(g)

MarkStep(p) == MarkUp(p) \/ MarkTx(p) \/ MarkWaiters(p) \/ MarkWake(p)

RequestStep(r) == InsertWaiter(r) \/ SendRequest(r) \/ SendFails(r) \/ Return(r)

AppStep(k) == Subscribe(k) \/ Forward(k)

ConsumerStep(k) == FindNothing(k) \/ Register(k) \/ WakeUp(k)

(* Every step is one of these, or changes nothing.                          *)
LEMMA StepCases ==
  [Next]_vars =>
    \/ \E c \in Calls : CallStep(c)
    \/ \E g \in Conns : ReaderStep(g)
    \/ \E p \in Calls \cup Conns : MarkStep(p)
    \/ \E r \in Requests : RequestStep(r)
    \/ \E k \in Apps : AppStep(k)
    \/ \E k \in Consumers : ConsumerStep(k)
    \/ UNCHANGED vars
BY DEF Next, Connect, Reader, MarkDisconnected, CallStep, ReaderStep, MarkStep,
       RequestStep, AppStep, ConsumerStep

-----------------------------------------------------------------------------
(* Type correctness.                                                        *)

PCs == CallSteps \cup MarkSteps \cup {"none", "reading", "notify"}

(* A call that is on its way to a connection has an attempt left.           *)
Attempting ==
  {"reTx", "reUp", "reWaiters", "reInbound", "check", "dial", "publish",
   "setUp", "spawn", "init", "ack"}

AttemptsLeft == \A c \in Calls : pc[c] \in Attempting => tries[c] > 0

TypeInv == TypeOK /\ AttemptsLeft

(* A step of a call or of a reader keeps the types of where they stand.     *)
LEMMA StepKeepsType ==
  ASSUME TypeOK, NEW p, NEW from, NEW to \in PCs, Step(p, from, to)
  PROVE  pc' \in [Calls \cup Conns -> PCs]
BY DEF Step, TypeOK, PCs

(* A step between two places takes no attempt away from who is trying.      *)
LEMMA StepKeepsAttempts ==
  ASSUME TypeInv, NEW p, NEW from, NEW to, Step(p, from, to), tries' = tries,
         to \in Attempting => from \in Attempting
  PROVE  AttemptsLeft'
BY DEF Step, TypeInv, TypeOK, AttemptsLeft

(* A failed attempt of a call takes one of those it has left.               *)
LEMMA FailKeepsType ==
  ASSUME TypeInv, NEW c \in Calls, pc[c] \in Attempting, Fail(c)
  PROVE  /\ pc' \in [Calls \cup Conns -> PCs]
         /\ tries' \in [Calls -> 0..MaxRetries]
         /\ AttemptsLeft'
<1>1. tries[c] \in 1..MaxRetries /\ MaxRetries \in Nat
  BY TransportAssumption DEF TypeInv, TypeOK, AttemptsLeft
<1>2. tries' \in [Calls -> 0..MaxRetries]
  BY <1>1 DEF Fail, TypeInv, TypeOK
<1>3. pc' \in [Calls \cup Conns -> PCs]
  BY DEF Fail, TypeInv, TypeOK, PCs, CallSteps, Returned
<1>4. AttemptsLeft'
  BY <1>1 DEF Fail, TypeInv, TypeOK, AttemptsLeft, Attempting
<1> QED
  BY <1>2, <1>3, <1>4

(* Taking a consumer out of those who sleep leaves consumers.               *)
LEMMA DeregisterKeepsType ==
  ASSUME TypeOK, NEW c, Deregister(c)
  PROVE  sleepers' \in Seq(Consumers)
BY DEF Deregister, TypeOK, RemoveAt

LEMMA InitType == Init => TypeInv
<1> SUFFICES ASSUME Init PROVE TypeInv
  OBVIOUS
<1>1. MaxRetries \in Nat /\ MaxConns \in Nat
  BY TransportAssumption
<1>2. pc \in [Calls \cup Conns -> PCs]
  BY DEF Init, PCs, CallSteps
<1>3. tries \in [Calls -> 0..MaxRetries] /\ conn \in [Calls -> Conns \cup {NoConn}]
  BY <1>1 DEF Init, NoConn
<1>4. AttemptsLeft
  BY DEF Init, AttemptsLeft, Attempting
<1>5. /\ inbound \in Seq(Acks \cup {"event"}) /\ sleepers \in Seq(Consumers)
      /\ dialled \in 0..MaxConns /\ writeTx \in Conns \cup {NoConn}
      /\ sentOn \in [Requests -> Conns \cup {NoConn}]
  BY <1>1 DEF Init
<1>6. TypeOK
  BY <1>2, <1>3, <1>5 DEF Init, TypeOK, PCs
<1> QED
  BY <1>4, <1>6 DEF TypeInv

LEMMA CallStepType ==
  ASSUME TypeInv, NEW c \in Calls, CallStep(c)
  PROVE  TypeInv'
<1> USE DEF linkVars, reqVars, queueVars, dialVars
<1>1. ASSUME NEW o \in Ops, Start(c, o) PROVE TypeInv'
  <2>1. Entry[o] \in {"check", "reTx", "closeTx"} /\ MaxRetries \in Nat \ {0}
    BY TransportAssumption DEF Entry
  <2>2. pc' \in [Calls \cup Conns -> PCs]
    BY <1>1, <2>1, StepKeepsType DEF Start, TypeInv, PCs, CallSteps
  <2>3. /\ tries' \in [Calls -> 0..MaxRetries]
        /\ tries' = [tries EXCEPT ![c] = tries'[c]] /\ tries'[c] > 0
    BY <1>1, <2>1 DEF Start, TypeInv, TypeOK
  <2>4. AttemptsLeft'
    BY <1>1, <2>3 DEF Start, Step, AttemptsLeft, TypeInv, TypeOK
  <2> QED
    BY <1>1, <2>2, <2>3, <2>4 DEF Start, TypeInv, TypeOK, PCs
<1>2. CASE DropTx(c)
  <2>1. pc' \in [Calls \cup Conns -> PCs]
    BY <1>2, StepKeepsType DEF DropTx, TypeInv, PCs, CallSteps, MarkSteps
  <2>2. AttemptsLeft'
    BY <1>2, StepKeepsAttempts DEF DropTx, Attempting
  <2> QED
    BY <1>2, <2>1, <2>2 DEF DropTx, TypeInv, TypeOK, PCs
<1>3. CASE ReUp(c) \/ ReWaiters(c) \/ ReInbound(c) \/ Check(c) \/ Publish(c) \/ SetUp(c)
  <2>1. pc' \in [Calls \cup Conns -> PCs]
    BY <1>3, StepKeepsType DEF ReUp, ReWaiters, ReInbound, Check, Publish, SetUp, TypeInv, PCs, CallSteps, Returned
  <2>2. AttemptsLeft'
    BY <1>3, StepKeepsAttempts DEF ReUp, ReWaiters, ReInbound, Check, Publish, SetUp, Attempting
  <2>3. writeTx' \in Conns \cup {NoConn}
    BY <1>3 DEF ReUp, ReWaiters, ReInbound, Check, Publish, SetUp, TypeInv, TypeOK
  <2>4. inbound' \in {inbound, <<>>} /\ waiters' \in {waiters, {}}
    BY <1>3 DEF ReUp, ReWaiters, ReInbound, Check, Publish, SetUp
  <2>5. inbound' \in Seq(Acks \cup {"event"}) /\ waiters' \subseteq Requests
    <3>1. <<>> \in Seq(Acks \cup {"event"})
      OBVIOUS
    <3>2. inbound \in Seq(Acks \cup {"event"}) /\ waiters \subseteq Requests
      BY DEF TypeInv, TypeOK
    <3> QED
      BY <2>4, <3>1, <3>2
  <2> QED
    BY <1>3, <2>1, <2>2, <2>3, <2>5 DEF ReUp, ReWaiters, ReInbound, Check, Publish, SetUp, TypeInv, TypeOK, PCs
<1>4. CASE Dial(c)
  <2>1. pc' \in [Calls \cup Conns -> PCs]
    BY <1>4, StepKeepsType DEF Dial, TypeInv, PCs, CallSteps
  <2>2. AttemptsLeft'
    BY <1>4, StepKeepsAttempts DEF Dial, Attempting
  <2>3. dialled + 1 \in Conns
    BY <1>4, TransportAssumption DEF Dial, TypeInv, TypeOK, Conns
  <2>4. dialled' \in 0..MaxConns /\ conn' \in [Calls -> Conns \cup {NoConn}]
    BY <1>4, <2>3, TransportAssumption DEF Dial, TypeInv, TypeOK, Conns
  <2> QED
    BY <1>4, <2>1, <2>2, <2>4 DEF Dial, TypeInv, TypeOK, PCs
<1>5. CASE AttemptFails(c)
  <2>1. /\ pc' \in [Calls \cup Conns -> PCs]
        /\ tries' \in [Calls -> 0..MaxRetries]
        /\ AttemptsLeft'
    BY <1>5, FailKeepsType DEF AttemptFails, Attempting
  <2> QED
    BY <1>5, <2>1 DEF AttemptFails, Fail, TypeInv, TypeOK, PCs
<1>6. CASE Spawn(c)
  <2>1. pc' \in [Calls \cup Conns -> PCs]
    BY <1>6 DEF Spawn, TypeInv, TypeOK, PCs, CallSteps
  <2>2. AttemptsLeft'
    BY <1>6 DEF Spawn, TypeInv, TypeOK, AttemptsLeft, Attempting
  <2> QED
    BY <1>6, <2>1, <2>2 DEF Spawn, TypeInv, TypeOK, PCs
<1>7. CASE SendInit(c)
  <2>1. pc' \in [Calls \cup Conns -> PCs]
    BY <1>7, StepKeepsType DEF SendInit, TypeInv, PCs, CallSteps
  <2>2. AttemptsLeft'
    BY <1>7, StepKeepsAttempts DEF SendInit, Attempting
  <2>3. /\ eye' \in [Consumers -> {"shut", "queue", "register", "asleep"}]
        /\ contested' \in BOOLEAN
    BY <1>7 DEF SendInit, Open, TypeInv, TypeOK
  <2>4. asked' \subseteq Conns
    BY <1>7 DEF SendInit, TypeInv, TypeOK
  <2> QED
    BY <1>7, <2>1, <2>2, <2>3, <2>4 DEF SendInit, TypeInv, TypeOK, PCs
<1>8. CASE WaitAck(c)
  <2>1. /\ inbound' \in Seq(Acks \cup {"event"}) /\ Head(inbound) \in Acks \cup {"event"}
        /\ eye' \in [Consumers -> {"shut", "queue", "register", "asleep"}]
        /\ handshakeComplete' \in BOOLEAN
    <3>1. /\ inbound # <<>> /\ inbound' = Tail(inbound)
          /\ inbound \in Seq(Acks \cup {"event"})
      BY <1>8 DEF WaitAck, TypeInv, TypeOK
    <3>2. handshakeComplete' = (handshakeComplete \/ Head(inbound) = "ready")
      BY <1>8 DEF WaitAck
    <3>3. eye' = [eye EXCEPT ![c] = IF Head(inbound) \in Acks THEN "shut" ELSE @]
      BY <1>8 DEF WaitAck
    <3>4. inbound' \in Seq(Acks \cup {"event"}) /\ Head(inbound) \in Acks \cup {"event"}
      BY <3>1
    <3>5. eye' \in [Consumers -> {"shut", "queue", "register", "asleep"}]
      BY <3>3 DEF TypeInv, TypeOK
    <3>6. handshakeComplete' \in BOOLEAN
      BY <3>2 DEF TypeInv, TypeOK
    <3> QED
      BY <3>4, <3>5, <3>6
  <2>2. /\ pc' \in [Calls \cup Conns -> PCs]
        /\ tries' \in [Calls -> 0..MaxRetries]
        /\ AttemptsLeft'
        /\ UNCHANGED <<conn, dialled, asked>>
    <3>1. CASE Head(inbound) = "ready"
      <4>1. Step(c, "ack", "ok") /\ UNCHANGED dialVars
        BY <1>8, <3>1 DEF WaitAck
      <4> QED
        BY <4>1, StepKeepsType, StepKeepsAttempts
           DEF TypeInv, TypeOK, PCs, CallSteps, Returned, Attempting
    <3>2. CASE Head(inbound) = "notReady"
      <4>1. Step(c, "ack", "init") /\ UNCHANGED dialVars
        BY <1>8, <3>2 DEF WaitAck
      <4> QED
        BY <4>1, StepKeepsType, StepKeepsAttempts
           DEF TypeInv, TypeOK, PCs, CallSteps, Attempting
    <3>3. CASE Head(inbound) = "refused"
      <4>1. Fail(c) /\ UNCHANGED asked
        BY <1>8, <3>3 DEF WaitAck
      <4> QED
        BY <1>8, <4>1, FailKeepsType DEF WaitAck, Attempting, Fail
    <3>4. CASE Head(inbound) = "event"
      <4>1. UNCHANGED <<pc, dialVars>>
        BY <1>8, <3>4 DEF WaitAck
      <4> QED
        BY <4>1 DEF TypeInv, TypeOK, PCs, AttemptsLeft
    <3> QED
      BY <2>1, <3>1, <3>2, <3>3, <3>4 DEF Acks
  <2> QED
    BY <1>8, <2>1, <2>2 DEF WaitAck, TypeInv, TypeOK, PCs
<1>9. CASE AckTimesOut(c)
  <2>1. /\ pc' \in [Calls \cup Conns -> PCs]
        /\ tries' \in [Calls -> 0..MaxRetries]
        /\ AttemptsLeft'
    BY <1>9, FailKeepsType DEF AckTimesOut, Attempting
  <2>2. sleepers' \in Seq(Consumers)
    BY <1>9, DeregisterKeepsType DEF AckTimesOut, TypeInv, TypeOK
  <2> QED
    BY <1>9, <2>1, <2>2 DEF AckTimesOut, Fail, TypeInv, TypeOK, PCs
<1>10. CASE ReadTimesOut(c)
  <2>1. sleepers' \in Seq(Consumers)
    BY <1>10, DeregisterKeepsType DEF ReadTimesOut, TypeInv
  <2> QED
    BY <1>10, <2>1 DEF ReadTimesOut, TypeInv, TypeOK, AttemptsLeft
<1> QED
  BY <1>1, <1>2, <1>3, <1>4, <1>5, <1>6, <1>7, <1>8, <1>9, <1>10 DEF CallStep

LEMMA ReaderStepType ==
  ASSUME TypeInv, NEW g \in Conns, ReaderStep(g)
  PROVE  TypeInv'
<1> USE DEF linkVars, reqVars, queueVars, dialVars
<1>1. ASSUME NEW kind \in Acks \cup {"event"}, RouteFrame(g, kind) PROVE TypeInv'
  <2>1. pc' \in [Calls \cup Conns -> PCs] /\ AttemptsLeft'
    BY <1>1, StepKeepsType, StepKeepsAttempts
       DEF RouteFrame, TypeInv, PCs, Attempting
  <2>2. asked' \subseteq Conns /\ inbound' \in Seq(Acks \cup {"event"})
    BY <1>1 DEF RouteFrame, TypeInv, TypeOK
  <2> QED
    BY <1>1, <2>1, <2>2 DEF RouteFrame, TypeInv, TypeOK, PCs
<1>2. ASSUME NEW r \in Requests, RouteAnswer(g, r) PROVE TypeInv'
  BY <1>2 DEF RouteAnswer, TypeInv, TypeOK, AttemptsLeft
<1>3. CASE Notify(g)
  <2>1. pc' \in [Calls \cup Conns -> PCs] /\ AttemptsLeft'
    BY <1>3, StepKeepsType, StepKeepsAttempts
       DEF Notify, TypeInv, PCs, Attempting
  <2>2. sleepers' \in Seq(Consumers) /\ permit' \in BOOLEAN
    <3>1. CASE sleepers = <<>>
      BY <1>3, <3>1 DEF Notify, NotifyOne, TypeInv, TypeOK
    <3>2. CASE sleepers # <<>>
      <4>1. sleepers' = Tail(sleepers) /\ UNCHANGED permit
        BY <1>3, <3>2 DEF Notify, NotifyOne
      <4> QED
        BY <3>2, <4>1 DEF TypeInv, TypeOK
    <3> QED
      BY <3>1, <3>2
  <2> QED
    BY <1>3, <2>1, <2>2 DEF Notify, TypeInv, TypeOK, PCs
<1>4. CASE EndReader(g)
  <2>1. pc' \in [Calls \cup Conns -> PCs] /\ AttemptsLeft'
    BY <1>4, StepKeepsType, StepKeepsAttempts
       DEF EndReader, TypeInv, PCs, MarkSteps, Attempting
  <2> QED
    BY <1>4, <2>1 DEF EndReader, TypeInv, TypeOK, PCs
<1> QED
  BY <1>1, <1>2, <1>3, <1>4 DEF ReaderStep

LEMMA MarkStepType ==
  ASSUME TypeInv, NEW p, MarkStep(p)
  PROVE  TypeInv'
<1> USE DEF linkVars, reqVars, queueVars, dialVars
<1>1. pc' \in [Calls \cup Conns -> PCs] /\ AttemptsLeft'
  BY StepKeepsType, StepKeepsAttempts
     DEF MarkStep, MarkUp, MarkTx, MarkWaiters, MarkWake, TypeInv, PCs,
         MarkSteps, Attempting
<1>2. sleepers' \in Seq(Consumers) /\ disconnectCause' \in {"none", "clean", "unclean"}
  <2>1. CASE MarkWake(p)
    BY <2>1 DEF MarkWake, NotifyWaiters, TypeInv, TypeOK
  <2>2. CASE MarkTx(p)
    BY <2>2 DEF MarkTx, TypeInv, TypeOK
  <2>3. CASE MarkUp(p) \/ MarkWaiters(p)
    BY <2>3 DEF MarkUp, MarkWaiters, TypeInv, TypeOK
  <2> QED
    BY <2>1, <2>2, <2>3 DEF MarkStep
<1> QED
  BY <1>1, <1>2
     DEF MarkStep, MarkUp, MarkTx, MarkWaiters, MarkWake, NotifyWaiters,
         TypeInv, TypeOK, PCs, NoConn

LEMMA RequestStepType ==
  ASSUME TypeInv, NEW r \in Requests, RequestStep(r)
  PROVE  TypeInv'
<1> USE DEF linkVars, reqVars, queueVars, dialVars
<1>1. /\ req' \in [Requests -> {"idle", "send", "sent", "undo", "over"}]
      /\ waiters' \subseteq Requests
      /\ sentOn' \in [Requests -> Conns \cup {NoConn}]
  BY DEF RequestStep, InsertWaiter, SendRequest, SendFails, Return, ReqStep,
         TypeInv, TypeOK
<1> QED
  BY <1>1 DEF RequestStep, InsertWaiter, SendRequest, SendFails, Return,
              TypeInv, TypeOK, AttemptsLeft

LEMMA AppStepType ==
  ASSUME TypeInv, NEW k \in Apps, AppStep(k)
  PROVE  TypeInv'
<1>1. /\ eye' \in [Consumers -> {"shut", "queue", "register", "asleep"}]
      /\ contested' \in BOOLEAN
      /\ inbound' \in Seq(Acks \cup {"event"})
  <2>1. CASE Subscribe(k)
    BY <2>1 DEF Subscribe, Open, TypeInv, TypeOK
  <2>2. CASE Forward(k)
    <3>1. inbound # <<>> /\ inbound' = Tail(inbound)
      BY <2>2 DEF Forward
    <3>2. inbound' \in Seq(Acks \cup {"event"})
      BY <3>1 DEF TypeInv, TypeOK
    <3> QED
      BY <2>2, <3>2 DEF Forward, TypeInv, TypeOK
  <2> QED
    BY <2>1, <2>2 DEF AppStep
<1> QED
  BY <1>1 DEF AppStep, Subscribe, Forward, TypeInv, TypeOK, AttemptsLeft,
              linkVars, reqVars, dialVars

LEMMA ConsumerStepType ==
  ASSUME TypeInv, NEW k \in Consumers, ConsumerStep(k)
  PROVE  TypeInv'
<1>1. /\ eye' \in [Consumers -> {"shut", "queue", "register", "asleep"}]
      /\ permit' \in BOOLEAN
      /\ sleepers' \in Seq(Consumers)
  <2>1. CASE FindNothing(k)
    BY <2>1 DEF FindNothing, TypeInv, TypeOK
  <2>2. CASE Register(k)
    <3>1. Append(sleepers, k) \in Seq(Consumers)
      BY DEF TypeInv, TypeOK
    <3> QED
      BY <2>2, <3>1 DEF Register, TypeInv, TypeOK
  <2>3. CASE WakeUp(k)
    BY <2>3 DEF WakeUp, TypeInv, TypeOK
  <2> QED
    BY <2>1, <2>2, <2>3 DEF ConsumerStep
<1> QED
  BY <1>1 DEF ConsumerStep, FindNothing, Register, WakeUp, TypeInv, TypeOK,
              AttemptsLeft, linkVars, reqVars, dialVars

LEMMA StepType == TypeInv /\ [Next]_vars => TypeInv'
<1>1. TypeInv /\ UNCHANGED vars => TypeInv'
  BY DEF TypeInv, TypeOK, AttemptsLeft, vars, linkVars, reqVars, queueVars,
         dialVars
<1> QED
  BY <1>1, StepCases, CallStepType, ReaderStepType, MarkStepType,
     RequestStepType, AppStepType, ConsumerStepType

LEMMA TypeInvHolds == Spec => []TypeInv
BY InitType, StepType, PTL DEF Spec

(* The client, its requests, its queue and everyone who uses them keep      *)
(* their types.                                                             *)
THEOREM TypeCorrect == Spec => []TypeOK
<1>1. TypeInv => TypeOK
  BY DEF TypeInv
<1> QED
  BY <1>1, TypeInvHolds, PTL

-----------------------------------------------------------------------------
(* Who moves, and where to.                                                 *)

Dialling == {"publish", "setUp", "spawn"}

LEMMA CallsAreNoConns == \A c \in Calls, g \in Conns : c # g
BY TransportAssumption

LEMMA CallMoves ==
  ASSUME TypeInv, NEW c \in Calls, CallStep(c), ~Spawn(c)
  PROVE  /\ \A p \in Calls \cup Conns : p # c => pc'[p] = pc[p]
         /\ Dial(c) \/ UNCHANGED <<conn, dialled>>
         /\ Dial(c) \/ (pc'[c] \in Dialling => pc[c] \in Dialling)
<1>1. ASSUME NEW from, NEW to, Step(c, from, to)
      PROVE  /\ \A p \in Calls \cup Conns : p # c => pc'[p] = pc[p]
             /\ pc[c] = from /\ pc'[c] = to
  BY <1>1 DEF Step, TypeInv, TypeOK
<1>2. ASSUME Fail(c)
      PROVE  /\ \A p \in Calls \cup Conns : p # c => pc'[p] = pc[p]
             /\ pc'[c] \notin Dialling
             /\ UNCHANGED <<conn, dialled>>
  BY <1>2 DEF Fail, TypeInv, TypeOK, Dialling
<1>3. ASSUME NEW o \in Ops, Start(c, o)
      PROVE  /\ \A p \in Calls \cup Conns : p # c => pc'[p] = pc[p]
             /\ UNCHANGED <<conn, dialled>> /\ pc'[c] \notin Dialling
  <2>1. Entry[o] \notin Dialling
    BY TransportAssumption DEF Entry, Dialling
  <2> QED
    BY <1>1, <1>3, <2>1 DEF Start
<1>4. CASE Dial(c)
  BY <1>1, <1>4 DEF Dial
<1>5. CASE DropTx(c) \/ ReUp(c) \/ ReWaiters(c) \/ ReInbound(c) \/ Check(c)
           \/ Publish(c) \/ SetUp(c) \/ SendInit(c)
  <2>1. UNCHANGED <<conn, dialled>>
    BY <1>5 DEF DropTx, ReUp, ReWaiters, ReInbound, Check, Publish, SetUp,
                SendInit, dialVars
  <2>2. \/ Step(c, "reTx", "reUp") \/ Step(c, "closeTx", "markUp")
        \/ Step(c, "reUp", "reWaiters") \/ Step(c, "reWaiters", "reInbound")
        \/ Step(c, "reInbound", "check") \/ Step(c, "check", "ok")
        \/ Step(c, "check", "dial") \/ Step(c, "publish", "setUp")
        \/ Step(c, "setUp", "spawn") \/ Step(c, "init", "ack")
    BY <1>5 DEF DropTx, ReUp, ReWaiters, ReInbound, Check, Publish, SetUp,
                SendInit
  <2> QED
    BY <1>1, <2>1, <2>2 DEF Dialling
<1>6. CASE WaitAck(c)
  <2>1. Step(c, "ack", "ok") \/ Step(c, "ack", "init") \/ Fail(c) \/ UNCHANGED pc
    BY <1>6 DEF WaitAck
  <2>2. UNCHANGED <<conn, dialled>>
    BY <1>6 DEF WaitAck, dialVars, Fail
  <2> QED
    BY <1>1, <1>2, <2>1, <2>2 DEF Dialling
<1>7. CASE AttemptFails(c) \/ AckTimesOut(c)
  BY <1>2, <1>7 DEF AttemptFails, AckTimesOut
<1>8. CASE ReadTimesOut(c)
  BY <1>8 DEF ReadTimesOut, dialVars
<1> QED
  BY <1>3, <1>4, <1>5, <1>6, <1>7, <1>8 DEF CallStep

LEMMA ReaderMoves ==
  ASSUME TypeInv, NEW g \in Conns, ReaderStep(g)
  PROVE  /\ \A p \in Calls \cup Conns : p # g => pc'[p] = pc[p]
         /\ pc[g] \in {"reading", "notify"}
         /\ pc'[g] \in {"reading", "notify", "markUp"}
         /\ UNCHANGED <<linkVars, conn, dialled>>
BY DEF ReaderStep, RouteFrame, RouteAnswer, Notify, EndReader, Step, TypeInv,
       TypeOK, dialVars

LEMMA MarkMoves ==
  ASSUME TypeInv, NEW p \in Calls \cup Conns, MarkStep(p)
  PROVE  /\ \A o \in Calls \cup Conns : o # p => pc'[o] = pc[o]
         /\ pc[p] \in {"markUp", "markTx", "markWaiters", "markWake"}
         /\ pc'[p] \in MarkSteps
         /\ UNCHANGED <<conn, dialled, handshakeComplete>>
BY DEF MarkStep, MarkUp, MarkTx, MarkWaiters, MarkWake, Step, TypeInv, TypeOK,
       dialVars, linkVars, MarkSteps

LEMMA OthersStay ==
  ASSUME \/ \E r \in Requests : RequestStep(r)
         \/ \E k \in Apps : AppStep(k)
         \/ \E k \in Consumers : ConsumerStep(k)
         \/ UNCHANGED vars
  PROVE  UNCHANGED <<linkVars, pc, dialVars>>
BY DEF RequestStep, InsertWaiter, SendRequest, SendFails, Return, AppStep,
       Subscribe, Forward, ConsumerStep, FindNothing, Register, WakeUp, vars

-----------------------------------------------------------------------------
(* What is true of the connections dialled.                                 *)

(* A call publishes a connection of its own, without a reader as yet, and   *)
(* those not dialled have none either.                                      *)
CallConn ==
  \A c \in Calls :
    pc[c] \in Dialling => conn[c] \in Conns /\ pc[conn[c]] = "none"

OwnConn ==
  \A c, d \in Calls :
    pc[c] \in Dialling /\ pc[d] \in Dialling /\ conn[c] = conn[d] => c = d

DialledConns ==
  /\ \A c \in Calls : conn[c] <= dialled
  /\ \A g \in Conns : dialled < g => pc[g] = "none"

DialInv == CallConn /\ OwnConn /\ DialledConns

(* Whoever moves without dialling, and is not a connection that has no      *)
(* reader yet, keeps it.                                                    *)
LEMMA MovesKeepDialInv ==
  ASSUME TypeInv, DialInv, NEW p \in Calls \cup Conns,
         \A o \in Calls \cup Conns : o # p => pc'[o] = pc[o],
         UNCHANGED <<conn, dialled>>,
         p \in Calls => (pc'[p] \in Dialling => pc[p] \in Dialling),
         p \in Conns => pc[p] # "none"
  PROVE  DialInv'
<1>1. \A c \in Calls : pc'[c] \in Dialling => pc[c] \in Dialling
  OBVIOUS
<1>2. \A g \in Conns : pc[g] = "none" => pc'[g] = "none"
  BY CallsAreNoConns
<1>3. CallConn'
  BY <1>1, <1>2 DEF DialInv, CallConn
<1>4. OwnConn'
  BY <1>1 DEF DialInv, OwnConn
<1>5. DialledConns'
  BY <1>2 DEF DialInv, DialledConns
<1> QED
  BY <1>3, <1>4, <1>5 DEF DialInv

LEMMA InitDialInv == Init => DialInv
BY CallsAreNoConns
   DEF Init, DialInv, CallConn, OwnConn, DialledConns, Dialling, NoConn

LEMMA StepDialInv == TypeInv /\ DialInv /\ [Next]_vars => DialInv'
<1> SUFFICES ASSUME TypeInv, DialInv, [Next]_vars PROVE DialInv'
  OBVIOUS
<1>1. ASSUME NEW c \in Calls, Dial(c) PROVE DialInv'
  <2>1. /\ \A d \in Calls : conn[d] \in Nat /\ conn[d] <= dialled
        /\ dialled \in Nat /\ dialled < MaxConns /\ MaxConns \in Nat
    BY <1>1, TransportAssumption
       DEF Dial, TypeInv, TypeOK, DialInv, DialledConns, Conns, NoConn
  <2>2. /\ dialled' = dialled + 1
        /\ conn'[c] = dialled + 1
        /\ \A d \in Calls : d # c => conn'[d] = conn[d]
        /\ pc[c] = "dial" /\ pc'[c] = "publish"
        /\ \A p \in Calls \cup Conns : p # c => pc'[p] = pc[p]
    BY <1>1 DEF Dial, Step, TypeInv, TypeOK
  <2>3. dialled + 1 \in Conns /\ pc[dialled + 1] = "none"
    BY <2>1 DEF Conns, DialInv, DialledConns
  <2>4. CallConn'
    BY <2>2, <2>3, CallsAreNoConns DEF DialInv, CallConn
  <2>5. OwnConn'
    BY <2>1, <2>2 DEF DialInv, OwnConn, Dialling
  <2>6. \A g \in Conns : dialled + 1 < g => pc[g] = "none" /\ g # c
    BY <2>1, CallsAreNoConns DEF DialInv, DialledConns, Conns
  <2>7. DialledConns'
    BY <2>1, <2>2, <2>6 DEF DialInv, DialledConns
  <2> QED
    BY <2>4, <2>5, <2>7 DEF DialInv
<1>2. ASSUME NEW c \in Calls, Spawn(c) PROVE DialInv'
  <2>1. pc[c] = "spawn" /\ c # conn[c] /\ conn[c] \in Conns /\ conn[c] <= dialled
    BY <1>2, CallsAreNoConns
       DEF Spawn, DialInv, CallConn, DialledConns, Dialling
  <2>2. /\ pc'[c] = "init" /\ pc'[conn[c]] = "reading"
        /\ \A p \in Calls \cup Conns : p # c /\ p # conn[c] => pc'[p] = pc[p]
        /\ UNCHANGED <<conn, dialled>>
    BY <1>2, <2>1 DEF Spawn, TypeInv, TypeOK, dialVars
  <2>3. \A d \in Calls : pc'[d] \in Dialling => pc[d] \in Dialling /\ conn[d] # conn[c]
    BY <2>1, <2>2, CallsAreNoConns DEF DialInv, OwnConn, Dialling
  <2>4. CallConn'
    BY <2>2, <2>3, CallsAreNoConns DEF DialInv, CallConn
  <2>5. OwnConn'
    BY <2>2, <2>3 DEF DialInv, OwnConn
  <2>6. dialled \in Nat /\ \A g \in Conns : g \in Nat
    BY TransportAssumption DEF TypeInv, TypeOK, Conns
  <2>7. DialledConns'
    BY <2>1, <2>2, <2>6, CallsAreNoConns DEF DialInv, DialledConns
  <2> QED
    BY <2>4, <2>5, <2>7 DEF DialInv
<1>3. ASSUME NEW c \in Calls, CallStep(c), ~Spawn(c), ~Dial(c) PROVE DialInv'
  BY <1>3, CallMoves, CallsAreNoConns, MovesKeepDialInv
<1>4. ASSUME NEW g \in Conns, ReaderStep(g) PROVE DialInv'
  BY <1>4, ReaderMoves, CallsAreNoConns, MovesKeepDialInv
<1>5. ASSUME NEW p \in Calls \cup Conns, MarkStep(p) PROVE DialInv'
  <2>1. pc'[p] \notin Dialling /\ pc[p] # "none"
    BY <1>5, MarkMoves DEF MarkSteps, Dialling
  <2> QED
    BY <1>5, <2>1, MarkMoves, MovesKeepDialInv
<1>6. ASSUME UNCHANGED <<pc, conn, dialled>> PROVE DialInv'
  BY <1>6 DEF DialInv, CallConn, OwnConn, DialledConns
<1> QED
  BY <1>1, <1>2, <1>3, <1>4, <1>5, <1>6, StepCases, OthersStay DEF dialVars

-----------------------------------------------------------------------------
(* Waiters.                                                                 *)

(* The sender in write_tx is that of a connection whose reader has still to *)
(* take it away, and then to fail the waiters.                              *)
WriterHasReader ==
  writeTx # NoConn =>
    pc[writeTx] \in {"none", "reading", "notify", "markUp", "markTx"}

SentOnAConn == \A r \in Requests : req[r] = "sent" => sentOn[r] \in Conns

WaiterInv == WriterHasReader /\ SentOnAConn /\ NoStrandedWaiter

(* A call moves no reader, but for the one it starts.                       *)
LEMMA CallLeavesReaders ==
  ASSUME TypeInv, DialInv, NEW c \in Calls, CallStep(c), NEW g \in Conns,
         pc[g] # "none"
  PROVE  pc'[g] = pc[g]
<1>1. CASE Spawn(c)
  BY <1>1, CallsAreNoConns
     DEF Spawn, TypeInv, TypeOK, DialInv, CallConn, Dialling
<1>2. CASE ~Spawn(c)
  BY <1>2, CallMoves, CallsAreNoConns
<1> QED
  BY <1>1, <1>2

LEMMA StepWaiterInv ==
  ASSUME TypeInv, DialInv, WaiterInv, [Next]_vars
  PROVE  WaiterInv'
<1> USE DEF WaiterInv
<1>1. ASSUME NEW c \in Calls, CallStep(c) PROVE WaiterInv'
  <2>1. UNCHANGED <<req, sentOn>> /\ waiters' \subseteq waiters
    BY <1>1
       DEF CallStep, Start, DropTx, ReUp, ReWaiters, ReInbound, Check, Dial,
           AttemptFails, Publish, SetUp, Spawn, SendInit, WaitAck,
           AckTimesOut, ReadTimesOut, reqVars
  <2>2. writeTx' \in {NoConn, writeTx} \/ Publish(c)
    BY <1>1
       DEF CallStep, Start, DropTx, ReUp, ReWaiters, ReInbound, Check, Dial,
           AttemptFails, SetUp, Spawn, SendInit, WaitAck,
           AckTimesOut, ReadTimesOut, linkVars
  <2>3. SentOnAConn'
    BY <2>1 DEF SentOnAConn
  <2>4. NoStrandedWaiter'
    <3> SUFFICES ASSUME NEW r \in waiters, req[r] = "sent"
                 PROVE  pc'[sentOn[r]] \notin {"markWake", "done"}
      BY <2>1 DEF NoStrandedWaiter
    <3>1. /\ r \in Requests /\ sentOn[r] \in Conns
          /\ pc[sentOn[r]] \notin {"markWake", "done"}
      BY DEF SentOnAConn, NoStrandedWaiter, TypeInv, TypeOK
    <3>2. CASE pc[sentOn[r]] # "none"
      BY <1>1, <3>1, <3>2, CallLeavesReaders
    <3>3. CASE pc[sentOn[r]] = "none"
      <4>1. CASE Spawn(c)
        BY <3>1, <3>3, <4>1, CallsAreNoConns DEF Spawn, TypeInv, TypeOK
      <4>2. CASE ~Spawn(c)
        BY <1>1, <3>1, <3>3, <4>2, CallMoves, CallsAreNoConns
      <4> QED
        BY <4>1, <4>2
    <3> QED
      BY <3>2, <3>3
  <2>5. WriterHasReader'
    <3> SUFFICES ASSUME writeTx' # NoConn
                 PROVE  pc'[writeTx'] \in {"none", "reading", "notify", "markUp", "markTx"}
      BY DEF WriterHasReader
    <3>1. CASE Publish(c)
      <4>1. writeTx' = conn[c] /\ conn[c] \in Conns /\ pc[conn[c]] = "none" /\ ~Spawn(c)
        BY <3>1 DEF Publish, Step, DialInv, CallConn, Dialling, Spawn
      <4> QED
        BY <1>1, <4>1, CallMoves, CallsAreNoConns
    <3>2. CASE writeTx' = writeTx
      <4>1. /\ writeTx \in Conns
            /\ pc[writeTx] \in {"none", "reading", "notify", "markUp", "markTx"}
        BY <3>2 DEF WriterHasReader, TypeInv, TypeOK
      <4>2. CASE Spawn(c)
        BY <3>2, <4>1, <4>2, CallsAreNoConns DEF Spawn, TypeInv, TypeOK
      <4>3. CASE ~Spawn(c)
        BY <1>1, <3>2, <4>1, <4>3, CallMoves, CallsAreNoConns
      <4> QED
        BY <4>2, <4>3
    <3> QED
      BY <2>2, <3>1, <3>2
  <2> QED
    BY <2>3, <2>4, <2>5
<1>2. ASSUME NEW g \in Conns, ReaderStep(g) PROVE WaiterInv'
  <2>1. UNCHANGED <<req, sentOn, writeTx>> /\ waiters' \subseteq waiters
    BY <1>2 DEF ReaderStep, RouteFrame, RouteAnswer, Notify, EndReader, linkVars,
                reqVars
  <2>2. /\ \A h \in Conns : h # g => pc'[h] = pc[h]
        /\ pc'[g] \in {"reading", "notify", "markUp"}
    BY <1>2, ReaderMoves
  <2>3. WriterHasReader'
    BY <2>1, <2>2 DEF WriterHasReader, TypeInv, TypeOK
  <2>4. SentOnAConn'
    BY <2>1 DEF SentOnAConn
  <2>5. NoStrandedWaiter'
    BY <2>1, <2>2 DEF NoStrandedWaiter, SentOnAConn, TypeInv, TypeOK
  <2> QED
    BY <2>3, <2>4, <2>5
<1>3. ASSUME NEW p \in Calls \cup Conns, MarkStep(p) PROVE WaiterInv'
  <2>1. /\ UNCHANGED <<req, sentOn>> /\ waiters' \subseteq waiters
        /\ pc[p] = "markWaiters" => waiters' = {}
        /\ writeTx' \in {NoConn, writeTx} /\ (pc[p] = "markTx" => writeTx' = NoConn)
        /\ pc'[p] \in {"markTx", "markWaiters", "markWake", "done"}
        /\ pc[p] = "markUp" => pc'[p] = "markTx"
        /\ pc[p] = "markTx" => pc'[p] = "markWaiters"
    BY <1>3 DEF MarkStep, MarkUp, MarkTx, MarkWaiters, MarkWake, Step, linkVars,
                reqVars, TypeInv, TypeOK
  <2>2. /\ \A o \in Calls \cup Conns : o # p => pc'[o] = pc[o]
        /\ pc[p] \in {"markUp", "markTx", "markWaiters", "markWake"}
    BY <1>3, MarkMoves
  <2>3. WriterHasReader'
    BY <2>1, <2>2 DEF WriterHasReader, TypeInv, TypeOK
  <2>4. SentOnAConn'
    BY <2>1 DEF SentOnAConn
  <2>5. NoStrandedWaiter'
    <3> SUFFICES ASSUME NEW r \in waiters', req[r] = "sent"
                 PROVE  pc'[sentOn[r]] \notin {"markWake", "done"}
      BY <2>1 DEF NoStrandedWaiter
    <3>1. /\ r \in waiters /\ sentOn[r] \in Conns
          /\ pc[sentOn[r]] \notin {"markWake", "done"}
      BY <2>1 DEF SentOnAConn, NoStrandedWaiter, TypeInv, TypeOK
    <3> QED
      BY <2>1, <2>2, <3>1
  <2> QED
    BY <2>3, <2>4, <2>5
<1>4. ASSUME NEW r \in Requests, RequestStep(r) PROVE WaiterInv'
  <2>1. UNCHANGED <<pc, writeTx>>
    BY <1>4, OthersStay DEF linkVars
  <2>2. \A q \in Requests : q # r =>
          /\ req'[q] = req[q] /\ sentOn'[q] = sentOn[q]
          /\ q \in waiters' => q \in waiters
    BY <1>4 DEF RequestStep, InsertWaiter, SendRequest, SendFails, Return,
                ReqStep, TypeInv, TypeOK
  <2>3. \/ req'[r] # "sent"
        \/ sentOn'[r] = writeTx /\ writeTx # NoConn
    BY <1>4 DEF RequestStep, InsertWaiter, SendRequest, SendFails, Return,
                ReqStep, TypeInv, TypeOK
  <2>4. WriterHasReader'
    BY <2>1 DEF WriterHasReader
  <2>5. SentOnAConn'
    BY <2>2, <2>3 DEF SentOnAConn, TypeInv, TypeOK
  <2>6. waiters' \subseteq Requests
    BY <1>4, RequestStepType DEF TypeInv, TypeOK
  <2>7. NoStrandedWaiter'
    BY <2>1, <2>2, <2>3, <2>6 DEF NoStrandedWaiter, WriterHasReader
  <2> QED
    BY <2>4, <2>5, <2>7
<1>5. ASSUME NEW k \in Apps \cup Consumers, AppStep(k) \/ ConsumerStep(k) PROVE WaiterInv'
  BY <1>5 DEF AppStep, Subscribe, Forward, ConsumerStep, FindNothing, Register,
              WakeUp, linkVars, reqVars, WriterHasReader, SentOnAConn,
              NoStrandedWaiter
<1>6. CASE UNCHANGED vars
  BY <1>6 DEF vars, linkVars, reqVars, WriterHasReader, SentOnAConn,
              NoStrandedWaiter
<1> QED
  BY <1>1, <1>2, <1>3, <1>4, <1>5, <1>6, StepCases

(* What the two properties below rest on, but for WaiterInv.                *)
LEMMA DialInvHolds == Spec => [](TypeInv /\ DialInv)
BY InitType, StepType, InitDialInv, StepDialInv, PTL DEF Spec

(* No request that went out waits for an answer on a connection whose       *)
(* reader has already failed the pending requests.                          *)
THEOREM WaitersAreServed == Spec => []NoStrandedWaiter
<1>1. Init => WaiterInv
  BY DEF Init, WaiterInv, WriterHasReader, SentOnAConn, NoStrandedWaiter
<1>2. TypeInv /\ DialInv /\ WaiterInv /\ [Next]_vars => WaiterInv'
  BY StepWaiterInv
<1>3. WaiterInv => NoStrandedWaiter
  BY DEF WaiterInv
<1> QED
  BY DialInvHolds, <1>1, <1>2, <1>3, PTL DEF Spec

-----------------------------------------------------------------------------
(* Readers that are left.                                                   *)

LEMMA StepReaderIsLeft ==
  ASSUME TypeInv, DialInv, UpMeansAReaderIsLeft, [Next]_vars
  PROVE  UpMeansAReaderIsLeft'
<1> USE DEF UpMeansAReaderIsLeft
<1>1. ASSUME NEW c \in Calls, CallStep(c) PROVE UpMeansAReaderIsLeft'
  <2>1. CASE Publish(c)
    <3>1. pc'[c] = "setUp"
      BY <2>1 DEF Publish, Step, TypeInv, TypeOK
    <3> QED
      BY <3>1 DEF ReaderIsLeft
  <2>2. CASE SetUp(c)
    <3>1. pc'[c] = "spawn"
      BY <2>2 DEF SetUp, Step, TypeInv, TypeOK
    <3> QED
      BY <3>1 DEF ReaderIsLeft
  <2>3. CASE Spawn(c)
    <3>1. conn[c] \in Conns /\ pc'[conn[c]] = "reading"
      BY <2>3 DEF Spawn, TypeInv, TypeOK, DialInv, CallConn, Dialling
    <3> QED
      BY <3>1 DEF ReaderIsLeft
  <2>4. CASE ReadTimesOut(c)
    BY <2>4 DEF ReadTimesOut, ReaderIsLeft, linkVars
  <2>5. CASE ~(Publish(c) \/ SetUp(c) \/ Spawn(c) \/ ReadTimesOut(c))
    <3>1. /\ writeTx' \in {NoConn, writeTx}
          /\ up' \in {FALSE, up}
      BY <1>1, <2>5
         DEF CallStep, Start, DropTx, ReUp, ReWaiters, ReInbound, Check, Dial,
             AttemptFails, SendInit, WaitAck, AckTimesOut, linkVars
    <3>2. pc[c] \notin {"setUp", "spawn"}
      BY <1>1, <2>5
         DEF CallStep, Start, DropTx, ReUp, ReWaiters, ReInbound, Check, Dial,
             AttemptFails, SendInit, WaitAck, Step, AckTimesOut
    <3>3. \A p \in Calls \cup Conns : p # c => pc'[p] = pc[p]
      BY <1>1, <2>5, CallMoves
    <3>4. \A p \in Calls \cup Conns :
            p \in Conns \/ pc[p] \in {"setUp", "spawn"} => pc'[p] = pc[p]
      BY <3>2, <3>3, CallsAreNoConns
    <3>5. /\ ReaderIsLeft({}) => ReaderIsLeft({})'
          /\ ReaderIsLeft({"markTx"}) => ReaderIsLeft({"markTx"})'
      BY <3>4 DEF ReaderIsLeft
    <3>6. writeTx' # NoConn => writeTx # NoConn
      BY <3>1
    <3>7. up' => up
      BY <3>1, Zenon
    <3> QED
      BY <3>5, <3>6, <3>7
  <2> QED
    BY <2>1, <2>2, <2>3, <2>4, <2>5
<1>2. ASSUME NEW g \in Conns, ReaderStep(g) PROVE UpMeansAReaderIsLeft'
  BY <1>2, ReaderMoves, CallsAreNoConns DEF ReaderIsLeft, linkVars
<1>3. ASSUME NEW p \in Calls \cup Conns, MarkStep(p) PROVE UpMeansAReaderIsLeft'
  <2>1. \A o \in Calls \cup Conns : o # p => pc'[o] = pc[o]
    BY <1>3, MarkMoves
  <2>2. CASE MarkUp(p)
    <3>1. ~up' /\ writeTx' = writeTx /\ pc[p] = "markUp" /\ pc'[p] = "markTx"
      BY <2>2 DEF MarkUp, Step, TypeInv, TypeOK
    <3> QED
      BY <2>1, <3>1 DEF ReaderIsLeft
  <2>3. CASE MarkTx(p)
    <3>1. writeTx' = NoConn /\ up' = up /\ pc[p] = "markTx"
      BY <2>3 DEF MarkTx, Step
    <3> QED
      BY <2>1, <3>1 DEF ReaderIsLeft
  <2>4. CASE MarkWaiters(p) \/ MarkWake(p)
    <3>1. writeTx' = writeTx /\ up' = up /\ pc[p] \in {"markWaiters", "markWake"}
      BY <2>4 DEF MarkWaiters, MarkWake, Step, linkVars
    <3> QED
      BY <2>1, <3>1 DEF ReaderIsLeft
  <2> QED
    BY <1>3, <2>2, <2>3, <2>4 DEF MarkStep
<1>4. ASSUME UNCHANGED <<linkVars, pc, dialVars>> PROVE UpMeansAReaderIsLeft'
  BY <1>4 DEF ReaderIsLeft, linkVars
<1> QED
  BY <1>1, <1>2, <1>3, <1>4, StepCases, OthersStay

(* The client is never up, and never keeps a sender, without a reader that  *)
(* will still mark it down.                                                 *)
THEOREM ReaderAlwaysLeft == Spec => []UpMeansAReaderIsLeft
<1>1. Init => UpMeansAReaderIsLeft
  BY DEF Init, UpMeansAReaderIsLeft
<1>2. TypeInv /\ DialInv /\ UpMeansAReaderIsLeft /\ [Next]_vars
        => UpMeansAReaderIsLeft'
  BY StepReaderIsLeft
<1> QED
  BY DialInvHolds, <1>1, <1>2, PTL DEF Spec

-----------------------------------------------------------------------------
(* Wake-ups.                                                                *)

(* A call uses the queue only while it waits for its ack; who is registered *)
(* sleeps, and is registered once.                                          *)
CallsReadInAck == \A c \in Calls : eye[c] # "shut" => pc[c] = "ack"

SleepersSleep == \A i \in 1..Len(sleepers) : eye[sleepers[i]] = "asleep"

SleepOnce ==
  \A i, j \in 1..Len(sleepers) : sleepers[i] = sleepers[j] => i = j

OneUser ==
  ~contested =>
    \A k, o \in Consumers : eye[k] # "shut" /\ eye[o] # "shut" => k = o

(* A consumer about to register with a frame pending finds a permit, or is  *)
(* notified later.                                                          *)
RegistersInTime ==
  ~contested /\ inbound # <<>> /\ (\E k \in Consumers : eye[k] = "register")
    => permit \/ \E g \in Conns : pc[g] = "notify"

WakeInv ==
  /\ CallsReadInAck /\ SleepersSleep /\ SleepOnce
  /\ OneUser /\ RegistersInTime /\ NoLostWakeUp

(* Who is taken out was registered, and is so no longer; the others stay.   *)
LEMMA DeregisterTakesOut ==
  ASSUME TypeInv, SleepersSleep, SleepOnce, NEW c, Deregister(c)
  PROVE  /\ eye[c] = "asleep" /\ sleepers # <<>>
         /\ \A i \in 1..Len(sleepers') : sleepers'[i] # c
         /\ \A i \in 1..Len(sleepers') : \E j \in 1..Len(sleepers) : sleepers'[i] = sleepers[j]
         /\ SleepOnce'
<1>1. PICK i \in 1..Len(sleepers) : sleepers[i] = c /\ sleepers' = RemoveAt(sleepers, i)
  BY DEF Deregister
<1>2. sleepers \in Seq(Consumers)
  BY DEF TypeInv, TypeOK
<1>5. /\ Len(sleepers') = Len(sleepers) - 1
      /\ \A j \in 1..Len(sleepers') :
           sleepers'[j] = IF j < i THEN sleepers[j] ELSE sleepers[j + 1]
  BY <1>1, <1>2, RemoveAtProperties
<1>6. Len(sleepers) \in Nat
  BY <1>2
<1>7. \A j \in 1..Len(sleepers') :
        /\ (IF j < i THEN j ELSE j + 1) \in 1..Len(sleepers)
        /\ (IF j < i THEN j ELSE j + 1) # i
        /\ sleepers'[j] = sleepers[IF j < i THEN j ELSE j + 1]
  BY <1>1, <1>5, <1>6
<1>8. \A j \in 1..Len(sleepers') : sleepers'[j] # c
  BY <1>1, <1>7 DEF SleepOnce
<1>9. SleepOnce'
  <2> SUFFICES ASSUME NEW j \in 1..Len(sleepers'), NEW k \in 1..Len(sleepers'),
                      sleepers'[j] = sleepers'[k]
               PROVE  j = k
    BY DEF SleepOnce
  <2>1. (IF j < i THEN j ELSE j + 1) = (IF k < i THEN k ELSE k + 1)
    BY <1>7 DEF SleepOnce
  <2> QED
    BY <2>1, <1>1
<1>10. eye[c] = "asleep" /\ sleepers # <<>>
  BY <1>1, <1>2 DEF SleepersSleep
<1> QED
  BY <1>7, <1>8, <1>9, <1>10

(* Who opens its loop on the queue finds it in nobody else's use, or        *)
(* contests it.                                                             *)
LEMMA OpenKeepsWakeInv ==
  ASSUME TypeInv, WakeInv, NEW k \in Consumers, eye[k] = "shut", Open(k),
         UNCHANGED sleepers, CallsReadInAck'
  PROVE  WakeInv'
<1>1. /\ contested' = (contested \/ \E o \in Consumers : eye[o] # "shut")
      /\ eye'[k] = "queue"
      /\ \A o \in Consumers : o # k => eye'[o] = eye[o]
  BY DEF Open, TypeInv, TypeOK
<1>2. sleepers \in Seq(Consumers)
  BY DEF TypeInv, TypeOK
<1>3. \A i \in 1..Len(sleepers) :
        sleepers[i] \in Consumers /\ sleepers[i] # k /\ eye[sleepers[i]] # "shut"
  BY <1>2 DEF WakeInv, SleepersSleep
<1>4. SleepersSleep'
  BY <1>1, <1>3 DEF WakeInv, SleepersSleep
<1>5. SleepOnce'
  BY DEF WakeInv, SleepOnce
<1>6. ~contested' => \A o \in Consumers : eye[o] = "shut"
  BY <1>1
<1>7. OneUser'
  BY <1>1, <1>6 DEF OneUser
<1>8. RegistersInTime'
  BY <1>1, <1>6 DEF RegistersInTime
<1>9. ~contested' => sleepers = <<>>
  BY <1>2, <1>3, <1>6
<1>10. NoLostWakeUp'
  BY <1>9 DEF NoLostWakeUp
<1> QED
  BY <1>4, <1>5, <1>7, <1>8, <1>10 DEF WakeInv

(* A step that adds no frame, no consumer, no registration and takes no     *)
(* notification away.                                                       *)
LEMMA LessKeepsWakeInv ==
  ASSUME TypeInv, WakeInv,
         inbound' # <<>> => inbound # <<>>,
         contested' = contested, permit' = permit,
         \A o \in Consumers : eye'[o] # "shut" => eye[o] # "shut",
         \A o \in Consumers : eye'[o] = "register" => eye[o] = "register",
         \A g \in Conns : pc[g] = "notify" => pc'[g] = "notify",
         sleepers' # <<>> => sleepers # <<>>,
         CallsReadInAck', SleepersSleep', SleepOnce'
  PROVE  WakeInv'
<1>1. OneUser'
  BY DEF WakeInv, OneUser
<1>2. RegistersInTime'
  BY DEF WakeInv, RegistersInTime
<1>3. NoLostWakeUp'
  BY DEF WakeInv, NoLostWakeUp
<1> QED
  BY <1>1, <1>2, <1>3 DEF WakeInv

LEMMA CallStepWakeInv ==
  ASSUME TypeInv, DialInv, WakeInv, NEW c \in Calls, CallStep(c)
  PROVE  WakeInv'
<1>1. \A g \in Conns : pc[g] = "notify" => pc'[g] = "notify"
  BY CallLeavesReaders
<1>2. CASE SendInit(c)
  <2>1. pc[c] = "init" /\ pc'[c] = "ack" /\ \A d \in Calls : d # c => pc'[d] = pc[d]
    BY <1>2 DEF SendInit, Step, TypeInv, TypeOK
  <2>2. eye[c] = "shut" /\ c \in Consumers
    BY <2>1 DEF WakeInv, CallsReadInAck, Consumers
  <2>3. /\ Open(c) /\ UNCHANGED sleepers
        /\ \A d \in Calls : d # c => eye'[d] = eye[d]
    BY <1>2 DEF SendInit, Open, TypeInv, TypeOK, Consumers
  <2>4. CallsReadInAck'
    BY <2>1, <2>3 DEF WakeInv, CallsReadInAck
  <2> QED
    BY <2>2, <2>3, <2>4, OpenKeepsWakeInv
<1>3. CASE WaitAck(c)
  <2>1. /\ inbound # <<>> /\ eye[c] = "queue" /\ c \in Consumers
        /\ UNCHANGED <<sleepers, permit, contested>>
        /\ eye' = [eye EXCEPT ![c] = IF Head(inbound) \in Acks THEN "shut" ELSE @]
    BY <1>3 DEF WaitAck, Consumers
  <2>2. \A d \in Calls : d # c => pc'[d] = pc[d]
    BY <1>3, CallMoves DEF WaitAck, Spawn
  <2>3. pc[c] = "ack" /\ (Head(inbound) \notin Acks => UNCHANGED pc)
    BY <1>3 DEF WaitAck, Acks
  <2>4. /\ eye'[c] \in {"shut", "queue"} /\ (eye'[c] # "shut" => UNCHANGED pc)
        /\ \A o \in Consumers : o # c => eye'[o] = eye[o]
    BY <2>1, <2>3 DEF TypeInv, TypeOK
  <2>5. CallsReadInAck'
    BY <2>2, <2>3, <2>4 DEF WakeInv, CallsReadInAck, Consumers
  <2>6. \A i \in 1..Len(sleepers) : sleepers[i] \in Consumers /\ sleepers[i] # c
    BY <2>1 DEF WakeInv, SleepersSleep, TypeInv, TypeOK
  <2>7. SleepersSleep' /\ SleepOnce'
    BY <2>1, <2>4, <2>6 DEF WakeInv, SleepersSleep, SleepOnce
  <2> QED
    BY <1>1, <2>1, <2>4, <2>5, <2>7, LessKeepsWakeInv
<1>4. CASE AckTimesOut(c)
  <2>1. /\ pc[c] = "ack" /\ eye' = [eye EXCEPT ![c] = "shut"] /\ c \in Consumers
        /\ UNCHANGED <<inbound, permit, contested>>
        /\ (eye[c] = "queue" /\ UNCHANGED sleepers) \/ Deregister(c)
    BY <1>4 DEF AckTimesOut, Consumers
  <2>2. \A d \in Calls : d # c => pc'[d] = pc[d]
    BY <1>4, CallMoves DEF AckTimesOut, Spawn
  <2>3. eye'[c] = "shut" /\ \A o \in Consumers : o # c => eye'[o] = eye[o]
    BY <2>1 DEF TypeInv, TypeOK
  <2>4. CallsReadInAck'
    BY <2>2, <2>3 DEF WakeInv, CallsReadInAck, Consumers
  <2>5. SleepersSleep' /\ SleepOnce' /\ (sleepers' # <<>> => sleepers # <<>>)
    <3>1. CASE eye[c] = "queue" /\ UNCHANGED sleepers
      <4>1. \A i \in 1..Len(sleepers) : sleepers[i] \in Consumers /\ sleepers[i] # c
        BY <3>1 DEF WakeInv, SleepersSleep, TypeInv, TypeOK
      <4> QED
        BY <2>3, <3>1, <4>1 DEF WakeInv, SleepersSleep, SleepOnce
    <3>2. CASE Deregister(c)
      BY <2>3, <3>2, DeregisterTakesOut DEF WakeInv, SleepersSleep, TypeInv, TypeOK
    <3> QED
      BY <2>1, <3>1, <3>2
  <2> QED
    BY <1>1, <2>1, <2>3, <2>4, <2>5, LessKeepsWakeInv
<1>5. CASE ReadTimesOut(c)
  <2>1. /\ Deregister(c) /\ eye' = [eye EXCEPT ![c] = "queue"] /\ c \in Consumers
        /\ UNCHANGED <<inbound, permit, contested, pc>>
    BY <1>5 DEF ReadTimesOut, Consumers
  <2>2. eye'[c] = "queue" /\ \A o \in Consumers : o # c => eye'[o] = eye[o]
    BY <2>1 DEF TypeInv, TypeOK
  <2>3. /\ eye[c] = "asleep" /\ sleepers # <<>>
        /\ SleepersSleep' /\ SleepOnce'
    BY <2>1, <2>2, DeregisterTakesOut DEF WakeInv, SleepersSleep, TypeInv, TypeOK
  <2>4. CallsReadInAck'
    BY <2>1, <2>2, <2>3 DEF WakeInv, CallsReadInAck, Consumers
  <2> QED
    BY <2>1, <2>2, <2>3, <2>4, LessKeepsWakeInv
<1>6. CASE ~(SendInit(c) \/ WaitAck(c) \/ AckTimesOut(c) \/ ReadTimesOut(c))
  <2>1. /\ UNCHANGED <<eye, permit, sleepers, contested>>
        /\ inbound' \in {inbound, <<>>}
    BY <1>6
       DEF CallStep, Start, DropTx, ReUp, ReWaiters, ReInbound, Check, Dial,
           AttemptFails, Publish, SetUp, Spawn, queueVars
  <2>2. pc[c] # "ack"
    BY <1>6
       DEF CallStep, Start, DropTx, ReUp, ReWaiters, ReInbound, Check, Dial,
           AttemptFails, Publish, SetUp, Spawn, Step
  <2>3. \A d \in Calls : d # c => pc'[d] = pc[d]
    <3>1. CASE Spawn(c)
      BY <2>2, <3>1, CallsAreNoConns
         DEF Spawn, TypeInv, TypeOK, DialInv, CallConn, Dialling
    <3> QED
      BY <3>1, CallMoves
  <2>4. CallsReadInAck'
    BY <2>1, <2>2, <2>3 DEF WakeInv, CallsReadInAck
  <2>5. SleepersSleep' /\ SleepOnce'
    BY <2>1 DEF WakeInv, SleepersSleep, SleepOnce
  <2> QED
    BY <1>1, <2>1, <2>4, <2>5, LessKeepsWakeInv
<1> QED
  BY <1>2, <1>3, <1>4, <1>5, <1>6

LEMMA ReaderStepWakeInv ==
  ASSUME TypeInv, WakeInv, NEW g \in Conns, ReaderStep(g)
  PROVE  WakeInv'
<1>1. UNCHANGED <<eye, contested>>
  BY DEF ReaderStep, RouteFrame, RouteAnswer, Notify, EndReader, queueVars
<1>2. CallsReadInAck'
  BY <1>1, ReaderMoves, CallsAreNoConns DEF WakeInv, CallsReadInAck
<1>3. OneUser'
  BY <1>1 DEF WakeInv, OneUser
<1>4. ASSUME NEW kind \in Acks \cup {"event"}, RouteFrame(g, kind) PROVE WakeInv'
  <2>1. UNCHANGED sleepers /\ pc'[g] = "notify"
    BY <1>4 DEF RouteFrame, Step, TypeInv, TypeOK
  <2> QED
    BY <1>1, <1>2, <1>3, <2>1
       DEF WakeInv, SleepersSleep, SleepOnce, RegistersInTime, NoLostWakeUp
<1>5. CASE Notify(g)
  <2>1. UNCHANGED inbound /\ NotifyOne /\ sleepers \in Seq(Consumers)
    BY <1>5 DEF Notify, TypeInv, TypeOK
  <2>2. CASE sleepers = <<>>
    <3>1. permit' = TRUE /\ sleepers' = <<>>
      BY <2>1, <2>2 DEF NotifyOne
    <3> QED
      BY <1>2, <1>3, <3>1
         DEF WakeInv, SleepersSleep, SleepOnce, RegistersInTime, NoLostWakeUp
  <2>3. CASE sleepers # <<>>
    <3>1. sleepers' = Tail(sleepers)
      BY <2>1, <2>3 DEF NotifyOne
    <3>2. /\ Len(sleepers) \in Nat \ {0}
          /\ Len(Tail(sleepers)) = Len(sleepers) - 1
          /\ \A i \in 1..(Len(sleepers) - 1) : Tail(sleepers)[i] = sleepers[i + 1]
          /\ Tail(sleepers) \in Seq(Consumers)
      BY <2>1, <2>3
    <3>3. SleepersSleep' /\ SleepOnce'
      BY <1>1, <3>1, <3>2 DEF WakeInv, SleepersSleep, SleepOnce
    <3>4. ~contested => \A o \in Consumers : eye[o] # "register"
      BY <2>1, <3>2 DEF WakeInv, SleepersSleep, OneUser
    <3>5. ~contested => Tail(sleepers) = <<>>
      <4> SUFFICES ASSUME ~contested PROVE ~(Len(sleepers) > 1)
        BY <3>2
      <4>1. Len(sleepers) > 1 => sleepers[1] = sleepers[2]
        BY <2>1, <3>2 DEF WakeInv, SleepersSleep, OneUser
      <4> QED
        BY <3>2, <4>1 DEF WakeInv, SleepOnce
    <3> QED
      BY <1>1, <1>2, <1>3, <3>1, <3>3, <3>4, <3>5
         DEF WakeInv, RegistersInTime, NoLostWakeUp
  <2> QED
    BY <2>2, <2>3
<1>6. CASE EndReader(g) \/ \E r \in Requests : RouteAnswer(g, r)
  <2>1. /\ UNCHANGED <<inbound, permit, sleepers>> /\ pc[g] = "reading"
        /\ \A h \in Conns : h # g => pc'[h] = pc[h]
    BY <1>6, ReaderMoves DEF EndReader, RouteAnswer, Step, queueVars
  <2> QED
    BY <1>1, <1>2, <2>1, LessKeepsWakeInv DEF WakeInv, SleepersSleep, SleepOnce
<1> QED
  BY <1>4, <1>5, <1>6 DEF ReaderStep

LEMMA MarkStepWakeInv ==
  ASSUME TypeInv, WakeInv, NEW p \in Calls \cup Conns, MarkStep(p)
  PROVE  WakeInv'
<1>1. /\ UNCHANGED <<inbound, eye, permit, contested>>
      /\ sleepers' \in {sleepers, <<>>}
  BY DEF MarkStep, MarkUp, MarkTx, MarkWaiters, MarkWake, NotifyWaiters,
         queueVars
<1>2. /\ \A o \in Calls \cup Conns : o # p => pc'[o] = pc[o]
      /\ pc[p] \notin {"ack", "notify"}
  BY MarkMoves
<1>3. CallsReadInAck'
  BY <1>1, <1>2 DEF WakeInv, CallsReadInAck
<1>4. SleepersSleep' /\ SleepOnce'
  BY <1>1 DEF WakeInv, SleepersSleep, SleepOnce
<1> QED
  BY <1>1, <1>2, <1>3, <1>4, LessKeepsWakeInv

LEMMA AppStepWakeInv ==
  ASSUME TypeInv, WakeInv, NEW k \in Apps, AppStep(k)
  PROVE  WakeInv'
<1>1. k \in Consumers /\ k \notin Calls /\ UNCHANGED <<pc, sleepers, permit>>
  BY TransportAssumption DEF Consumers, AppStep, Subscribe, Forward
<1>2. \A o \in Consumers : o # k => eye'[o] = eye[o]
  BY DEF AppStep, Subscribe, Forward, Open, TypeInv, TypeOK
<1>3. CallsReadInAck'
  BY <1>1, <1>2 DEF WakeInv, CallsReadInAck, Consumers
<1>4. CASE Subscribe(k)
  BY <1>1, <1>3, <1>4, OpenKeepsWakeInv DEF Subscribe
<1>5. CASE Forward(k)
  <2>1. /\ eye[k] = "queue" /\ eye'[k] \in {"queue", "shut"} /\ inbound # <<>>
        /\ UNCHANGED contested
    BY <1>1, <1>5 DEF Forward, TypeInv, TypeOK
  <2>2. \A i \in 1..Len(sleepers) : sleepers[i] \in Consumers /\ sleepers[i] # k
    BY <2>1 DEF WakeInv, SleepersSleep, TypeInv, TypeOK
  <2>3. SleepersSleep' /\ SleepOnce'
    BY <1>1, <1>2, <2>2 DEF WakeInv, SleepersSleep, SleepOnce
  <2> QED
    BY <1>1, <1>2, <1>3, <2>1, <2>3, LessKeepsWakeInv
<1> QED
  BY <1>4, <1>5 DEF AppStep

LEMMA ConsumerStepWakeInv ==
  ASSUME TypeInv, WakeInv, NEW k \in Consumers, ConsumerStep(k)
  PROVE  WakeInv'
<1>1. UNCHANGED <<inbound, contested, pc>>
  BY DEF ConsumerStep, FindNothing, Register, WakeUp
<1>2. eye[k] # "shut" /\ \A o \in Consumers : o # k => eye'[o] = eye[o]
  BY DEF ConsumerStep, FindNothing, Register, WakeUp, TypeInv, TypeOK
<1>3. CallsReadInAck'
  BY <1>1, <1>2 DEF WakeInv, CallsReadInAck, Consumers
<1>4. OneUser'
  BY <1>1, <1>2 DEF WakeInv, OneUser
<1>5. CASE FindNothing(k)
  <2>1. inbound = <<>> /\ eye[k] = "queue" /\ UNCHANGED <<permit, sleepers>>
    BY <1>5 DEF FindNothing
  <2>2. \A i \in 1..Len(sleepers) : sleepers[i] \in Consumers /\ sleepers[i] # k
    BY <2>1 DEF WakeInv, SleepersSleep, TypeInv, TypeOK
  <2>3. SleepersSleep' /\ SleepOnce'
    BY <1>2, <2>1, <2>2 DEF WakeInv, SleepersSleep, SleepOnce
  <2> QED
    BY <1>1, <1>3, <1>4, <2>1, <2>3 DEF WakeInv, RegistersInTime, NoLostWakeUp
<1>6. CASE Register(k)
  <2>1. eye[k] = "register" /\ sleepers \in Seq(Consumers)
    BY <1>6 DEF Register, TypeInv, TypeOK
  <2>2. ~contested => \A o \in Consumers : eye'[o] # "register"
    BY <1>2, <1>6, <2>1 DEF WakeInv, OneUser, Register, TypeInv, TypeOK
  <2>3. RegistersInTime'
    BY <1>1, <2>2 DEF RegistersInTime
  <2>4. \A i \in 1..Len(sleepers) : sleepers[i] \in Consumers /\ sleepers[i] # k
    BY <2>1 DEF WakeInv, SleepersSleep
  <2>5. CASE permit
    <3>1. UNCHANGED sleepers
      BY <1>6, <2>5 DEF Register
    <3> QED
      BY <1>1, <1>2, <1>3, <1>4, <2>3, <2>4, <3>1
         DEF WakeInv, SleepersSleep, SleepOnce, NoLostWakeUp
  <2>6. CASE ~permit
    <3>1. sleepers' = Append(sleepers, k) /\ eye'[k] = "asleep"
      BY <1>6, <2>6 DEF Register, TypeInv, TypeOK
    <3>2. /\ Len(sleepers') = Len(sleepers) + 1 /\ Len(sleepers) \in Nat
          /\ sleepers'[Len(sleepers) + 1] = k
          /\ \A i \in 1..Len(sleepers) : sleepers'[i] = sleepers[i]
      BY <2>1, <3>1
    <3>3. SleepersSleep'
      BY <1>2, <2>4, <3>1, <3>2 DEF WakeInv, SleepersSleep
    <3>4. SleepOnce'
      BY <2>4, <3>2 DEF WakeInv, SleepOnce
    <3>5. NoLostWakeUp'
      BY <1>1, <2>1, <2>6 DEF WakeInv, RegistersInTime, NoLostWakeUp
    <3> QED
      BY <1>3, <1>4, <2>3, <3>3, <3>4, <3>5 DEF WakeInv
  <2> QED
    BY <2>5, <2>6
<1>7. CASE WakeUp(k)
  <2>1. /\ eye'[k] = "queue" /\ UNCHANGED <<permit, sleepers>>
        /\ \A i \in 1..Len(sleepers) : sleepers[i] \in Consumers /\ sleepers[i] # k
    BY <1>7 DEF WakeUp, Contains, TypeInv, TypeOK
  <2>2. SleepersSleep' /\ SleepOnce'
    BY <1>2, <2>1 DEF WakeInv, SleepersSleep, SleepOnce
  <2> QED
    BY <1>1, <1>2, <1>3, <2>1, <2>2, LessKeepsWakeInv
<1> QED
  BY <1>5, <1>6, <1>7 DEF ConsumerStep

LEMMA StepWakeInv == TypeInv /\ DialInv /\ WakeInv /\ [Next]_vars => WakeInv'
<1>1. WakeInv /\ UNCHANGED <<queueVars, pc>> => WakeInv'
  BY DEF WakeInv, CallsReadInAck, SleepersSleep, SleepOnce, OneUser,
         RegistersInTime, NoLostWakeUp, queueVars
<1>2. ASSUME NEW r \in Requests, RequestStep(r) PROVE UNCHANGED <<queueVars, pc>>
  BY <1>2 DEF RequestStep, InsertWaiter, SendRequest, SendFails, Return
<1> QED
  BY <1>1, <1>2, StepCases, CallStepWakeInv, ReaderStepWakeInv,
     MarkStepWakeInv, AppStepWakeInv, ConsumerStepWakeInv DEF vars

(* As long as one consumer at a time uses the queue it is not left asleep   *)
(* with a frame pending and nobody about to wake it.                        *)
THEOREM WakeUpsArrive == Spec => []NoLostWakeUp
<1>1. Init => WakeInv
  BY DEF Init, WakeInv, CallsReadInAck, SleepersSleep, SleepOnce, OneUser,
         RegistersInTime, NoLostWakeUp, Consumers
<1>2. WakeInv => NoLostWakeUp
  BY DEF WakeInv
<1> QED
  BY DialInvHolds, StepWakeInv, <1>1, <1>2, PTL DEF Spec

=============================================================================
