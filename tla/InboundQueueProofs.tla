-------------------------- MODULE InboundQueueProofs --------------------------
(***************************************************************************)
(* Theorems about InboundQueue for any requests, caps and bounds.           *)
(***************************************************************************)
EXTENDS InboundQueue, SequenceLemmas

Entries == [id : 1..MaxFrames, frame : Frames]

(* A step that puts a frame into the queue, or serves its waiter.           *)
EnqueueStep(f) == RouteAnswer(f) \/ RouteEvent(f) \/ push_pending_event(f)

-----------------------------------------------------------------------------
(* Frames, their priorities, and what becomes of the queue.                 *)

LEMMA FrameFacts ==
  ASSUME NEW e \in Entries
  PROVE  /\ e.frame \in Frames /\ e.id \in 1..MaxFrames
         /\ e.frame.kind \in Kinds
         /\ e.frame.rpc \in Rpcs \cup {NoRpc}
         /\ Priority(e) \in {CRITICAL, HIGH, NORMAL}
         /\ inbound_needs_delivery_ack(e.frame) => Priority(e) = CRITICAL
<1>1. e.frame \in Frames /\ e.id \in 1..MaxFrames
  BY DEF Entries
<1>2. e.frame.kind \in Kinds /\ e.frame.rpc \in Rpcs \cup {NoRpc}
  BY <1>1, KindsAssumption DEF Frames, Kinds
<1>3. Priority(e) \in {CRITICAL, HIGH, NORMAL}
  BY DEF Priority, inbound_frame_drop_priority
<1>4. inbound_needs_delivery_ack(e.frame) => Priority(e) = CRITICAL
  BY DEF Priority, inbound_frame_drop_priority, inbound_needs_delivery_ack
<1> QED
  BY <1>1, <1>2, <1>3, <1>4

(* The victim of an overflow is a frame of the queue, and none has a larger *)
(* priority number.                                                         *)
LEMMA WorstProperties ==
  ASSUME NEW q \in Seq(Entries), q # <<>>
  PROVE  /\ Worst(q) \in DOMAIN q
         /\ \A j \in DOMAIN q : Priority(q[j]) <= Priority(q[Worst(q)])
<1>1. DOMAIN q = 1..Len(q) /\ Len(q) \in Nat /\ 1 \in DOMAIN q
  OBVIOUS
<1>2. \A j \in DOMAIN q : Priority(q[j]) \in {0, 1, 2}
  BY FrameFacts DEF CRITICAL, HIGH, NORMAL
<1>3. PICK m \in DOMAIN q : \A j \in DOMAIN q : Priority(q[j]) <= Priority(q[m])
  <2>1. CASE \E j \in DOMAIN q : Priority(q[j]) = 2
    <3>1. PICK j \in DOMAIN q : Priority(q[j]) = 2
      BY <2>1
    <3>2. \A i \in DOMAIN q : Priority(q[i]) <= 2
      BY <1>2
    <3> QED
      BY <3>1, <3>2
  <2>2. CASE /\ ~\E j \in DOMAIN q : Priority(q[j]) = 2
             /\ \E j \in DOMAIN q : Priority(q[j]) = 1
    BY <1>2, <2>2
  <2>3. CASE /\ ~\E j \in DOMAIN q : Priority(q[j]) = 2
             /\ ~\E j \in DOMAIN q : Priority(q[j]) = 1
    BY <1>1, <1>2, <2>3
  <2> QED
    BY <2>1, <2>2, <2>3
<1> DEFINE T == {j \in DOMAIN q : Priority(q[j]) = Priority(q[m])}
<1>4. PICK n \in T : \A j \in T : n <= j
  <2>1. T \in SUBSET Nat /\ m \in T
    BY <1>1
  <2> QED
    BY <2>1, LeastNumber
<1>5. n \in DOMAIN q /\ \A j \in DOMAIN q : Priority(q[j]) <= Priority(q[n])
  BY <1>3
<1>6. \A j \in 1..(n - 1) : Priority(q[j]) < Priority(q[n])
  <2> SUFFICES ASSUME NEW j \in 1..(n - 1) PROVE Priority(q[j]) < Priority(q[n])
    OBVIOUS
  <2>1. j \in DOMAIN q /\ j \notin T
    BY <1>1, <1>4, <1>5
  <2>2. Priority(q[j]) # Priority(q[n])
    BY <2>1
  <2> QED
    BY <1>2, <1>5, <2>1, <2>2
<1> QED
  BY <1>5, <1>6 DEF Worst

(* What can become of the queue when a frame comes in: it joins, or joins   *)
(* in another's place, or is not let in.                                    *)
LEMMA EnqueuedCases ==
  ASSUME NEW q \in Seq(Entries), NEW e \in Entries, maxInbound \in Nat
  PROVE  \/ /\ Len(q) < maxInbound \/ maxInbound + Len(q) = 0
            /\ ~Overflows(q, e)
            /\ Enqueued(q, e) = Append(q, e)
         \/ /\ Len(q) >= maxInbound /\ Overflows(q, e)
            /\ \E i \in 1..Len(q) :
                 /\ Enqueued(q, e) = Append(RemoveAt(q, i), e)
                 /\ \/ Priority(q[i]) >= NORMAL
                    \/ ~HasNormal(q) /\ Priority(e) < NORMAL
         \/ /\ Len(q) >= maxInbound /\ Overflows(q, e)
            /\ Enqueued(q, e) = q
<1>1. Len(q) \in Nat /\ DOMAIN q = 1..Len(q) /\ (q = <<>> <=> Len(q) = 0)
  OBVIOUS
<1>2. Priority(e) \in {0, 1, 2} /\ NORMAL = 2
  BY FrameFacts DEF CRITICAL, HIGH, NORMAL
<1>3. CASE Len(q) < maxInbound
  <2>1. ~(Len(q) >= maxInbound)
    BY <1>1, <1>3
  <2>2. Enqueued(q, e) = Append(q, e) /\ ~Overflows(q, e)
    BY <1>3, <2>1 DEF Enqueued, Overflows
  <2> QED
    BY <1>3, <2>2
<1>4. CASE Len(q) >= maxInbound /\ HasNormal(q)
  <2>1. q # <<>>
    BY <1>1, <1>4 DEF HasNormal
  <2>2. /\ Worst(q) \in 1..Len(q)
        /\ \A j \in 1..Len(q) : Priority(q[j]) <= Priority(q[Worst(q)])
    BY <1>1, <2>1, WorstProperties
  <2>3. Priority(q[Worst(q)]) >= NORMAL
    <3>1. \A j \in 1..Len(q) : Priority(q[j]) \in {0, 1, 2}
      BY FrameFacts DEF CRITICAL, HIGH, NORMAL
    <3> QED
      BY <1>1, <1>2, <1>4, <2>2, <3>1 DEF HasNormal
  <2>4. ~(Len(q) < maxInbound)
    BY <1>1, <1>4
  <2>5. Enqueued(q, e) = Append(RemoveAt(q, Worst(q)), e)
    BY <1>4, <2>4 DEF Enqueued
  <2>6. Overflows(q, e)
    BY <1>4, <2>1 DEF Overflows
  <2> QED
    BY <1>4, <2>2, <2>3, <2>5, <2>6
<1>5. CASE Len(q) >= maxInbound /\ ~HasNormal(q) /\ Priority(e) >= NORMAL
  <2>1. ~(Len(q) < maxInbound)
    BY <1>1, <1>5
  <2>2. Enqueued(q, e) = q
    BY <1>5, <2>1 DEF Enqueued
  <2>3. Overflows(q, e)
    BY <1>5 DEF Overflows
  <2> QED
    BY <1>5, <2>2, <2>3
<1>6. CASE Len(q) >= maxInbound /\ ~HasNormal(q) /\ ~(Priority(e) >= NORMAL)
  <2>1. ~(Len(q) < maxInbound)
    BY <1>1, <1>6
  <2>2. Enqueued(q, e) = Append(IF q = <<>> THEN q ELSE Tail(q), e)
    BY <1>6, <2>1 DEF Enqueued
  <2>3. CASE q = <<>>
    BY <1>1, <1>6, <2>2, <2>3 DEF Overflows
  <2>4. CASE q # <<>>
    <3>1. 1 \in 1..Len(q) /\ Enqueued(q, e) = Append(RemoveAt(q, 1), e)
      BY <2>2, <2>4, TailIsRemoveAt
    <3>2. Priority(e) < NORMAL
      BY <1>2, <1>6
    <3> QED
      BY <1>6, <2>4, <3>1, <3>2 DEF Overflows
  <2> QED
    BY <2>3, <2>4
<1> QED
  BY <1>1, <1>3, <1>4, <1>5, <1>6

(* Every frame of the queue was there before, or is the newcomer.           *)
LEMMA EnqueuedElements ==
  ASSUME NEW q \in Seq(Entries), NEW e \in Entries, maxInbound \in Nat
  PROVE  /\ Enqueued(q, e) \in Seq(Entries)
         /\ \A n \in 1..Len(Enqueued(q, e)) :
              \/ Enqueued(q, e)[n] = e
              \/ \E m \in 1..Len(q) : Enqueued(q, e)[n] = q[m]
<1>1. ASSUME NEW i \in 1..Len(q)
      PROVE  /\ RemoveAt(q, i) \in Seq(Entries)
             /\ \A n \in 1..Len(RemoveAt(q, i)) :
                  \E m \in 1..Len(q) : RemoveAt(q, i)[n] = q[m]
  <2>1. /\ RemoveAt(q, i) \in Seq(Entries) /\ Len(RemoveAt(q, i)) = Len(q) - 1
        /\ \A j \in 1..(Len(q) - 1) :
             RemoveAt(q, i)[j] = IF j < i THEN q[j] ELSE q[j + 1]
    BY RemoveAtType, RemoveAtProperties
  <2>2. \A j \in 1..(Len(q) - 1) : j \in 1..Len(q) /\ j + 1 \in 1..Len(q)
    OBVIOUS
  <2> QED
    BY <2>1, <2>2
<1>2. ASSUME NEW s \in Seq(Entries)
      PROVE  /\ Append(s, e) \in Seq(Entries)
             /\ \A n \in 1..Len(Append(s, e)) :
                  \/ Append(s, e)[n] = e
                  \/ n \in 1..Len(s) /\ Append(s, e)[n] = s[n]
  OBVIOUS
<1>3. CASE Enqueued(q, e) = Append(q, e)
  BY <1>2, <1>3
<1>4. ASSUME NEW i \in 1..Len(q), Enqueued(q, e) = Append(RemoveAt(q, i), e)
      PROVE  /\ Enqueued(q, e) \in Seq(Entries)
             /\ \A n \in 1..Len(Enqueued(q, e)) :
                  \/ Enqueued(q, e)[n] = e
                  \/ \E m \in 1..Len(q) : Enqueued(q, e)[n] = q[m]
  BY <1>1, <1>2, <1>4
<1>5. CASE Enqueued(q, e) = q
  BY <1>5
<1> QED
  BY <1>3, <1>4, <1>5, EnqueuedCases

-----------------------------------------------------------------------------
(* Type correctness.                                                        *)

(* What is counted has arrived.                                             *)
Counted ==
  /\ dropped <= arrived
  /\ drops <= dropped
  /\ deliverySeq <= arrived

TypeInv == TypeOK /\ Counted

LEMMA EnqueueKeepsType ==
  ASSUME TypeInv, NEW f \in Frames, enqueue_pending_locked(f)
  PROVE  /\ queue' \in Seq(Entries)
         /\ arrived' = arrived + 1 /\ arrived' \in 1..MaxFrames
         /\ dropped' \in 0..MaxFrames /\ dropped' <= arrived'
         /\ drops' \in 0..MaxFrames /\ drops' <= dropped'
         /\ notified' \in BOOLEAN /\ firing' \in BOOLEAN
         /\ UNCHANGED <<maxInbound, lastRead, forwarded, hook, arming, stale,
                       calls, rearms>>
<1> DEFINE e == [id |-> arrived + 1, frame |-> f]
<1>1. /\ arrived + 1 \in 1..MaxFrames /\ arrived' = arrived + 1
      /\ arrived \in Nat /\ dropped \in Nat /\ drops \in Nat
      /\ MaxFrames \in Nat
  BY InboundAssumption DEF enqueue_pending_locked, TypeInv, TypeOK
<1>2. queue \in Seq(Entries) /\ e \in Entries /\ maxInbound \in Nat
  BY <1>1 DEF Entries, TypeInv, TypeOK
<1>3. queue' = Enqueued(queue, e)
  BY DEF enqueue_pending_locked
<1>4. queue' \in Seq(Entries)
  BY <1>2, <1>3, EnqueuedElements
<1>5. /\ note_inbound_drop \/ UNCHANGED <<dropped, drops, notified, firing>>
      /\ UNCHANGED <<maxInbound, lastRead, forwarded, hook, arming, stale, calls,
                    rearms>>
  BY DEF enqueue_pending_locked
<1>6. CASE note_inbound_drop
  <2>1. dropped' = dropped + 1 /\ drops' = drops + 1
    BY <1>6 DEF note_inbound_drop
  <2>2. notified' = TRUE /\ firing' = ~notified
    BY <1>6 DEF note_inbound_drop
  <2> QED
    BY <1>1, <1>4, <1>5, <2>1, <2>2 DEF TypeInv, Counted
<1>7. CASE UNCHANGED <<dropped, drops, notified, firing>>
  BY <1>1, <1>4, <1>5, <1>7 DEF TypeInv, TypeOK, Counted
<1> QED
  BY <1>5, <1>6, <1>7

(* Every type but those of the frames that come in.                         *)
RpcStates ==
  {"idle", "waiting", "timing", "answered", "lost", "expired", "failed"}

LEMMA EnqueueStepType ==
  ASSUME TypeInv, NEW f \in Frames, EnqueueStep(f)
  PROVE  TypeInv'
<1>0. TypeOK /\ Counted /\ MaxFrames \in Nat
  BY InboundAssumption DEF TypeInv
<1>1. ASSUME enqueue_pending_locked(f), UNCHANGED renewal,
             rpc' \in [Rpcs -> RpcStates], answered' \subseteq Rpcs,
             deliverySeq' \in {deliverySeq, deliverySeq + 1},
             pushed' \in {pushed, arrived'}
      PROVE  TypeInv'
  <2>1. /\ queue' \in Seq(Entries)
        /\ arrived' = arrived + 1 /\ arrived' \in 1..MaxFrames
        /\ dropped' \in 0..MaxFrames /\ dropped' <= arrived'
        /\ drops' \in 0..MaxFrames /\ drops' <= dropped'
        /\ notified' \in BOOLEAN /\ firing' \in BOOLEAN
        /\ UNCHANGED <<maxInbound, lastRead, forwarded, hook, arming, stale,
                      calls, rearms>>
    BY <1>0, <1>1, EnqueueKeepsType
  <2>2. deliverySeq' \in 0..MaxFrames /\ deliverySeq' <= arrived'
    BY <1>0, <1>1, <2>1 DEF TypeOK, Counted
  <2>3. pushed' \in 0..MaxFrames /\ arrived' \in 0..MaxFrames
    BY <1>0, <1>1, <2>1 DEF TypeOK
  <2>4. Counted'
    BY <2>1, <2>2 DEF Counted
  <2>5. TypeOK'
    BY <1>0, <1>1, <2>1, <2>2, <2>3 DEF TypeOK, Entries, RpcStates
  <2> QED
    BY <2>4, <2>5 DEF TypeInv
<1>2. CASE RouteAnswer(f)
  <2>1. /\ f.rpc \in Rpcs /\ answered' \subseteq Rpcs
        /\ UNCHANGED <<deliverySeq, renewal>>
        /\ rpc \in [Rpcs -> RpcStates]
    BY <1>0, <1>2 DEF RouteAnswer, Frames, TypeOK, RpcStates
  <2>2. CASE UNCHANGED <<queueVars, hookVars>>
    <3>1. rpc' \in [Rpcs -> RpcStates]
      BY <1>2, <2>1 DEF RouteAnswer, RpcStates
    <3>2. Counted'
      BY <1>0, <2>1, <2>2 DEF Counted, queueVars, hookVars
    <3>3. TypeOK'
      BY <1>0, <2>1, <2>2, <3>1 DEF TypeOK, RpcStates, queueVars, hookVars
    <3> QED
      BY <3>2, <3>3 DEF TypeInv
  <2>3. CASE enqueue_pending_locked(f) /\ UNCHANGED <<rpc, pushed>>
    BY <1>1, <2>1, <2>3
  <2> QED
    BY <1>2, <2>2, <2>3 DEF RouteAnswer
<1>3. CASE RouteEvent(f) \/ push_pending_event(f)
  <2>1. rpc \in [Rpcs -> RpcStates] /\ answered \subseteq Rpcs
    BY <1>0 DEF TypeOK, RpcStates
  <2> QED
    BY <1>1, <1>3, <2>1 DEF RouteEvent, push_pending_event, rpcVars
<1> QED
  BY <1>2, <1>3 DEF EnqueueStep

LEMMA InitType == Init => TypeInv
<1> SUFFICES ASSUME Init PROVE TypeInv
  OBVIOUS
<1>1. MaxFrames \in Nat /\ MaxRearms \in Nat /\ InitCap \in Nat
  BY InboundAssumption
<1>2. queue \in Seq([id : 1..MaxFrames, frame : Frames])
  BY DEF Init
<1>3. rpc \in [Rpcs -> RpcStates]
  BY DEF Init, RpcStates
<1>4. /\ dropped = 0 /\ arrived = 0 /\ calls = 0 /\ drops = 0 /\ rearms = 0
      /\ arming = 0 /\ pushed = 0 /\ deliverySeq = 0 /\ lastRead = 0 /\ maxInbound \in Nat
  BY <1>1 DEF Init
<1>5. Counted
  BY <1>4 DEF Counted
<1>6. /\ notified \in BOOLEAN /\ hook \in {"none", "set"}
      /\ firing \in BOOLEAN /\ stale \in BOOLEAN
      /\ renewal \in {"none", "waiters", "queue", "hook"}
      /\ answered \subseteq Rpcs /\ forwarded \subseteq Rpcs
  BY DEF Init
<1>7. /\ dropped \in 0..MaxFrames /\ arrived \in 0..MaxFrames
      /\ calls \in Nat /\ arming \in Nat /\ drops \in 0..MaxFrames
      /\ pushed \in 0..MaxFrames /\ rearms \in 0..MaxRearms /\ deliverySeq \in 0..MaxFrames
      /\ lastRead \in 0..MaxFrames
  BY <1>1, <1>4
<1>8. TypeOK
  BY <1>2, <1>3, <1>4, <1>6, <1>7 DEF TypeOK, RpcStates
<1> QED
  BY <1>5, <1>8 DEF TypeInv

LEMMA StepType == TypeInv /\ [Next]_vars => TypeInv'
<1> SUFFICES ASSUME TypeInv, [Next]_vars PROVE TypeInv'
  OBVIOUS
<1>0. /\ TypeOK /\ Counted /\ MaxFrames \in Nat /\ MaxRearms \in Nat
      /\ Caps \subseteq Nat /\ queue \in Seq(Entries)
  BY InboundAssumption DEF TypeInv, TypeOK, Entries
<1>1. ASSUME NEW f \in Frames, EnqueueStep(f) PROVE TypeInv'
  BY <1>1, EnqueueStepType
<1>2. CASE read_event
  <2>1. /\ Head(queue) \in Entries /\ Tail(queue) \in Seq(Entries)
    BY <1>0, <1>2 DEF read_event
  <2>2. Head(queue).id \in 1..MaxFrames /\ Head(queue).frame.rpc \in Rpcs \cup {NoRpc}
    BY <2>1, FrameFacts
  <2> QED
    BY <1>0, <1>2, <2>1, <2>2
       DEF read_event, TypeInv, TypeOK, Counted, hookVars, rpcVars, Entries
<1>3. CASE clear_pending_events \/ ClearQueue
  <2>1. queue' \in Seq(Entries)
    <3>1. queue' = <<>>
      BY <1>3 DEF clear_pending_events, ClearQueue, Discard
    <3> QED
      BY <3>1
  <2> QED
    BY <1>0, <1>3, <2>1
       DEF clear_pending_events, ClearQueue, Discard, TypeInv, TypeOK, Counted,
           hookVars, rpcVars, Entries
<1>4. CASE peel_stale_pending_control_events
  <2>1. queue' \in Seq(Entries)
    BY <1>0, <1>4, KeptProperties DEF peel_stale_pending_control_events, Discard
  <2> QED
    BY <1>0, <1>4, <2>1
       DEF peel_stale_pending_control_events, Discard, TypeInv, TypeOK, Counted,
           hookVars, rpcVars, Entries
<1>5. ASSUME NEW n \in Caps, set_inbound_max_size(n) PROVE TypeInv'
  BY <1>0, <1>5
     DEF set_inbound_max_size, TypeInv, TypeOK, Counted, hookVars, rpcVars
<1>6. CASE BeginReconnect \/ \E cb \in {"none", "set"} : StoreHook(cb)
  <2>1. rearms' \in 0..MaxRearms /\ arming' \in Nat /\ hook' \in {"none", "set"}
    BY <1>0, <1>6 DEF StoreHook, BeginReconnect, TypeOK
  <2>2. renewal' \in {"none", "waiters", "queue", "hook"}
    BY <1>0, <1>6 DEF StoreHook, BeginReconnect, TypeOK
  <2> QED
    BY <1>0, <1>6, <2>1, <2>2
       DEF StoreHook, BeginReconnect, TypeInv, TypeOK, Counted, queueVars, rpcVars
<1>7. CASE ArmHook \/ ClearNotified
  <2>1. /\ calls' = 0 /\ drops' = 0 /\ notified' = FALSE /\ stale' = firing
        /\ UNCHANGED <<queueVars, rpcVars, hook, firing, rearms, deliverySeq>>
    BY <1>7 DEF ArmHook, ClearNotified, Rearm
  <2>2. calls' \in Nat /\ drops' \in 0..MaxFrames
    BY <1>0, <2>1
  <2>3. arming' \in Nat /\ renewal' \in {"none", "waiters", "queue", "hook"}
    BY <1>0, <1>7 DEF ArmHook, ClearNotified, TypeOK
  <2>4. Counted'
    BY <1>0, <2>1 DEF TypeOK, Counted, queueVars
  <2>5. TypeOK'
    BY <1>0, <2>1, <2>2, <2>3 DEF TypeOK, queueVars, rpcVars
  <2> QED
    BY <2>4, <2>5 DEF TypeInv
<1>8. ASSUME NEW r \in Rpcs, NEW from, NEW to \in RpcStates,
             MoveRequest(r, from, to)
      PROVE  TypeInv'
  <2>1. rpc' \in [Rpcs -> RpcStates]
    BY <1>0, <1>8 DEF MoveRequest, TypeOK, RpcStates
  <2> QED
    BY <1>0, <1>8, <2>1
       DEF MoveRequest, TypeInv, TypeOK, Counted, queueVars, hookVars, RpcStates
<1>9. CASE ClearWaiters
  <2>1. rpc' \in [Rpcs -> RpcStates]
    BY <1>0, <1>9 DEF ClearWaiters, TypeOK, RpcStates
  <2> QED
    BY <1>0, <1>9, <2>1
       DEF ClearWaiters, TypeInv, TypeOK, Counted, queueVars, hookVars, RpcStates
<1>10. CASE UNCHANGED vars
  BY <1>0, <1>10
     DEF vars, TypeInv, TypeOK, Counted, queueVars, hookVars, rpcVars
<1>11. CASE FireHook
  <2>1. calls' \in Nat /\ firing' = FALSE
    BY <1>0, <1>11 DEF FireHook, TypeOK
  <2> QED
    BY <1>0, <1>11, <2>1
       DEF FireHook, TypeInv, TypeOK, Counted, queueVars, rpcVars
<1>12. ASSUME NEW r \in Rpcs, request(r) \/ Timeout(r) \/ RemoveWaiter(r)
       PROVE  TypeInv'
  BY <1>8, <1>12 DEF request, Timeout, RemoveWaiter, RpcStates
<1> QED
  BY <1>1, <1>2, <1>3, <1>4, <1>5, <1>6, <1>7, <1>9, <1>10, <1>11, <1>12
     DEF Next, EnqueueStep

LEMMA TypeInvHolds == Spec => []TypeInv
BY InitType, StepType, PTL DEF Spec

(* The queue, its counters, the callback and the requests keep their types. *)
THEOREM TypeCorrect == Spec => []TypeOK
<1>1. TypeInv => TypeOK
  BY DEF TypeInv
<1> QED
  BY <1>1, TypeInvHolds, PTL


-----------------------------------------------------------------------------
(* The stream-degraded callback.                                            *)

(* The flag tells whether anything was dropped since it was reset.          *)
NotifiedAtFirstDrop == notified <=> drops > 0

(* A drop that looks at the callback came after the flag was reset, or was  *)
(* on its way when it was.                                                  *)
FiringHasACause == firing => drops > 0 \/ stale

(* The calls that are due have been made, but for the one on its way.       *)
CallsAreMade ==
  hook = "set" /\ arming = 0 =>
    calls = (IF drops > 0 /\ ~firing THEN 1 ELSE 0)
              + (IF stale /\ ~(firing /\ drops = 0) THEN 1 ELSE 0)

HookInv == NotifiedAtFirstDrop /\ FiringHasACause /\ CallsAreMade

LEMMA InitHook == Init => HookInv
BY DEF Init, HookInv, NotifiedAtFirstDrop, FiringHasACause, CallsAreMade

LEMMA NoteDropKeepsHook ==
  ASSUME TypeInv, HookInv, note_inbound_drop, ~firing,
         UNCHANGED <<hook, arming, stale, calls>>
  PROVE  HookInv'
<1>1. /\ drops \in Nat /\ notified \in BOOLEAN /\ drops' = drops + 1 /\ drops' > 0
      /\ drops' # 0
  BY InboundAssumption DEF TypeInv, TypeOK, note_inbound_drop
<1>2. notified' = TRUE /\ firing' = ~notified
  BY DEF note_inbound_drop
<1>3. NotifiedAtFirstDrop' /\ FiringHasACause'
  BY <1>1, <1>2 DEF NotifiedAtFirstDrop, FiringHasACause
<1>4. CASE drops > 0
  <2>1. notified /\ ~firing'
    BY <1>2, <1>4 DEF HookInv, NotifiedAtFirstDrop
  <2>2. CallsAreMade'
    BY <1>1, <1>4, <2>1 DEF HookInv, CallsAreMade
  <2> QED
    BY <1>3, <2>2 DEF HookInv
<1>5. CASE ~(drops > 0)
  <2>1. ~notified /\ firing'
    BY <1>2, <1>5 DEF HookInv, NotifiedAtFirstDrop
  <2>2. CallsAreMade'
    BY <1>1, <1>5, <2>1 DEF HookInv, CallsAreMade
  <2> QED
    BY <1>3, <2>2 DEF HookInv
<1> QED
  BY <1>4, <1>5

LEMMA FireKeepsHook ==
  ASSUME TypeInv, HookInv, FireHook PROVE HookInv'
<1>1. /\ firing /\ ~firing' /\ drops \in Nat /\ calls \in Nat
      /\ UNCHANGED <<notified, hook, arming, stale, drops>>
      /\ hook = "set" => calls' = calls + 1
  BY InboundAssumption DEF FireHook, TypeInv, TypeOK
<1>2. NotifiedAtFirstDrop' /\ FiringHasACause'
  BY <1>1 DEF HookInv, NotifiedAtFirstDrop, FiringHasACause
<1>3. CASE drops > 0
  <2>1. drops # 0
    BY <1>1, <1>3
  <2> QED
    BY <1>1, <1>2, <1>3, <2>1 DEF HookInv, CallsAreMade
<1>4. CASE ~(drops > 0)
  <2>1. drops = 0 /\ stale
    BY <1>1, <1>4 DEF HookInv, FiringHasACause
  <2> QED
    BY <1>1, <1>2, <2>1 DEF HookInv, CallsAreMade
<1> QED
  BY <1>3, <1>4

LEMMA StepHook == TypeInv /\ HookInv /\ [Next]_vars => HookInv'
<1> SUFFICES ASSUME TypeInv, HookInv, [Next]_vars PROVE HookInv'
  OBVIOUS
<1>1. CASE UNCHANGED hookVars
  BY <1>1
     DEF hookVars, HookInv, NotifiedAtFirstDrop, FiringHasACause, CallsAreMade
<1>2. ASSUME NEW f \in Frames, EnqueueStep(f) PROVE HookInv'
  <2>1. CASE enqueue_pending_locked(f)
    <3>1. CASE note_inbound_drop
      BY <2>1, <3>1, NoteDropKeepsHook DEF enqueue_pending_locked
    <3>2. CASE UNCHANGED <<dropped, drops, notified, firing>>
      BY <1>1, <2>1, <3>2 DEF enqueue_pending_locked, hookVars
    <3> QED
      BY <2>1, <3>1, <3>2 DEF enqueue_pending_locked
  <2> QED
    BY <1>1, <1>2, <2>1 DEF EnqueueStep, RouteAnswer, RouteEvent, push_pending_event
<1>3. CASE \/ read_event
           \/ clear_pending_events
           \/ peel_stale_pending_control_events
           \/ ClearQueue
           \/ ClearWaiters
           \/ \E n \in Caps : set_inbound_max_size(n)
           \/ \E r \in Rpcs : request(r) \/ Timeout(r) \/ RemoveWaiter(r)
           \/ UNCHANGED vars
  BY <1>1, <1>3
     DEF read_event, clear_pending_events, peel_stale_pending_control_events,
         ClearQueue, ClearWaiters, set_inbound_max_size, request, Timeout,
         RemoveWaiter, MoveRequest, Discard, vars
<1>4. CASE BeginReconnect
  BY <1>4
     DEF BeginReconnect, HookInv, NotifiedAtFirstDrop, FiringHasACause, CallsAreMade
<1>5. ASSUME NEW cb \in {"none", "set"}, StoreHook(cb) PROVE HookInv'
  <2>1. arming' # 0 /\ UNCHANGED <<notified, firing, stale, drops>>
    BY <1>5 DEF StoreHook, TypeInv, TypeOK
  <2> QED
    BY <2>1 DEF HookInv, NotifiedAtFirstDrop, FiringHasACause, CallsAreMade
<1>6. CASE ArmHook \/ ClearNotified
  <2>1. /\ notified' = FALSE /\ stale' = firing /\ firing' = firing
        /\ calls' = 0 /\ drops' = 0
    BY <1>6 DEF ArmHook, ClearNotified, Rearm
  <2> QED
    BY <2>1 DEF HookInv, NotifiedAtFirstDrop, FiringHasACause, CallsAreMade
<1>7. CASE FireHook
  BY <1>7, FireKeepsHook
<1> QED
  BY <1>2, <1>3, <1>4, <1>5, <1>6, <1>7 DEF Next, EnqueueStep

(* A callback that is armed was called for the first drop since then and    *)
(* for no other, and once besides if a drop was on its way to the callback  *)
(* when the flag was reset; whatever setters, drops and reconnects race.    *)
THEOREM FirstDropIsReported == Spec => []DropsAreReported
<1>1. HookInv => DropsAreReported
  BY DEF HookInv, CallsAreMade, DropsAreReported
<1> QED
  BY <1>1, InitHook, StepHook, TypeInvHolds, PTL DEF Spec

-----------------------------------------------------------------------------
(* Requests and their answers.                                              *)

(* A request is answered after it was made and while it waits, or later.    *)
AnsweredOnce ==
  \A r \in Rpcs : rpc[r] \in {"idle", "waiting", "timing"} => r \notin answered

(* Only an answer whose waiter had gone is among the events.                *)
LateAnswersAreEvents ==
  \A r \in Rpcs :
    (r \in forwarded \/ \E i \in DOMAIN queue : queue[i].frame.rpc = r) =>
      r \in answered /\ rpc[r] \in {"expired", "failed"}

ServedIsAnswered ==
  \A r \in Rpcs : rpc[r] \in {"answered", "lost"} => r \in answered

(* No two frames of a queue answer the same request.                        *)
Alone(q) ==
  \A i, j \in DOMAIN q :
    q[i].frame.rpc = q[j].frame.rpc /\ q[i].frame.rpc # NoRpc => i = j

ReadOrPending == \A i \in DOMAIN queue : queue[i].frame.rpc \notin forwarded

AnswerInv ==
  /\ AnsweredOnce
  /\ ServedIsAnswered
  /\ LateAnswersAreEvents
  /\ Alone(queue)
  /\ ReadOrPending

LEMMA AloneRemoveAt ==
  ASSUME NEW q \in Seq(Entries), NEW k \in 1..Len(q), Alone(q)
  PROVE  Alone(RemoveAt(q, k))
<1> DEFINE p == RemoveAt(q, k)
<1>1. /\ p \in Seq(Entries) /\ Len(p) = Len(q) - 1 /\ Len(q) \in Nat
      /\ \A j \in 1..(Len(q) - 1) : p[j] = IF j < k THEN q[j] ELSE q[j + 1]
  BY RemoveAtType, RemoveAtProperties
<1> HIDE DEF p
<1>2. DOMAIN p = 1..(Len(q) - 1) /\ DOMAIN q = 1..Len(q) /\ k \in Nat
  BY <1>1
<1>3. \A j \in 1..(Len(q) - 1) : j \in 1..Len(q) /\ j + 1 \in 1..Len(q)
  BY <1>1
<1> SUFFICES ASSUME NEW i \in DOMAIN p, NEW j \in DOMAIN p,
                    p[i].frame.rpc = p[j].frame.rpc, p[i].frame.rpc # NoRpc
             PROVE  i = j
  BY DEF Alone, p
<1>4. CASE i < k /\ j < k
  BY <1>1, <1>2, <1>3, <1>4 DEF Alone
<1>5. CASE i < k /\ ~(j < k)
  <2>1. p[i] = q[i] /\ p[j] = q[j + 1]
    BY <1>1, <1>2, <1>5
  <2>2. i \in DOMAIN q /\ j + 1 \in DOMAIN q
    BY <1>2, <1>3
  <2>3. i = j + 1
    BY <2>1, <2>2 DEF Alone
  <2> QED
    BY <1>2, <1>5, <2>3
<1>6. CASE ~(i < k) /\ j < k
  <2>1. p[i] = q[i + 1] /\ p[j] = q[j]
    BY <1>1, <1>2, <1>6
  <2>2. i + 1 \in DOMAIN q /\ j \in DOMAIN q
    BY <1>2, <1>3
  <2>3. i + 1 = j
    BY <2>1, <2>2 DEF Alone
  <2> QED
    BY <1>2, <1>6, <2>3
<1>7. CASE ~(i < k) /\ ~(j < k)
  <2>1. p[i] = q[i + 1] /\ p[j] = q[j + 1]
    BY <1>1, <1>2, <1>7
  <2>2. i + 1 \in DOMAIN q /\ j + 1 \in DOMAIN q
    BY <1>2, <1>3
  <2>3. i + 1 = j + 1
    BY <2>1, <2>2 DEF Alone
  <2> QED
    BY <1>2, <2>3
<1> QED
  BY <1>4, <1>5, <1>6, <1>7

LEMMA AloneKept ==
  ASSUME NEW q \in Seq(Entries), NEW S \in SUBSET (1..Len(q)), Alone(q)
  PROVE  Alone(Kept(q, S))
<1> DEFINE p == Kept(q, S)
<1>1. /\ p \in Seq(Entries) /\ Len(p) = Cardinality(S) /\ Cardinality(S) \in 0..Len(q)
      /\ \A k \in 1..Cardinality(S) : Nth(S, k) \in S /\ p[k] = q[Nth(S, k)]
      /\ \A k, m \in 1..Cardinality(S) : k < m => Nth(S, k) < Nth(S, m)
  BY KeptProperties
<1> HIDE DEF p
<1>2. DOMAIN p = 1..Cardinality(S) /\ DOMAIN q = 1..Len(q)
  BY <1>1
<1> SUFFICES ASSUME NEW i \in DOMAIN p, NEW j \in DOMAIN p,
                    p[i].frame.rpc = p[j].frame.rpc, p[i].frame.rpc # NoRpc
             PROVE  i = j
  BY DEF Alone, p
<1>3. Nth(S, i) \in 1..Len(q) /\ Nth(S, j) \in 1..Len(q)
  BY <1>1, <1>2
<1>4. Nth(S, i) = Nth(S, j)
  BY <1>1, <1>2, <1>3 DEF Alone
<1>5. ~(i < j) /\ ~(j < i)
  BY <1>1, <1>2, <1>3, <1>4
<1> QED
  BY <1>1, <1>2, <1>5

LEMMA AloneAppend ==
  ASSUME NEW q \in Seq(Entries), NEW e \in Entries, Alone(q),
         e.frame.rpc = NoRpc \/ \A i \in DOMAIN q : q[i].frame.rpc # e.frame.rpc
  PROVE  Alone(Append(q, e))
<1> DEFINE p == Append(q, e)
<1>1. /\ p \in Seq(Entries) /\ Len(p) = Len(q) + 1 /\ p[Len(q) + 1] = e
      /\ Len(q) \in Nat
      /\ \A i \in 1..Len(q) : p[i] = q[i]
  OBVIOUS
<1> HIDE DEF p
<1>2. DOMAIN q = 1..Len(q) /\ \A i \in DOMAIN p : i \in 1..Len(q) \/ i = Len(q) + 1
  BY <1>1
<1>3. \A i, j \in DOMAIN p :
        p[i].frame.rpc = p[j].frame.rpc /\ p[i].frame.rpc # NoRpc => i = j
  BY <1>1, <1>2 DEF Alone
<1> QED
  BY <1>3 DEF Alone, p

LEMMA AloneEnqueued ==
  ASSUME NEW q \in Seq(Entries), NEW e \in Entries, maxInbound \in Nat, Alone(q),
         e.frame.rpc = NoRpc \/ \A i \in DOMAIN q : q[i].frame.rpc # e.frame.rpc
  PROVE  Alone(Enqueued(q, e))
<1>1. CASE Enqueued(q, e) = Append(q, e)
  BY <1>1, AloneAppend
<1>2. ASSUME NEW i \in 1..Len(q), Enqueued(q, e) = Append(RemoveAt(q, i), e)
      PROVE  Alone(Enqueued(q, e))
  <2>1. RemoveAt(q, i) \in Seq(Entries) /\ Alone(RemoveAt(q, i))
    BY RemoveAtType, AloneRemoveAt
  <2>2. \A k \in DOMAIN RemoveAt(q, i) :
          \E m \in DOMAIN q : RemoveAt(q, i)[k] = q[m]
    <3>1. /\ DOMAIN RemoveAt(q, i) = 1..(Len(q) - 1) /\ DOMAIN q = 1..Len(q)
          /\ \A j \in 1..(Len(q) - 1) :
               RemoveAt(q, i)[j] = IF j < i THEN q[j] ELSE q[j + 1]
      BY <2>1, RemoveAtProperties
    <3>2. \A j \in 1..(Len(q) - 1) : j \in 1..Len(q) /\ j + 1 \in 1..Len(q)
      OBVIOUS
    <3> QED
      BY <3>1, <3>2
  <2>3. \/ e.frame.rpc = NoRpc
        \/ \A k \in DOMAIN RemoveAt(q, i) :
             RemoveAt(q, i)[k].frame.rpc # e.frame.rpc
    BY <2>2
  <2> QED
    BY <1>2, <2>1, <2>3, AloneAppend
<1> QED
  BY <1>1, <1>2, EnqueuedCases

(* A step that lets no new answer in, and none out unseen, keeps all.       *)
LEMMA NoNewAnswer ==
  ASSUME AnswerInv, UNCHANGED <<rpc, answered>>, Alone(queue'), ReadOrPending',
         \A r \in Rpcs :
           (r \in forwarded' \/ \E i \in DOMAIN queue' : queue'[i].frame.rpc = r) =>
             r \in forwarded \/ \E i \in DOMAIN queue : queue[i].frame.rpc = r
  PROVE  AnswerInv'
<1>1. AnsweredOnce' /\ ServedIsAnswered'
  BY DEF AnswerInv, AnsweredOnce, ServedIsAnswered
<1>2. LateAnswersAreEvents'
  BY DEF AnswerInv, LateAnswersAreEvents
<1>3. Alone(queue)'
  BY DEF Alone
<1> QED
  BY <1>1, <1>2, <1>3 DEF AnswerInv

(* A step that touches neither the events nor the answers.                  *)
LEMMA EventsStay ==
  ASSUME AnswerInv, UNCHANGED <<queue, forwarded, answered>>,
         \A r \in Rpcs :
           /\ rpc'[r] \in {"idle", "waiting", "timing"} =>
                rpc[r] \in {"idle", "waiting", "timing"}
           /\ rpc'[r] \in {"answered", "lost"} => rpc[r] \in {"answered", "lost"}
           /\ rpc[r] \in {"expired", "failed"} => rpc'[r] \in {"expired", "failed"}
  PROVE  AnswerInv'
BY DEF AnswerInv, AnsweredOnce, ServedIsAnswered, LateAnswersAreEvents, Alone,
       ReadOrPending

(* What the queue has when a frame has come in.                             *)
LEMMA EnqueuedRpcs ==
  ASSUME TypeInv, AnswerInv, NEW f \in Frames, enqueue_pending_locked(f)
  PROVE  /\ \A i \in DOMAIN queue' :
              queue'[i].frame.rpc = f.rpc
                \/ \E j \in DOMAIN queue : queue'[i].frame.rpc = queue[j].frame.rpc
         /\ f.rpc = NoRpc \/ (\A j \in DOMAIN queue : queue[j].frame.rpc # f.rpc)
              => Alone(queue')
         /\ UNCHANGED forwarded
<1> DEFINE e == [id |-> arrived + 1, frame |-> f]
<1>1. queue \in Seq(Entries) /\ e \in Entries /\ maxInbound \in Nat
  BY InboundAssumption DEF enqueue_pending_locked, Entries, TypeInv, TypeOK
<1>2. queue' = Enqueued(queue, e) /\ e.frame = f
  BY DEF enqueue_pending_locked
<1>3. /\ queue' \in Seq(Entries)
      /\ \A n \in 1..Len(queue') :
           queue'[n] = e \/ \E m \in 1..Len(queue) : queue'[n] = queue[m]
  BY <1>1, <1>2, EnqueuedElements
<1>4. DOMAIN queue = 1..Len(queue) /\ DOMAIN queue' = 1..Len(queue')
  BY <1>1, <1>3
<1>5. Alone(queue)
  BY DEF AnswerInv
<1>6. f.rpc = NoRpc \/ (\A j \in DOMAIN queue : queue[j].frame.rpc # f.rpc)
        => Alone(queue')
  BY <1>1, <1>2, <1>5, AloneEnqueued
<1>7. UNCHANGED forwarded
  BY DEF enqueue_pending_locked
<1> HIDE DEF e
<1> QED
  BY <1>2, <1>3, <1>4, <1>6, <1>7

LEMMA InitAnswer == Init => AnswerInv
BY DEF Init, AnswerInv, AnsweredOnce, ServedIsAnswered, LateAnswersAreEvents,
       Alone, ReadOrPending

LEMMA RouteAnswerKeepsAnswers ==
  ASSUME TypeInv, AnswerInv, NEW f \in Frames, RouteAnswer(f)
  PROVE  AnswerInv'
<1>1. /\ f.rpc \in Rpcs /\ rpc[f.rpc] # "idle" /\ f.rpc \notin answered
      /\ answered' = answered \cup {f.rpc}
  BY DEF RouteAnswer, Frames
<1>2. rpc \in [Rpcs -> RpcStates]
  BY DEF TypeInv, TypeOK, RpcStates
<1>3. ASSUME NEW to \in {"answered", "lost"}, rpc[f.rpc] \in {"waiting", "timing"},
             rpc' = [rpc EXCEPT ![f.rpc] = to], UNCHANGED <<queueVars, hookVars>>
      PROVE  AnswerInv'
  <2>1. AnsweredOnce' /\ ServedIsAnswered'
    BY <1>1, <1>2, <1>3 DEF AnswerInv, AnsweredOnce, ServedIsAnswered
  <2>2. LateAnswersAreEvents'
    BY <1>1, <1>2, <1>3 DEF AnswerInv, LateAnswersAreEvents, queueVars
  <2>3. Alone(queue)' /\ ReadOrPending'
    BY <1>3 DEF AnswerInv, Alone, ReadOrPending, queueVars
  <2> QED
    BY <2>1, <2>2, <2>3 DEF AnswerInv
<1>4. CASE /\ rpc[f.rpc] \notin {"waiting", "timing"}
           /\ enqueue_pending_locked(f) /\ UNCHANGED rpc
  <2>1. \A r \in Rpcs : r \notin answered =>
          r \notin forwarded /\ \A i \in DOMAIN queue : queue[i].frame.rpc # r
    BY DEF AnswerInv, LateAnswersAreEvents
  <2>2. /\ \A i \in DOMAIN queue' :
             queue'[i].frame.rpc = f.rpc
               \/ \E j \in DOMAIN queue : queue'[i].frame.rpc = queue[j].frame.rpc
        /\ Alone(queue') /\ UNCHANGED forwarded
    BY <1>1, <1>4, <2>1, EnqueuedRpcs
  <2>3. AnsweredOnce' /\ ServedIsAnswered'
    BY <1>1, <1>2, <1>4 DEF AnswerInv, AnsweredOnce, ServedIsAnswered
  <2>4. Alone(queue)' /\ ReadOrPending'
    BY <1>1, <2>1, <2>2 DEF AnswerInv, Alone, ReadOrPending
  <2>5. rpc[f.rpc] \in {"expired", "failed", "answered", "lost"}
    BY <1>1, <1>2, <1>4 DEF RpcStates
  <2>6. CASE rpc[f.rpc] \in {"expired", "failed"}
    <3>1. LateAnswersAreEvents'
      BY <1>1, <1>4, <2>2, <2>6 DEF AnswerInv, LateAnswersAreEvents
    <3> QED
      BY <2>3, <2>4, <3>1 DEF AnswerInv
  <2>7. rpc[f.rpc] \notin {"answered", "lost"}
    BY <1>1 DEF AnswerInv, ServedIsAnswered
  <2> QED
    BY <2>5, <2>6, <2>7
<1> QED
  BY <1>3, <1>4 DEF RouteAnswer

LEMMA StepAnswer == TypeInv /\ AnswerInv /\ [Next]_vars => AnswerInv'
<1> SUFFICES ASSUME TypeInv, AnswerInv, [Next]_vars PROVE AnswerInv'
  OBVIOUS
<1>0. /\ queue \in Seq(Entries) /\ DOMAIN queue = 1..Len(queue) /\ Len(queue) \in Nat
      /\ rpc \in [Rpcs -> RpcStates] /\ NoRpc \notin forwarded
  BY InboundAssumption DEF TypeInv, TypeOK, Entries, RpcStates
<1>1. CASE UNCHANGED <<rpc, answered, queue, forwarded>>
  BY <1>1, EventsStay
<1>2. ASSUME NEW f \in Frames, RouteAnswer(f) PROVE AnswerInv'
  BY <1>2, RouteAnswerKeepsAnswers
<1>3. ASSUME NEW f \in Frames, RouteEvent(f) \/ push_pending_event(f)
      PROVE  AnswerInv'
  <2>1. /\ f.rpc = NoRpc /\ enqueue_pending_locked(f) /\ UNCHANGED <<rpc, answered>>
    BY <1>3 DEF RouteEvent, push_pending_event, rpcVars
  <2>2. /\ \A i \in DOMAIN queue' :
             queue'[i].frame.rpc = NoRpc
               \/ \E j \in DOMAIN queue : queue'[i].frame.rpc = queue[j].frame.rpc
        /\ Alone(queue') /\ UNCHANGED forwarded
    BY <2>1, EnqueuedRpcs
  <2>3. ReadOrPending'
    BY <1>0, <2>2 DEF AnswerInv, ReadOrPending
  <2> QED
    BY <2>1, <2>2, <2>3, NoNewAnswer, InboundAssumption
<1>4. CASE read_event
  <2>0. queue # <<>> => Head(queue) = queue[1]
    BY <1>0
  <2>1. /\ queue # <<>> /\ queue' = Tail(queue) /\ UNCHANGED <<rpc, answered>>
        /\ forwarded' = IF queue[1].frame.rpc = NoRpc THEN forwarded
                        ELSE forwarded \cup {queue[1].frame.rpc}
    BY <1>4, <2>0 DEF read_event, rpcVars
  <2>2. 1 \in DOMAIN queue
    BY <1>0, <2>1
  <2>3. \A i \in DOMAIN queue' :
          i + 1 \in DOMAIN queue /\ queue'[i] = queue[i + 1] /\ i + 1 # 1
    BY <1>0, <2>1
  <2>4. Alone(queue')
    BY <1>0, <2>1, TailIsRemoveAt, AloneRemoveAt DEF AnswerInv
  <2>5. ReadOrPending'
    <3> SUFFICES ASSUME NEW i \in DOMAIN queue'
                 PROVE  queue'[i].frame.rpc \notin forwarded'
      BY DEF ReadOrPending
    <3>1. /\ queue'[i] = queue[i + 1] /\ i + 1 \in DOMAIN queue /\ i + 1 # 1
          /\ queue[i + 1].frame.rpc \notin forwarded
      BY <2>3 DEF AnswerInv, ReadOrPending
    <3>2. queue[1].frame.rpc # NoRpc => queue[i + 1].frame.rpc # queue[1].frame.rpc
      BY <2>2, <3>1 DEF AnswerInv, Alone
    <3> QED
      BY <2>1, <3>1, <3>2
  <2> QED
    BY <2>1, <2>2, <2>3, <2>4, <2>5, NoNewAnswer
<1>5. ASSUME NEW S \in SUBSET (1..Len(queue)), queue' = Kept(queue, S),
             UNCHANGED <<rpc, answered, forwarded>>
      PROVE  AnswerInv'
  <2>1. /\ Kept(queue, S) \in Seq(Entries)
        /\ Len(Kept(queue, S)) = Cardinality(S)
        /\ \A k \in 1..Cardinality(S) :
             Nth(S, k) \in S /\ Kept(queue, S)[k] = queue[Nth(S, k)]
    BY <1>0, KeptProperties
  <2>2. DOMAIN Kept(queue, S) = 1..Cardinality(S)
    BY <2>1
  <2>3. \A i \in DOMAIN queue' : \E j \in DOMAIN queue : queue'[i] = queue[j]
    BY <1>0, <1>5, <2>1, <2>2
  <2>4. Alone(queue') /\ ReadOrPending'
    BY <1>0, <1>5, <2>3, AloneKept DEF AnswerInv, ReadOrPending
  <2> QED
    BY <1>5, <2>3, <2>4, NoNewAnswer
<1>6. CASE clear_pending_events \/ ClearQueue
  <2>1. queue' = <<>> /\ UNCHANGED <<rpc, answered, forwarded>>
    BY <1>6 DEF clear_pending_events, ClearQueue, Discard, rpcVars
  <2>2. DOMAIN queue' = {}
    BY <2>1
  <2>3. Alone(queue') /\ ReadOrPending'
    BY <2>2 DEF Alone, ReadOrPending
  <2> QED
    BY <2>1, <2>2, <2>3, NoNewAnswer
<1>7. CASE peel_stale_pending_control_events
  <2> DEFINE S == {i \in DOMAIN queue : ~stale_pending_frame(queue[i].frame)}
  <2>1. queue' = Kept(queue, S) /\ UNCHANGED <<rpc, answered, forwarded>>
    BY <1>7 DEF peel_stale_pending_control_events, Discard, rpcVars
  <2>2. S \in SUBSET (1..Len(queue))
    BY <1>0
  <2> HIDE DEF S
  <2> QED
    BY <1>5, <2>1, <2>2
<1>8. ASSUME NEW r \in Rpcs, request(r) \/ Timeout(r) \/ RemoveWaiter(r)
      PROVE  AnswerInv'
  <2>1. /\ UNCHANGED <<answered, queue, forwarded>>
        /\ \E from \in {"idle", "waiting", "timing"},
              to \in {"waiting", "timing", "expired"} :
             rpc[r] = from /\ rpc' = [rpc EXCEPT ![r] = to]
    BY <1>8 DEF request, Timeout, RemoveWaiter, MoveRequest, queueVars
  <2> QED
    BY <1>0, <2>1, EventsStay
<1>9. CASE ClearWaiters
  <2>1. /\ \A r \in Rpcs : rpc'[r] \in {rpc[r], "failed", "expired"}
        /\ \A r \in Rpcs : rpc[r] \in {"failed", "expired"} => rpc'[r] = rpc[r]
        /\ UNCHANGED <<answered, queue, forwarded>>
    BY <1>0, <1>9 DEF ClearWaiters, queueVars
  <2> QED
    BY <2>1, EventsStay
<1>10. CASE \/ FireHook \/ ArmHook \/ BeginReconnect \/ ClearNotified
            \/ UNCHANGED vars
            \/ \E cb \in {"none", "set"} : StoreHook(cb)
            \/ \E n \in Caps : set_inbound_max_size(n)
  BY <1>1, <1>10
     DEF StoreHook, FireHook, ArmHook, BeginReconnect, ClearNotified, Rearm,
         set_inbound_max_size, vars, queueVars, rpcVars
<1> QED
  BY <1>2, <1>3, <1>4, <1>6, <1>7, <1>8, <1>9, <1>10 DEF Next

LEMMA AnswerInvHolds == Spec => []AnswerInv
BY InitAnswer, StepAnswer, TypeInvHolds, PTL DEF Spec

(* Among the events there is at most one copy of an answer, read or pending,*)
(* and none that its caller got or that a timeout swallowed, in whatever    *)
(* order answers, the two steps of timeouts and reconnects come.            *)
THEOREM AnswerHasOnePlace == Spec => []AnswerGoesToOne
<1>1. TypeInv /\ AnswerInv => AnswerGoesToOne
  <2> SUFFICES ASSUME TypeInv, AnswerInv, NEW r \in Rpcs
               PROVE  /\ r \in forwarded => rpc[r] \in {"expired", "failed"}
                      /\ \A i \in DOMAIN queue :
                           queue[i].frame.rpc = r =>
                             /\ rpc[r] \in {"expired", "failed"}
                             /\ r \notin forwarded
                             /\ \A j \in DOMAIN queue :
                                  queue[j].frame.rpc = r => i = j
    BY DEF AnswerGoesToOne
  <2>1. r # NoRpc
    BY InboundAssumption
  <2>2. r \in forwarded => rpc[r] \in {"expired", "failed"}
    BY DEF AnswerInv, LateAnswersAreEvents
  <2>3. ASSUME NEW i \in DOMAIN queue, queue[i].frame.rpc = r
        PROVE  /\ rpc[r] \in {"expired", "failed"} /\ r \notin forwarded
               /\ \A j \in DOMAIN queue : queue[j].frame.rpc = r => i = j
    BY <2>1, <2>3 DEF AnswerInv, LateAnswersAreEvents, Alone, ReadOrPending
  <2> QED
    BY <2>2, <2>3
<1> QED
  BY <1>1, TypeInvHolds, AnswerInvHolds, PTL

-----------------------------------------------------------------------------
(* What an overflow pushes out.                                             *)

LEMMA DropSparesTheUrgent ==
  ASSUME TypeInv, NEW f \in Frames, enqueue_pending_locked(f), dropped' # dropped,
         NEW i \in DOMAIN queue, \A j \in DOMAIN queue' : queue'[j] # queue[i],
         \/ Priority(queue[i]) < NORMAL
         \/ inbound_needs_delivery_ack(queue[i].frame)
  PROVE  ~HasNormal(queue) /\ Priority(Last(queue')) < NORMAL
<1> DEFINE e == [id |-> arrived + 1, frame |-> f]
<1>1. queue \in Seq(Entries) /\ e \in Entries /\ maxInbound \in Nat
  BY InboundAssumption DEF enqueue_pending_locked, Entries, TypeInv, TypeOK
<1>2. queue' = Enqueued(queue, e)
  BY DEF enqueue_pending_locked
<1>3. Overflows(queue, e)
  BY DEF enqueue_pending_locked
<1> HIDE DEF e
<1>4. /\ Len(queue) \in Nat /\ DOMAIN queue = 1..Len(queue)
      /\ i \in 1..Len(queue) /\ queue[i] \in Entries
  BY <1>1
<1>5. Priority(queue[i]) < NORMAL
  BY <1>4, FrameFacts DEF CRITICAL, NORMAL
<1>6. queue' # queue
  BY <1>4
<1>7. PICK k \in 1..Len(queue) :
        /\ queue' = Append(RemoveAt(queue, k), e)
        /\ \/ Priority(queue[k]) >= NORMAL
           \/ ~HasNormal(queue) /\ Priority(e) < NORMAL
  BY <1>1, <1>2, <1>3, <1>6, EnqueuedCases
<1>8. /\ RemoveAt(queue, k) \in Seq(Entries)
      /\ Len(RemoveAt(queue, k)) = Len(queue) - 1
      /\ \A j \in 1..(Len(queue) - 1) :
           RemoveAt(queue, k)[j] = IF j < k THEN queue[j] ELSE queue[j + 1]
  BY <1>1, RemoveAtProperties, RemoveAtType
<1>9. /\ Len(queue') = Len(queue) /\ DOMAIN queue' = 1..Len(queue)
      /\ queue'[Len(queue)] = e
      /\ \A j \in 1..(Len(queue) - 1) :
           queue'[j] = IF j < k THEN queue[j] ELSE queue[j + 1]
  <2> DEFINE left == RemoveAt(queue, k)
  <2>1. left \in Seq(Entries) /\ Len(left) = Len(queue) - 1
    BY <1>8
  <2>2. queue' = Append(left, e)
    BY <1>7
  <2> HIDE DEF left
  <2>3. /\ Append(left, e) \in Seq(Entries) /\ Len(Append(left, e)) = Len(left) + 1
        /\ Append(left, e)[Len(left) + 1] = e
        /\ \A j \in 1..Len(left) : Append(left, e)[j] = left[j]
    BY <1>1, <2>1
  <2>4. Len(left) + 1 = Len(queue)
    BY <1>4, <2>1
  <2>5. Len(queue') = Len(queue) /\ DOMAIN queue' = 1..Len(queue)
    BY <2>2, <2>3, <2>4
  <2> QED
    BY <1>8, <2>1, <2>2, <2>3, <2>4, <2>5 DEF left
<1>10. k = i
  <2>1. CASE i < k
    <3>1. i \in 1..(Len(queue) - 1) /\ i \in DOMAIN queue'
      BY <1>4, <1>9, <2>1
    <3>2. queue'[i] = queue[i]
      BY <1>9, <2>1, <3>1
    <3> QED
      BY <3>1, <3>2
  <2>2. CASE i > k
    <3>1. /\ i - 1 \in 1..(Len(queue) - 1) /\ i - 1 \in DOMAIN queue'
          /\ ~(i - 1 < k) /\ (i - 1) + 1 = i
      BY <1>4, <1>9, <2>2
    <3>2. queue'[i - 1] = queue[i]
      BY <1>9, <3>1
    <3> QED
      BY <3>1, <3>2
  <2> QED
    BY <1>4, <2>1, <2>2
<1>11. ~(Priority(queue[k]) >= NORMAL)
  <2>1. Priority(queue[i]) \in {0, 1, 2} /\ NORMAL = 2
    BY <1>4, FrameFacts DEF CRITICAL, HIGH, NORMAL
  <2> QED
    BY <1>5, <1>10, <2>1
<1>12. ~HasNormal(queue) /\ Priority(e) < NORMAL
  BY <1>7, <1>11
<1>13. Last(queue') = e
  BY <1>9 DEF Last
<1> QED
  BY <1>12, <1>13

(* An overflow pushes out a frame that is urgent, or that the daemon was    *)
(* told is delivered, only for an urgent newcomer and when nothing else     *)
(* could go.                                                                *)
THEOREM UrgentFramesGoLast == Spec => NormalGoesFirst
<1>1. TypeInv /\ [Next]_vars =>
        [dropped' # dropped =>
           \A i \in DOMAIN queue :
             /\ \A j \in DOMAIN queue' : queue'[j] # queue[i]
             /\ \/ Priority(queue[i]) < NORMAL
                \/ inbound_needs_delivery_ack(queue[i].frame)
             => ~HasNormal(queue) /\ Priority(Last(queue')) < NORMAL]_vars
  <2> SUFFICES ASSUME TypeInv, [Next]_vars, dropped' # dropped
               PROVE  \E f \in Frames : enqueue_pending_locked(f)
    BY DropSparesTheUrgent
  <2>1. ~UNCHANGED vars
    BY DEF vars, queueVars
  <2>2. PICK f \in Frames : EnqueueStep(f)
    BY <2>1
       DEF Next, EnqueueStep, read_event, clear_pending_events,
           peel_stale_pending_control_events, Discard, set_inbound_max_size,
           StoreHook, ArmHook, FireHook, Rearm, request, Timeout, RemoveWaiter,
           MoveRequest, BeginReconnect, ClearWaiters, ClearQueue, ClearNotified,
           queueVars
  <2> QED
    BY <2>2
       DEF EnqueueStep, RouteAnswer, RouteEvent, push_pending_event, queueVars
<1> QED
  BY <1>1, TypeInvHolds, PTL DEF Spec, NormalGoesFirst

-----------------------------------------------------------------------------
(* The queue loses for want of room only.                                   *)

(* The numbers of the frames of a queue, and what each operation on the     *)
(* queue does to them.                                                      *)
Ids(q) == [i \in DOMAIN q |-> q[i].id]

LEMMA IdsType ==
  ASSUME NEW q \in Seq(Entries)
  PROVE  /\ Ids(q) \in Seq(1..MaxFrames) /\ Len(Ids(q)) = Len(q)
         /\ \A i \in 1..Len(q) : Ids(q)[i] = q[i].id
<1>1. DOMAIN q = 1..Len(q) /\ Len(q) \in Nat
  OBVIOUS
<1>2. \A i \in 1..Len(q) : q[i].id \in 1..MaxFrames
  BY FrameFacts
<1> QED
  BY <1>1, <1>2 DEF Ids

LEMMA IdsAppend ==
  ASSUME NEW q \in Seq(Entries), NEW e \in Entries
  PROVE  Ids(Append(q, e)) = Append(Ids(q), e.id)
<1> DEFINE s == Append(q, e)
           t == Append(Ids(q), e.id)
<1>1. /\ s \in Seq(Entries) /\ Len(s) = Len(q) + 1 /\ s[Len(q) + 1] = e
      /\ \A i \in 1..Len(q) : s[i] = q[i]
  OBVIOUS
<1>2. e.id \in 1..MaxFrames
  BY FrameFacts
<1>3. /\ t \in Seq(1..MaxFrames) /\ Len(t) = Len(q) + 1 /\ t[Len(q) + 1] = e.id
      /\ \A i \in 1..Len(q) : t[i] = q[i].id
  BY <1>2, IdsType
<1> HIDE DEF s, t
<1>4. /\ Ids(s) \in Seq(1..MaxFrames) /\ Len(Ids(s)) = Len(q) + 1
      /\ \A i \in 1..(Len(q) + 1) : Ids(s)[i] = s[i].id
  BY <1>1, IdsType
<1>5. \A i \in 1..(Len(q) + 1) : Ids(s)[i] = t[i]
  BY <1>1, <1>3, <1>4
<1>6. Ids(s) = t
  BY <1>3, <1>4, <1>5
<1> QED
  BY <1>6 DEF s, t

LEMMA IdsRemoveAt ==
  ASSUME NEW q \in Seq(Entries), NEW k \in 1..Len(q)
  PROVE  Ids(RemoveAt(q, k)) = RemoveAt(Ids(q), k)
<1> DEFINE s == RemoveAt(q, k)
           t == RemoveAt(Ids(q), k)
<1>1. /\ s \in Seq(Entries) /\ Len(s) = Len(q) - 1
      /\ \A i \in 1..(Len(q) - 1) : s[i] = IF i < k THEN q[i] ELSE q[i + 1]
  BY RemoveAtProperties, RemoveAtType
<1>2. Ids(q) \in Seq(1..MaxFrames) /\ k \in 1..Len(Ids(q)) /\ Len(Ids(q)) = Len(q)
  BY IdsType
<1>3. /\ t \in Seq(1..MaxFrames) /\ Len(t) = Len(q) - 1
      /\ \A i \in 1..(Len(q) - 1) : t[i] = IF i < k THEN Ids(q)[i] ELSE Ids(q)[i + 1]
  BY <1>2, RemoveAtProperties, RemoveAtType
<1> HIDE DEF s, t
<1>4. /\ Ids(s) \in Seq(1..MaxFrames) /\ Len(Ids(s)) = Len(q) - 1
      /\ \A i \in 1..(Len(q) - 1) : Ids(s)[i] = s[i].id
  BY <1>1, IdsType
<1>5. \A i \in 1..(Len(q) - 1) : i \in 1..Len(q) /\ i + 1 \in 1..Len(q)
  OBVIOUS
<1>6. \A i \in 1..(Len(q) - 1) : Ids(s)[i] = t[i]
  BY <1>1, <1>3, <1>4, <1>5, IdsType
<1>7. Ids(s) = t
  BY <1>3, <1>4, <1>6
<1> QED
  BY <1>7 DEF s, t

LEMMA IdsTail ==
  ASSUME NEW q \in Seq(Entries), q # <<>>
  PROVE  /\ Ids(Tail(q)) = Tail(Ids(q))
         /\ Ids(q) # <<>> /\ Head(Ids(q)) = Head(q).id
<1>1. /\ 1 \in 1..Len(q) /\ Tail(q) = RemoveAt(q, 1)
  BY TailIsRemoveAt
<1>2. /\ Ids(q) \in Seq(1..MaxFrames) /\ Len(Ids(q)) = Len(q) /\ Ids(q) # <<>>
      /\ Ids(q)[1] = q[1].id
  BY <1>1, IdsType
<1>3. Tail(Ids(q)) = RemoveAt(Ids(q), 1)
  BY <1>2, TailIsRemoveAt
<1>4. Head(Ids(q)) = Ids(q)[1] /\ Head(q) = q[1]
  OBVIOUS
<1>5. Ids(Tail(q)) = Tail(Ids(q))
  BY <1>1, <1>3, IdsRemoveAt
<1> QED
  BY <1>2, <1>4, <1>5

LEMMA IdsKept ==
  ASSUME NEW q \in Seq(Entries), NEW S \in SUBSET (1..Len(q))
  PROVE  Ids(Kept(q, S)) = Kept(Ids(q), S)
<1> DEFINE s == Kept(q, S)
           t == Kept(Ids(q), S)
<1>1. /\ s \in Seq(Entries) /\ Len(s) = Cardinality(S) /\ Cardinality(S) \in 0..Len(q)
      /\ \A i \in 1..Cardinality(S) : Nth(S, i) \in S /\ s[i] = q[Nth(S, i)]
  BY KeptProperties
<1>2. Ids(q) \in Seq(1..MaxFrames) /\ S \in SUBSET (1..Len(Ids(q)))
  BY IdsType
<1>3. /\ t \in Seq(1..MaxFrames) /\ Len(t) = Cardinality(S)
      /\ \A i \in 1..Cardinality(S) : t[i] = Ids(q)[Nth(S, i)]
  BY <1>2, KeptProperties
<1> HIDE DEF s, t
<1>4. /\ Ids(s) \in Seq(1..MaxFrames) /\ Len(Ids(s)) = Cardinality(S)
      /\ \A i \in 1..Cardinality(S) : Ids(s)[i] = s[i].id
  BY <1>1, IdsType
<1>5. \A i \in 1..Cardinality(S) : Ids(s)[i] = t[i]
  BY <1>1, <1>3, <1>4, IdsType
<1>6. Ids(s) = t
  BY <1>1, <1>3, <1>4, <1>5
<1> QED
  BY <1>6 DEF s, t

(* The operators the abstract queue is written with are those of this one.  *)
LEMMA SameOperators ==
  /\ \A s, S : LossyQueue!Kept(s, S) = Kept(s, S)
  /\ \A s, i : LossyQueue!RemoveAt(s, i) = RemoveAt(s, i)
<1>1. ASSUME NEW s, NEW S PROVE LossyQueue!Kept(s, S) = Kept(s, S)
  <2>1. ASSUME NEW T PROVE LossyQueue!Cardinality(T) = Cardinality(T)
    BY Zenon DEF LossyQueue!Cardinality, Cardinality
  <2>2. ASSUME NEW i PROVE LossyQueue!Upto(S, i) = Upto(S, i)
    BY DEF LossyQueue!Upto, Upto
  <2>3. ASSUME NEW k PROVE LossyQueue!Nth(S, k) = Nth(S, k)
    <3>1. \A i : (LossyQueue!Cardinality(LossyQueue!Upto(S, i)) = k)
                   <=> (Cardinality(Upto(S, i)) = k)
      BY <2>1, <2>2, Zenon
    <3> QED
      BY <3>1, Zenon DEF LossyQueue!Nth, Nth
  <2> QED
    BY <2>1, <2>3 DEF LossyQueue!Kept, Kept
<1>2. ASSUME NEW s, NEW i PROVE LossyQueue!RemoveAt(s, i) = RemoveAt(s, i)
  BY DEF LossyQueue!RemoveAt, RemoveAt
<1> QED
  BY <1>1, <1>2

LEMMA InitAbstract == Init => LossyQueue!Init
<1> SUFFICES ASSUME Init PROVE LossyQueue!Init
  OBVIOUS
<1>1. Ids(queue) = <<>>
  <2>1. queue = <<>> /\ queue \in Seq(Entries)
    BY DEF Init
  <2>2. Ids(queue) \in Seq(1..MaxFrames) /\ Len(Ids(queue)) = 0
    BY <2>1, IdsType
  <2> QED
    BY <2>2
<1> QED
  BY <1>1, InboundAssumption DEF Init, LossyQueue!Init, Ids

(* A frame that comes in is kept, lost, or pushes another out.              *)
LEMMA EnqueueIsAbstract ==
  ASSUME TypeInv, NEW f \in Frames, enqueue_pending_locked(f),
         UNCHANGED <<maxInbound, lastRead>>
  PROVE  LossyQueue!Next
<1> DEFINE e == [id |-> arrived + 1, frame |-> f]
<1>1. queue \in Seq(Entries) /\ e \in Entries /\ maxInbound \in Nat
  BY InboundAssumption DEF enqueue_pending_locked, Entries, TypeInv, TypeOK
<1>2. queue' = Enqueued(queue, e) /\ arrived' = arrived + 1
  BY DEF enqueue_pending_locked
<1>3. dropped' = IF Overflows(queue, e) THEN dropped + 1 ELSE dropped
  BY DEF enqueue_pending_locked, note_inbound_drop
<1>4. e.id = arrived + 1
  OBVIOUS
<1> HIDE DEF e
<1>5. Ids(queue) \in Seq(1..MaxFrames) /\ Len(Ids(queue)) = Len(queue)
      /\ DOMAIN Ids(queue) = 1..Len(queue)
  BY <1>1, IdsType
<1>6. CASE /\ Len(queue) < maxInbound \/ maxInbound + Len(queue) = 0
           /\ ~Overflows(queue, e)
           /\ queue' = Append(queue, e)
  <2>1. Ids(queue') = Append(Ids(queue), arrived + 1)
    BY <1>1, <1>4, <1>6, IdsAppend
  <2>2. LossyQueue!Keep
    BY <1>2, <1>3, <1>5, <1>6, <2>1 DEF LossyQueue!Keep, Ids
  <2> QED
    BY <2>2 DEF LossyQueue!Next
<1>7. CASE Len(queue) >= maxInbound /\ Overflows(queue, e) /\ queue' = queue
  <2>1. LossyQueue!Lose
    BY <1>2, <1>3, <1>5, <1>7 DEF LossyQueue!Lose, Ids
  <2> QED
    BY <2>1 DEF LossyQueue!Next
<1>8. ASSUME Len(queue) >= maxInbound, Overflows(queue, e),
             NEW i \in 1..Len(queue), queue' = Append(RemoveAt(queue, i), e)
      PROVE  LossyQueue!Next
  <2>1. RemoveAt(queue, i) \in Seq(Entries)
    BY <1>1, RemoveAtType
  <2>2. Ids(queue') = Append(RemoveAt(Ids(queue), i), arrived + 1)
    BY <1>1, <1>4, <1>8, <2>1, IdsAppend, IdsRemoveAt
  <2>3. Ids(queue') = Append(LossyQueue!RemoveAt(Ids(queue), i), arrived + 1)
    BY <2>2, SameOperators
  <2>4. LossyQueue!Lose
    BY <1>2, <1>3, <1>5, <1>8, <2>3 DEF LossyQueue!Lose, Ids
  <2> QED
    BY <2>4 DEF LossyQueue!Next
<1> QED
  BY <1>1, <1>2, <1>6, <1>7, <1>8, EnqueuedCases

LEMMA StepAbstract == TypeInv /\ [Next]_vars => [LossyQueue!Next]_(LossyQueue!vars)
<1> SUFFICES ASSUME TypeInv, [Next]_vars
             PROVE  LossyQueue!Next \/ UNCHANGED LossyQueue!vars
  OBVIOUS
<1>a. /\ queue \in Seq(Entries) /\ DOMAIN queue = 1..Len(queue)
      /\ maxInbound \in Nat /\ Caps \subseteq Nat
  BY InboundAssumption DEF TypeInv, TypeOK, Entries
<1>b. /\ Ids(queue) \in Seq(1..MaxFrames) /\ Len(Ids(queue)) = Len(queue)
  BY <1>a, IdsType
<1>0. /\ queue \in Seq(Entries) /\ DOMAIN queue = 1..Len(queue)
      /\ maxInbound \in Nat /\ Caps \subseteq Nat
      /\ Ids(queue) \in Seq(1..MaxFrames) /\ Len(Ids(queue)) = Len(queue)
      /\ DOMAIN Ids(queue) = 1..Len(queue)
  BY <1>a, <1>b
<1>1. CASE UNCHANGED <<queue, maxInbound, dropped, arrived, lastRead>>
  BY <1>1 DEF LossyQueue!vars
<1>2. ASSUME NEW f \in Frames, EnqueueStep(f) PROVE LossyQueue!Next \/ UNCHANGED LossyQueue!vars
  <2>1. \/ enqueue_pending_locked(f) /\ UNCHANGED <<maxInbound, lastRead>>
        \/ UNCHANGED <<queue, maxInbound, dropped, arrived, lastRead>>
    BY <1>2
       DEF EnqueueStep, RouteAnswer, RouteEvent, push_pending_event, queueVars,
           enqueue_pending_locked
  <2> QED
    BY <1>1, <2>1, EnqueueIsAbstract
<1>3. CASE read_event
  <2>1. /\ queue # <<>> /\ queue' = Tail(queue) /\ lastRead' = Head(queue).id
        /\ UNCHANGED <<maxInbound, dropped, arrived>>
    BY <1>3 DEF read_event
  <2>2. /\ Ids(queue') = Tail(Ids(queue)) /\ Ids(queue) # <<>>
        /\ lastRead' = Head(Ids(queue))
    BY <1>0, <2>1, IdsTail
  <2>3. LossyQueue!Read
    BY <2>1, <2>2 DEF LossyQueue!Read, Ids
  <2> QED
    BY <2>3 DEF LossyQueue!Next
<1>4. ASSUME NEW S \in SUBSET (1..Len(queue)), queue' = Kept(queue, S),
             UNCHANGED <<maxInbound, dropped, arrived, lastRead>>
      PROVE  LossyQueue!Next
  <2>1. Ids(queue') = LossyQueue!Kept(Ids(queue), S)
    BY <1>0, <1>4, IdsKept, SameOperators
  <2>2. S \in SUBSET DOMAIN Ids(queue)
    BY <1>0
  <2>3. LossyQueue!Discard
    BY <1>4, <2>1, <2>2 DEF LossyQueue!Discard, Ids
  <2> QED
    BY <2>3 DEF LossyQueue!Next
<1>5. CASE clear_pending_events \/ ClearQueue
  <2>1. queue' = <<>> /\ UNCHANGED <<maxInbound, dropped, arrived, lastRead>>
    BY <1>5 DEF clear_pending_events, ClearQueue, Discard
  <2>2. Kept(queue, {}) = <<>>
    <3>1. {} \in SUBSET (1..Len(queue)) /\ Cardinality({}) = 0
      BY FS_EmptySet
    <3>2. Kept(queue, {}) \in Seq(Entries) /\ Len(Kept(queue, {})) = 0
      BY <1>0, <3>1, KeptProperties
    <3> QED
      BY <3>2
  <2>3. {} \in SUBSET (1..Len(queue))
    OBVIOUS
  <2> QED
    BY <1>4, <2>1, <2>2, <2>3
<1>6. CASE peel_stale_pending_control_events
  <2> DEFINE S == {i \in DOMAIN queue : ~stale_pending_frame(queue[i].frame)}
  <2>1. queue' = Kept(queue, S) /\ UNCHANGED <<maxInbound, dropped, arrived, lastRead>>
    BY <1>6 DEF peel_stale_pending_control_events, Discard
  <2>2. S \in SUBSET (1..Len(queue))
    BY <1>0
  <2> HIDE DEF S
  <2> QED
    BY <1>4, <2>1, <2>2
<1>7. ASSUME NEW n \in Caps, set_inbound_max_size(n) PROVE LossyQueue!Next
  <2>1. maxInbound' \in Nat /\ UNCHANGED <<queue, dropped, arrived, lastRead>>
    BY <1>0, <1>7 DEF set_inbound_max_size
  <2> QED
    BY <2>1 DEF LossyQueue!Next, LossyQueue!Resize
<1>8. CASE \/ ArmHook \/ FireHook \/ BeginReconnect \/ ClearWaiters \/ ClearNotified
           \/ \E cb \in {"none", "set"} : StoreHook(cb)
           \/ \E r \in Rpcs : request(r) \/ Timeout(r) \/ RemoveWaiter(r)
           \/ UNCHANGED vars
  BY <1>1, <1>8
     DEF StoreHook, ArmHook, FireHook, Rearm, BeginReconnect, ClearWaiters,
         ClearNotified, request, Timeout, RemoveWaiter, MoveRequest, vars, queueVars
<1> QED
  BY <1>2, <1>3, <1>5, <1>6, <1>7, <1>8 DEF Next, EnqueueStep

(* However frames come in, are read, peeled or cleared, and however the cap *)
(* moves, a frame is lost for want of room only, one for each arrival, and  *)
(* the others keep their order.                                             *)
THEOREM QueueLosesOnlyForRoom == Spec => LosesOnlyForRoom
BY InitAbstract, StepAbstract, TypeInvHolds, PTL
   DEF Spec, LosesOnlyForRoom, LossyQueue!Spec
=============================================================================
