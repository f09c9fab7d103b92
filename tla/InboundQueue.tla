----------------------------- MODULE InboundQueue -----------------------------
(***************************************************************************)
(* The queue between the reader task of a Client and whoever reads events:  *)
(* route_inbound, enqueue_pending_locked and the public operations on the   *)
(* queue (src/src/client.rs), with the classification of frames by          *)
(* src/src/inbound_priority.rs and src/src/stream_terminal.rs.              *)
(*                                                                         *)
(* A frame is its kind, whether it came inside a `next` envelope, and the   *)
(* request it answers.  An operation on the queue is one critical section   *)
(* of its mutex, in which a drop still looks at the callback: whoever sets  *)
(* the callback, and reconnect, do not take that mutex.  How a reader       *)
(* sleeps and wakes is the subject of Transport.                            *)
(***************************************************************************)
EXTENDS Subsequences, SequencesExt

CONSTANTS
  Rpcs,       \* ids of the requests this client makes
  NoRpc,      \* no request
  EventKinds, \* kinds of the frames that come in and answer no request
  InitCap,    \* ClientConfig::max_inbound
  Caps,       \* arguments of set_inbound_max_size
  MaxFrames,  \* bound on the frames that arrive or are pushed back
  MaxRearms   \* bound on set_stream_degraded_callback and reconnect

ASSUME InboundAssumption ==
  /\ NoRpc \notin Rpcs
  /\ InitCap \in Nat
  /\ Caps \subseteq Nat
  /\ MaxFrames \in Nat
  /\ MaxRearms \in Nat

VARIABLES
  queue,       \* pending events, oldest first
  maxInbound,  \* the cap in force
  dropped,     \* inbound_dropped
  pushed,      \* the newest frame that was pushed back, 0 when none was
  notified,    \* degraded_notified
  hook,        \* the stream-degraded callback
  arming,      \* callbacks that are stored, but whose flag is not yet reset
  firing,      \* a drop, holding the queue, is about to look at the callback
  stale,       \* it, or the last one, was so when the callback was armed
  rpc,         \* state of each request
  deliverySeq, \* delivery_ack sequence of the loop
  renewal,     \* progress of a `reconnect` through this state
  arrived,     \* frames that entered enqueue_pending_locked so far
  lastRead,    \* the newest frame a reader got
  answered,    \* requests the daemon has answered
  forwarded,   \* requests whose answer a reader got as an event
  calls,       \* calls of the callback since it was armed
  drops,       \* drops since the callback was armed
  rearms

queueVars == <<queue, maxInbound, dropped, arrived, lastRead, pushed, forwarded>>
hookVars == <<notified, hook, arming, firing, stale, calls, drops, rearms>>
rpcVars == <<rpc, answered>>
vars == <<queueVars, hookVars, rpcVars, deliverySeq, renewal>>

-----------------------------------------------------------------------------
(* Frames and what the classifiers say of them.                             *)

CRITICAL == 0
HIGH == 1
NORMAL == 2

(* "turnEnd" is a custom event with a turn-scoped terminal, "messagesEnd" a *)
(* messages event whose body says stream.end, "status" one of the states    *)
(* the client knows, "batch" a batch of tool-call updates, "card" a card or *)
(* replay marker, "text" any other event.  A wrapped frame is the `data` of *)
(* a `next` payload in mode "event", told apart where that matters.         *)
Kinds == {"connection_ack", "complete", "status", "error", "turnEnd",
          "messagesEnd", "cognition", "batch", "card", "text", "response"}

ASSUME KindsAssumption == EventKinds \subseteq Kinds

Frames ==
  [kind : EventKinds, wrapped : {FALSE}, rpc : {NoRpc}]
    \cup [kind : EventKinds \cap {"complete"}, wrapped : {TRUE}, rpc : {NoRpc}]
    \cup [kind : {"response", "error"}, wrapped : {FALSE}, rpc : Rpcs]

(* A frame inside `next` is classified by its payload's data.               *)
inbound_frame_drop_priority(f) ==
  CASE f.kind \in {"connection_ack", "complete", "status", "error", "turnEnd",
                   "messagesEnd"} -> CRITICAL
    [] f.kind \in {"cognition", "batch"} -> HIGH
    [] OTHER -> NORMAL

stale_pending_frame(f) ==
  f.kind \in {"connection_ack", "complete", "card", "turnEnd"}

inbound_needs_delivery_ack(f) ==
  \/ f.kind \in {"turnEnd", "messagesEnd"}
  \/ f.kind = "complete" /\ ~f.wrapped

Priority(e) == inbound_frame_drop_priority(e.frame)

-----------------------------------------------------------------------------
TypeOK ==
  /\ queue \in Seq([id : 1..MaxFrames, frame : Frames])
  /\ maxInbound \in Nat
  /\ dropped \in 0..MaxFrames
  /\ pushed \in 0..MaxFrames
  /\ notified \in BOOLEAN
  /\ hook \in {"none", "set"}
  /\ arming \in Nat
  /\ firing \in BOOLEAN
  /\ stale \in BOOLEAN
  /\ rpc \in [Rpcs -> {"idle", "waiting", "timing", "answered", "lost",
                       "expired", "failed"}]
  /\ deliverySeq \in 0..MaxFrames
  /\ renewal \in {"none", "waiters", "queue", "hook"}
  /\ arrived \in 0..MaxFrames
  /\ lastRead \in 0..MaxFrames
  /\ answered \subseteq Rpcs
  /\ forwarded \subseteq Rpcs
  /\ calls \in Nat
  /\ drops \in 0..MaxFrames
  /\ rearms \in 0..MaxRearms

Init ==
  /\ queue = <<>>
  /\ maxInbound = InitCap
  /\ dropped = 0
  /\ pushed = 0
  /\ notified = FALSE
  /\ hook = "none"
  /\ arming = 0
  /\ firing = FALSE
  /\ stale = FALSE
  /\ rpc = [r \in Rpcs |-> "idle"]
  /\ deliverySeq = 0
  /\ renewal = "none"
  /\ arrived = 0
  /\ lastRead = 0
  /\ answered = {}
  /\ forwarded = {}
  /\ calls = 0
  /\ drops = 0
  /\ rearms = 0

-----------------------------------------------------------------------------
(* Entering the queue.                                                      *)

(* The first of the pending frames with the largest priority number.        *)
Worst(q) ==
  CHOOSE i \in DOMAIN q :
    /\ \A j \in DOMAIN q : Priority(q[j]) <= Priority(q[i])
    /\ \A j \in 1..(i - 1) : Priority(q[j]) < Priority(q[i])

HasNormal(q) == \E i \in DOMAIN q : Priority(q[i]) >= NORMAL

(* Mutants of Enqueued: the newcomer takes the victim's place; no eviction  *)
(* of a NORMAL frame.                                                       *)
EnqueuedInPlace(q, e) ==
  CASE Len(q) < maxInbound -> Append(q, e)
    [] Len(q) >= maxInbound /\ HasNormal(q) -> [q EXCEPT ![Worst(q)] = e]
    [] Len(q) >= maxInbound /\ ~HasNormal(q) /\ Priority(e) >= NORMAL -> q
    [] OTHER -> Append(IF q = <<>> THEN q ELSE Tail(q), e)

EnqueuedOverOldest(q, e) ==
  CASE Len(q) < maxInbound -> Append(q, e)
    [] Len(q) >= maxInbound /\ Priority(e) >= NORMAL -> q
    [] OTHER -> Append(IF q = <<>> THEN q ELSE Tail(q), e)

(* The queue after enqueue_pending_locked: room, evict a NORMAL frame, drop *)
(* the newcomer, or drop the oldest for an urgent newcomer.                 *)
Enqueued(q, e) ==
  CASE Len(q) < maxInbound -> Append(q, e)
    [] Len(q) >= maxInbound /\ HasNormal(q) -> Append(RemoveAt(q, Worst(q)), e)
    [] Len(q) >= maxInbound /\ ~HasNormal(q) /\ Priority(e) >= NORMAL -> q
    [] OTHER -> Append(IF q = <<>> THEN q ELSE Tail(q), e)

(* Whether that loses a frame: only an urgent newcomer to an empty queue    *)
(* with cap zero does not.                                                  *)
Overflows(q, e) ==
  Len(q) >= maxInbound /\ (q # <<>> \/ Priority(e) >= NORMAL)

(* Mutant of note_inbound_drop: the flag is not consulted.                  *)
NoteDropEveryTime ==
  /\ dropped' = dropped + 1
  /\ drops' = drops + 1
  /\ notified' = TRUE
  /\ firing' = TRUE

(* The first drop since the flag was reset goes on to the callback.         *)
note_inbound_drop ==
  /\ dropped' = dropped + 1
  /\ drops' = drops + 1
  /\ notified' = TRUE
  /\ firing' = ~notified

(* It calls what is stored there by then, and leaves the queue.             *)
FireHook ==
  /\ firing
  /\ firing' = FALSE
  /\ calls' = IF hook = "set" THEN calls + 1 ELSE calls
  /\ UNCHANGED <<queueVars, rpcVars, notified, hook, arming, stale, drops,
                 rearms, deliverySeq, renewal>>

enqueue_pending_locked(f) ==
  LET e == [id |-> arrived + 1, frame |-> f]
  IN /\ ~firing
     /\ arrived < MaxFrames
     /\ arrived' = arrived + 1
     /\ queue' = Enqueued(queue, e)
     /\ IF Overflows(queue, e) THEN note_inbound_drop
        ELSE UNCHANGED <<dropped, drops, notified, firing>>
     /\ UNCHANGED <<maxInbound, lastRead, forwarded, hook, arming, stale, calls,
                    rearms>>

(* Mutant of RouteAnswer: no early return after the waiter was served.      *)
RouteAnswerAndQueue(f) ==
  /\ f.rpc # NoRpc
  /\ rpc[f.rpc] # "idle"
  /\ f.rpc \notin answered
  /\ answered' = answered \cup {f.rpc}
  /\ rpc' = CASE rpc[f.rpc] = "waiting" -> [rpc EXCEPT ![f.rpc] = "answered"]
              [] rpc[f.rpc] = "timing" -> [rpc EXCEPT ![f.rpc] = "lost"]
              [] OTHER -> rpc
  /\ enqueue_pending_locked(f)
  /\ UNCHANGED <<pushed, deliverySeq, renewal>>

(* route_inbound of the answer to a request.  Its waiter is taken out of    *)
(* rpc_waiters and gets it, or nobody does when the request has just timed  *)
(* out; once the waiter has gone, the answer joins the events.  The daemon  *)
(* answers a request once.                                                  *)
RouteAnswer(f) ==
  /\ f.rpc # NoRpc
  /\ rpc[f.rpc] # "idle"
  /\ f.rpc \notin answered
  /\ answered' = answered \cup {f.rpc}
  /\ \/ /\ rpc[f.rpc] = "waiting"
        /\ rpc' = [rpc EXCEPT ![f.rpc] = "answered"]
        /\ UNCHANGED <<queueVars, hookVars>>
     \/ /\ rpc[f.rpc] = "timing"
        /\ rpc' = [rpc EXCEPT ![f.rpc] = "lost"]
        /\ UNCHANGED <<queueVars, hookVars>>
     \/ /\ rpc[f.rpc] \notin {"waiting", "timing"}
        /\ enqueue_pending_locked(f)
        /\ UNCHANGED <<rpc, pushed>>
  /\ UNCHANGED <<deliverySeq, renewal>>

(* route_inbound of an event: the delivery_ack goes out before the queue    *)
(* decides whether the frame is kept.                                       *)
RouteEvent(f) ==
  /\ f.rpc = NoRpc
  /\ enqueue_pending_locked(f)
  /\ deliverySeq' = IF inbound_needs_delivery_ack(f) THEN deliverySeq + 1
                    ELSE deliverySeq
  /\ UNCHANGED <<rpcVars, pushed, renewal>>

(* A frame that is pushed back arrives like any other, and goes to the end. *)
push_pending_event(f) ==
  /\ f.rpc = NoRpc
  /\ enqueue_pending_locked(f)
  /\ pushed' = arrived'
  /\ UNCHANGED <<rpcVars, deliverySeq, renewal>>

-----------------------------------------------------------------------------
(* Leaving the queue.                                                       *)

read_event ==
  /\ ~firing
  /\ queue # <<>>
  /\ queue' = Tail(queue)
  /\ lastRead' = Head(queue).id
  /\ forwarded' = IF Head(queue).frame.rpc = NoRpc THEN forwarded
                  ELSE forwarded \cup {Head(queue).frame.rpc}
  /\ UNCHANGED <<maxInbound, dropped, arrived, pushed, hookVars,
                 rpcVars, deliverySeq, renewal>>

Discard(kept) ==
  /\ ~firing
  /\ queue' = kept
  /\ UNCHANGED <<maxInbound, dropped, arrived, lastRead, pushed,
                 forwarded, rpcVars, hookVars, deliverySeq>>

clear_pending_events == Discard(<<>>) /\ UNCHANGED renewal

(* Mutant of peel: a label is put back where its frame was.                 *)
PeelKeepingLabels ==
  /\ ~firing
  /\ queue' = [i \in DOMAIN queue |->
                 IF stale_pending_frame(queue[i].frame)
                   THEN [queue[i] EXCEPT !.frame.kind = "label"] ELSE queue[i]]
  /\ UNCHANGED <<maxInbound, dropped, arrived, lastRead, pushed,
                 forwarded, rpcVars, deliverySeq, hookVars, renewal>>

peel_stale_pending_control_events ==
  /\ Discard(Kept(queue, {i \in DOMAIN queue :
                            ~stale_pending_frame(queue[i].frame)}))
  /\ UNCHANGED renewal

-----------------------------------------------------------------------------
(* The cap, the callback, the requests and reconnect.                       *)

set_inbound_max_size(n) ==
  /\ maxInbound' = IF n > 0 THEN n ELSE maxInbound
  /\ UNCHANGED <<queue, dropped, arrived, lastRead, pushed, forwarded,
                 hookVars, rpcVars, deliverySeq, renewal>>

(* set_stream_degraded_callback stores the callback, or none, and then      *)
(* resets the flag; a drop and another setter may come in between.          *)
StoreHook(cb) ==
  /\ rearms < MaxRearms
  /\ rearms' = rearms + 1
  /\ hook' = cb
  /\ arming' = arming + 1
  /\ UNCHANGED <<queueVars, rpcVars, notified, firing, stale, calls, drops,
                 deliverySeq, renewal>>

Rearm ==
  /\ notified' = FALSE
  /\ stale' = firing
  /\ calls' = 0
  /\ drops' = 0
  /\ UNCHANGED <<queueVars, rpcVars, hook, firing, rearms, deliverySeq>>

ArmHook ==
  /\ arming > 0
  /\ arming' = arming - 1
  /\ Rearm
  /\ UNCHANGED renewal

MoveRequest(r, from, to) ==
  /\ rpc[r] = from
  /\ rpc' = [rpc EXCEPT ![r] = to]
  /\ UNCHANGED <<queueVars, hookVars, answered, deliverySeq, renewal>>

(* request registers a waiter and sends.                                    *)
request(r) == MoveRequest(r, "idle", "waiting")

(* Its timeout gives up the receiver, and only then removes the waiter.     *)
Timeout(r) == MoveRequest(r, "waiting", "timing")

RemoveWaiter(r) == MoveRequest(r, "timing", "expired")

(* reconnect passes through this state in three critical sections, between  *)
(* which the reader of the old connection still routes frames.              *)
BeginReconnect ==
  /\ renewal = "none"
  /\ rearms < MaxRearms
  /\ rearms' = rearms + 1
  /\ renewal' = "waiters"
  /\ UNCHANGED <<queueVars, rpcVars, notified, hook, arming, firing, stale,
                 calls, drops, deliverySeq>>

ClearWaiters ==
  /\ renewal = "waiters"
  /\ renewal' = "queue"
  /\ rpc' = [r \in Rpcs |-> CASE rpc[r] = "waiting" -> "failed"
                              [] rpc[r] = "timing" -> "expired"
                              [] OTHER -> rpc[r]]
  /\ UNCHANGED <<queueVars, hookVars, answered, deliverySeq>>

ClearQueue ==
  /\ renewal = "queue"
  /\ renewal' = "hook"
  /\ Discard(<<>>)

ClearNotified ==
  /\ renewal = "hook"
  /\ renewal' = "none"
  /\ Rearm
  /\ UNCHANGED arming

Next ==
  \/ \E f \in Frames :
       RouteAnswer(f) \/ RouteEvent(f) \/ push_pending_event(f)
  \/ read_event
  \/ clear_pending_events
  \/ peel_stale_pending_control_events
  \/ \E n \in Caps : set_inbound_max_size(n)
  \/ \E cb \in {"none", "set"} : StoreHook(cb)
  \/ ArmHook
  \/ FireHook
  \/ \E r \in Rpcs : request(r) \/ Timeout(r) \/ RemoveWaiter(r)
  \/ BeginReconnect
  \/ ClearWaiters
  \/ ClearQueue
  \/ ClearNotified

Spec == Init /\ [][Next]_vars

-----------------------------------------------------------------------------
(* Properties.                                                              *)

LossyQueue ==
  INSTANCE LossyQueue WITH
    pending <- [i \in DOMAIN queue |-> queue[i].id],
    cap <- maxInbound,
    lost <- dropped,
    newest <- lastRead

(* Whatever is evicted, peeled, cleared, answered or read, and however the  *)
(* cap moves, this is a queue that loses for want of room only, one frame   *)
(* for each arrival, counts it, and keeps the order of the rest.  A frame   *)
(* that is pushed back is one more arrival: PushedBackIsNext is what the    *)
(* documentation says of it.                                                *)
LosesOnlyForRoom == LossyQueue!Spec

(* A frame that is urgent, or that the daemon was told is delivered, is     *)
(* pushed out by an overflow only when nothing else could go.               *)
NormalGoesFirst ==
  [][dropped' # dropped =>
       \A i \in DOMAIN queue :
         /\ \A j \in DOMAIN queue' : queue'[j] # queue[i]
         /\ \/ Priority(queue[i]) < NORMAL
            \/ inbound_needs_delivery_ack(queue[i].frame)
         => ~HasNormal(queue) /\ Priority(Last(queue')) < NORMAL]_vars

(* Once a callback is armed, the first drop has called it, and no later     *)
(* one, whatever setters and reconnects race with drops.  It was called     *)
(* once more, or without a drop, only when a drop had taken the old flag    *)
(* and not yet looked at the callback as the flag was reset.                *)
DropsAreReported ==
  hook = "set" /\ arming = 0 /\ ~firing =>
    calls = (IF drops > 0 THEN 1 ELSE 0) + (IF stale THEN 1 ELSE 0)

(* The answer to a request goes to one place, however it races the timeout  *)
(* of the request and reconnects: among the events there is at most one     *)
(* copy of it, read or pending, and none unless the caller was told that    *)
(* the request failed; one that a timeout swallowed is not there either.    *)
AnswerGoesToOne ==
  \A r \in Rpcs :
    /\ r \in forwarded => rpc[r] \in {"expired", "failed"}
    /\ \A i \in DOMAIN queue :
         queue[i].frame.rpc = r =>
           /\ rpc[r] \in {"expired", "failed"} /\ r \notin forwarded
           /\ \A j \in DOMAIN queue : queue[j].frame.rpc = r => i = j

(* What the documentation says, and the code does not do: terminals, status *)
(* and errors are never dropped by an overflow.                             *)
CriticalNeverDropped ==
  [][dropped' # dropped =>
       \A i \in DOMAIN queue :
         Priority(queue[i]) = CRITICAL =>
           \E j \in DOMAIN queue' : queue'[j] = queue[i]]_vars

(* What the documentation says, and the code does not do: a frame that was  *)
(* pushed back comes ahead of what the next reads would have returned.      *)
PushedBackIsNext ==
  [][lastRead' # lastRead /\ (\E i \in DOMAIN queue : queue[i].id = pushed)
       => lastRead' = pushed]_vars

=============================================================================
