------------------------------- MODULE Transport -------------------------------
(***************************************************************************)
(* The connection of a Client (src/src/client.rs): connect, close,          *)
(* reconnect, the reader of every connection with mark_disconnected,        *)
(* requests with their waiters, and consumers of events with their          *)
(* wake-ups.  connect_with_retries is from src/src/session.rs.              *)
(*                                                                         *)
(* Calls, readers, requests and consumers run on several threads and        *)
(* interleave at every critical section.  Stores that follow each other and *)
(* that no step reads apart are one step: connected with reader_alive (up), *)
(* and disconnect_cause with its neighbour.  The writer task is its         *)
(* channel: a connection can be written to while write_tx holds its sender. *)
(* Frames are what the handshake tells apart; overflow and late answers are *)
(* in InboundQueue.                                                         *)
(***************************************************************************)
EXTENDS Naturals, Sequences, SequencesExt

CONSTANTS
  Calls,        \* calls of connect, connect_with_retries, reconnect and close
  Ops,          \* which of them
  OneAtATime,   \* whether a call starts only when the previous one returned
  MaxRetries,   \* max_retries of connect_with_retries
  Requests,     \* calls of request and subscribe
  Subscribes,   \* those that are subscribe
  Apps,         \* forwarders of receive_messages
  MaxConns,     \* bound on the connections dialled
  MaxPending    \* bound on the events pending

Conns == 1..MaxConns
NoConn == 0
Consumers == Calls \cup Apps

ASSUME TransportAssumption ==
  /\ Ops \subseteq {"connect", "retries", "reconnect", "close"}
  /\ OneAtATime \in BOOLEAN
  /\ MaxRetries \in Nat \ {0}
  /\ Subscribes \subseteq Requests
  /\ MaxConns \in Nat
  /\ MaxPending \in Nat
  /\ Conns \cap Calls = {}
  /\ Calls \cap Apps = {}

VARIABLES
  writeTx,      \* connection whose sender write_tx holds
  up,           \* connected, and reader_alive
  handshakeComplete,
  disconnectCause,
  waiters,      \* keys of rpc_waiters
  req,          \* where each request stands
  sentOn,       \* connection each request was sent on
  inbound,      \* pending events
  eye,          \* where each consumer stands between the queue and its sleep
  permit,       \* inbound_notify holds a permit
  sleepers,     \* consumers registered with inbound_notify, oldest first
  contested,    \* two consumers have used the queue at the same time
  pc,           \* where each call, and the reader of each connection, stands
  tries,        \* attempts each call has left
  conn,         \* connection each call has dialled
  dialled,      \* connections dialled so far
  asked         \* connections with an unanswered connection_init

linkVars == <<writeTx, up, handshakeComplete, disconnectCause>>
reqVars == <<waiters, req, sentOn>>
queueVars == <<inbound, eye, permit, sleepers, contested>>
dialVars == <<tries, conn, dialled, asked>>
vars == <<linkVars, reqVars, queueVars, pc, dialVars>>

(* An ack that says ready, one that asks for another connection_init (an    *)
(* error with a readiness code does too), one that refuses.                 *)
Acks == {"ready", "notReady", "refused"}

Returned == {"ok", "err", "done"}
MarkSteps == {"markUp", "markTx", "markWaiters", "markWake", "done"}
CallSteps ==
  {"start", "reTx", "reUp", "reWaiters", "reInbound", "check", "dial",
   "publish", "setUp", "spawn", "init", "ack", "closeTx"}
    \cup MarkSteps \cup Returned

TypeOK ==
  /\ writeTx \in Conns \cup {NoConn}
  /\ up \in BOOLEAN
  /\ handshakeComplete \in BOOLEAN
  /\ disconnectCause \in {"none", "clean", "unclean"}
  /\ waiters \subseteq Requests
  /\ req \in [Requests -> {"idle", "send", "sent", "undo", "over"}]
  /\ sentOn \in [Requests -> Conns \cup {NoConn}]
  /\ inbound \in Seq(Acks \cup {"event"})
  /\ eye \in [Consumers -> {"shut", "queue", "register", "asleep"}]
  /\ permit \in BOOLEAN
  /\ sleepers \in Seq(Consumers)
  /\ contested \in BOOLEAN
  /\ pc \in [Calls \cup Conns ->
               CallSteps \cup MarkSteps \cup {"none", "reading", "notify"}]
  /\ tries \in [Calls -> 0..MaxRetries]
  /\ conn \in [Calls -> Conns \cup {NoConn}]
  /\ dialled \in 0..MaxConns
  /\ asked \subseteq Conns

Init ==
  /\ writeTx = NoConn
  /\ up = FALSE
  /\ handshakeComplete = FALSE
  /\ disconnectCause = "none"
  /\ waiters = {}
  /\ req = [r \in Requests |-> "idle"]
  /\ sentOn = [r \in Requests |-> NoConn]
  /\ inbound = <<>>
  /\ eye = [k \in Consumers |-> "shut"]
  /\ permit = FALSE
  /\ sleepers = <<>>
  /\ contested = FALSE
  /\ pc = [p \in Calls \cup Conns |-> IF p \in Calls THEN "start" ELSE "none"]
  /\ tries = [c \in Calls |-> 0]
  /\ conn = [c \in Calls |-> NoConn]
  /\ dialled = 0
  /\ asked = {}

Step(p, from, to) == pc[p] = from /\ pc' = [pc EXCEPT ![p] = to]

-----------------------------------------------------------------------------
(* Consumers: the loop that read_event and receive_messages share.          *)

(* notify_one wakes the oldest sleeper, or leaves a permit.                 *)
NotifyOne ==
  IF sleepers = <<>> THEN permit' = TRUE /\ UNCHANGED sleepers
  ELSE sleepers' = Tail(sleepers) /\ UNCHANGED permit

(* notify_waiters wakes whoever sleeps, and leaves no permit.               *)
NotifyWaiters == sleepers' = <<>> /\ UNCHANGED permit

Open(k) ==
  /\ eye' = [eye EXCEPT ![k] = "queue"]
  /\ contested' = (contested \/ \E o \in Consumers : eye[o] # "shut")

(* receive_messages spawns a forwarder.                                     *)
Subscribe(k) ==
  /\ eye[k] = "shut"
  /\ Open(k)
  /\ UNCHANGED <<linkVars, reqVars, inbound, permit, sleepers, pc, dialVars>>

(* It forwards what it finds; it returns when its receiver is dropped.      *)
Forward(k) ==
  /\ eye[k] = "queue"
  /\ inbound # <<>>
  /\ inbound' = Tail(inbound)
  /\ eye' \in {eye, [eye EXCEPT ![k] = "shut"]}
  /\ UNCHANGED <<linkVars, reqVars, permit, sleepers, contested, pc, dialVars>>

(* An empty queue: a forwarder of a dead connection returns, while          *)
(* wait_connection_ack reads again.                                         *)
FindNothing(k) ==
  /\ eye[k] = "queue"
  /\ inbound = <<>>
  /\ up \/ k \in Apps
  /\ eye' = [eye EXCEPT ![k] = IF up THEN "register" ELSE "shut"]
  /\ UNCHANGED <<linkVars, reqVars, inbound, permit, sleepers, contested, pc,
                 dialVars>>

(* notified(): a permit is used up at once, else the consumer sleeps.       *)
Register(k) ==
  /\ eye[k] = "register"
  /\ permit' = FALSE
  /\ eye' = [eye EXCEPT ![k] = IF permit THEN "queue" ELSE "asleep"]
  /\ sleepers' = IF permit THEN sleepers ELSE Append(sleepers, k)
  /\ UNCHANGED <<linkVars, reqVars, inbound, contested, pc, dialVars>>

WakeUp(k) ==
  /\ eye[k] = "asleep"
  /\ ~Contains(sleepers, k)
  /\ eye' = [eye EXCEPT ![k] = "queue"]
  /\ UNCHANGED <<linkVars, reqVars, inbound, permit, sleepers, contested, pc,
                 dialVars>>

-----------------------------------------------------------------------------
(* mark_disconnected, run by a reader or by a close.                        *)

MarkUp(p) ==
  /\ Step(p, "markUp", "markTx")
  /\ up' = FALSE
  /\ UNCHANGED <<writeTx, handshakeComplete, disconnectCause, reqVars,
                 queueVars, dialVars>>

(* Mutant of MarkTx: the sender stays in write_tx.                          *)
MarkTxKept(p) ==
  /\ Step(p, "markTx", "markWaiters")
  /\ UNCHANGED <<linkVars, reqVars, queueVars, dialVars>>

MarkTx(p) ==
  /\ Step(p, "markTx", "markWaiters")
  /\ writeTx' = NoConn
  /\ disconnectCause' =
       IF disconnectCause # "none" THEN disconnectCause
       ELSE IF p \in Calls THEN "clean" ELSE "unclean"
  /\ UNCHANGED <<up, handshakeComplete, reqVars, queueVars, dialVars>>

MarkWaiters(p) ==
  /\ Step(p, "markWaiters", "markWake")
  /\ waiters' = {}
  /\ UNCHANGED <<linkVars, req, sentOn, queueVars, dialVars>>

MarkWake(p) ==
  /\ Step(p, "markWake", "done")
  /\ NotifyWaiters
  /\ UNCHANGED <<linkVars, reqVars, inbound, eye, contested, dialVars>>

MarkDisconnected(p) ==
  MarkUp(p) \/ MarkTx(p) \/ MarkWaiters(p) \/ MarkWake(p)

-----------------------------------------------------------------------------
(* The reader task of connection g.                                         *)

(* What the daemon answers to connection_init, or any event.                *)
RouteFrame(g, kind) ==
  /\ Step(g, "reading", "notify")
  /\ IF kind \in Acks THEN g \in asked /\ asked' = asked \ {g}
     ELSE UNCHANGED asked
  /\ Len(inbound) < MaxPending
  /\ inbound' = Append(inbound, kind)
  /\ UNCHANGED <<linkVars, reqVars, eye, permit, sleepers, contested, tries,
                 conn, dialled>>

(* Mutant of Notify: only those asleep by now are told.                     *)
NotifyAsleep(g) ==
  /\ Step(g, "notify", "reading")
  /\ NotifyWaiters
  /\ UNCHANGED <<linkVars, reqVars, inbound, eye, contested, dialVars>>

Notify(g) ==
  /\ Step(g, "notify", "reading")
  /\ NotifyOne
  /\ UNCHANGED <<linkVars, reqVars, inbound, eye, contested, dialVars>>

RouteAnswer(g, r) ==
  /\ pc[g] = "reading"
  /\ sentOn[r] = g
  /\ r \in waiters
  /\ waiters' = waiters \ {r}
  /\ UNCHANGED <<linkVars, req, sentOn, queueVars, pc, dialVars>>

(* Mutant of EndReader: the task returns where it should break.             *)
ReturnReader(g) ==
  /\ Step(g, "reading", "done")
  /\ UNCHANGED <<linkVars, reqVars, queueVars, dialVars>>

(* The socket ends or fails.                                                *)
EndReader(g) ==
  /\ Step(g, "reading", "markUp")
  /\ UNCHANGED <<linkVars, reqVars, queueVars, dialVars>>

-----------------------------------------------------------------------------
(* request and subscribe.                                                   *)

ReqStep(r, from, to) == req[r] = from /\ req' = [req EXCEPT ![r] = to]

InsertWaiter(r) ==
  /\ ReqStep(r, "idle", "send")
  /\ waiters' = waiters \cup {r}
  /\ UNCHANGED <<linkVars, sentOn, queueVars, pc, dialVars>>

SendRequest(r) ==
  /\ ReqStep(r, "send", "sent")
  /\ writeTx # NoConn
  /\ sentOn' = [sentOn EXCEPT ![r] = writeTx]
  /\ UNCHANGED <<linkVars, waiters, queueVars, pc, dialVars>>

(* write_tx is empty, or the writer task has ended on a broken socket;      *)
(* subscribe returns at once and leaves its waiter behind.                  *)
SendFails(r) ==
  /\ ReqStep(r, "send", IF r \in Subscribes THEN "over" ELSE "undo")
  /\ UNCHANGED <<linkVars, waiters, sentOn, queueVars, pc, dialVars>>

(* The waiter was served, failed or dropped; or the timeout removes it, or  *)
(* the failed send does.                                                    *)
Return(r) ==
  /\ ReqStep(r, "sent", "over") \/ ReqStep(r, "undo", "over")
  /\ waiters' = waiters \ {r}
  /\ UNCHANGED <<linkVars, sentOn, queueVars, pc, dialVars>>

-----------------------------------------------------------------------------
(* Calls.                                                                   *)

Entry == [connect |-> "check", retries |-> "check", reconnect |-> "reTx",
          close |-> "closeTx"]

Start(c, o) ==
  /\ OneAtATime => \A d \in Calls : pc[d] \in Returned \cup {"start"}
  /\ Step(c, "start", Entry[o])
  /\ tries' = [tries EXCEPT ![c] = IF o = "retries" THEN MaxRetries ELSE 1]
  /\ UNCHANGED <<linkVars, reqVars, queueVars, conn, dialled, asked>>

(* reconnect and close take the sender away, and then mark the client down, *)
(* reconnect in steps of its own before it goes on as connect does.         *)
DropTx(c) ==
  /\ Step(c, "reTx", "reUp") \/ Step(c, "closeTx", "markUp")
  /\ writeTx' = NoConn
  /\ handshakeComplete' =
       IF pc[c] = "closeTx" THEN FALSE ELSE handshakeComplete
  /\ UNCHANGED <<up, disconnectCause, reqVars, queueVars, dialVars>>

ReUp(c) ==
  /\ Step(c, "reUp", "reWaiters")
  /\ up' = FALSE
  /\ handshakeComplete' = FALSE
  /\ disconnectCause' = "none"
  /\ UNCHANGED <<writeTx, reqVars, queueVars, dialVars>>

ReWaiters(c) ==
  /\ Step(c, "reWaiters", "reInbound")
  /\ waiters' = {}
  /\ UNCHANGED <<linkVars, req, sentOn, queueVars, dialVars>>

ReInbound(c) ==
  /\ Step(c, "reInbound", "check")
  /\ inbound' = <<>>
  /\ UNCHANGED <<linkVars, reqVars, eye, permit, sleepers, contested, dialVars>>

(* A failed attempt: connect_with_retries tries again while it may.         *)
Fail(c) ==
  /\ pc' = [pc EXCEPT ![c] = IF tries[c] > 1 THEN "check" ELSE "err"]
  /\ tries' = [tries EXCEPT ![c] = @ - 1]
  /\ UNCHANGED <<conn, dialled>>

Check(c) ==
  /\ Step(c, "check", IF up THEN "ok" ELSE "dial")
  /\ UNCHANGED <<linkVars, reqVars, queueVars, dialVars>>

Dial(c) ==
  /\ dialled < MaxConns
  /\ Step(c, "dial", "publish")
  /\ dialled' = dialled + 1
  /\ conn' = [conn EXCEPT ![c] = dialled + 1]
  /\ UNCHANGED <<linkVars, reqVars, queueVars, tries, asked>>

(* The dial fails, or connection_init cannot be sent.                       *)
AttemptFails(c) ==
  /\ pc[c] \in {"dial", "init"}
  /\ Fail(c)
  /\ UNCHANGED <<linkVars, reqVars, queueVars, asked>>

Publish(c) ==
  /\ Step(c, "publish", "setUp")
  /\ writeTx' = conn[c]
  /\ UNCHANGED <<up, handshakeComplete, disconnectCause, reqVars, queueVars,
                 dialVars>>

SetUp(c) ==
  /\ Step(c, "setUp", "spawn")
  /\ up' = TRUE
  /\ UNCHANGED <<writeTx, handshakeComplete, disconnectCause, reqVars,
                 queueVars, dialVars>>

Spawn(c) ==
  /\ pc[c] = "spawn"
  /\ pc' = [pc EXCEPT ![c] = "init", ![conn[c]] = "reading"]
  /\ disconnectCause' = "none"
  /\ UNCHANGED <<writeTx, up, handshakeComplete, reqVars, queueVars, dialVars>>

(* Mutant of SendInit: an empty write_tx goes unnoticed.                    *)
SendInitUnchecked(c) ==
  /\ Step(c, "init", "ack")
  /\ asked' = asked \cup {writeTx}
  /\ Open(c)
  /\ UNCHANGED <<linkVars, reqVars, inbound, permit, sleepers, tries, conn,
                 dialled>>

(* connection_init goes out on whatever connection write_tx holds.          *)
SendInit(c) ==
  /\ Step(c, "init", "ack")
  /\ writeTx # NoConn
  /\ asked' = asked \cup {writeTx}
  /\ Open(c)
  /\ UNCHANGED <<linkVars, reqVars, inbound, permit, sleepers, tries, conn,
                 dialled>>

(* wait_connection_ack: a frame that says nothing of readiness is taken out *)
(* of the queue and forgotten.                                              *)
WaitAck(c) ==
  /\ pc[c] = "ack"
  /\ eye[c] = "queue"
  /\ inbound # <<>>
  /\ inbound' = Tail(inbound)
  /\ CASE Head(inbound) = "ready" -> Step(c, "ack", "ok") /\ UNCHANGED dialVars
       [] Head(inbound) = "notReady" ->
            Step(c, "ack", "init") /\ UNCHANGED dialVars
       [] Head(inbound) = "refused" -> Fail(c) /\ UNCHANGED asked
       [] OTHER -> UNCHANGED <<pc, dialVars>>
  /\ handshakeComplete' = (handshakeComplete \/ Head(inbound) = "ready")
  /\ eye' = [eye EXCEPT ![c] = IF Head(inbound) \in Acks THEN "shut" ELSE @]
  /\ UNCHANGED <<writeTx, up, disconnectCause, reqVars, permit, sleepers,
                 contested>>

(* Dropping the future of notified() takes its entry out.                   *)
Deregister(c) ==
  \E i \in 1..Len(sleepers) :
    sleepers[i] = c /\ sleepers' = RemoveAt(sleepers, i)

(* The deadline of the handshake, in one of the two awaits of read_event.   *)
AckTimesOut(c) ==
  /\ pc[c] = "ack"
  /\ \/ eye[c] = "queue" /\ UNCHANGED sleepers
     \/ Deregister(c)
  /\ Fail(c)
  /\ eye' = [eye EXCEPT ![c] = "shut"]
  /\ UNCHANGED <<linkVars, reqVars, inbound, permit, contested, asked>>

(* The two seconds of one read, after which the next read looks again.      *)
ReadTimesOut(c) ==
  /\ Deregister(c)
  /\ eye' = [eye EXCEPT ![c] = "queue"]
  /\ UNCHANGED <<linkVars, reqVars, inbound, permit, contested, pc, dialVars>>

-----------------------------------------------------------------------------
Connect(c) ==
  \/ Check(c) \/ Dial(c) \/ AttemptFails(c) \/ Publish(c) \/ SetUp(c)
  \/ Spawn(c) \/ SendInit(c) \/ WaitAck(c) \/ AckTimesOut(c) \/ ReadTimesOut(c)

Reader(g) ==
  \/ \E kind \in Acks \cup {"event"} : RouteFrame(g, kind)
  \/ \E r \in Requests : RouteAnswer(g, r)
  \/ Notify(g)
  \/ EndReader(g)
  \/ MarkDisconnected(g)

Next ==
  \/ \E c \in Calls, o \in Ops : Start(c, o)
  \/ \E c \in Calls :
       \/ DropTx(c) \/ ReUp(c) \/ ReWaiters(c) \/ ReInbound(c)
       \/ Connect(c)
       \/ MarkDisconnected(c)
  \/ \E g \in Conns : Reader(g)
  \/ \E r \in Requests :
       InsertWaiter(r) \/ SendRequest(r) \/ SendFails(r) \/ Return(r)
  \/ \E k \in Apps : Subscribe(k) \/ Forward(k)
  \/ \E k \in Consumers : FindNothing(k) \/ Register(k) \/ WakeUp(k)

Spec == Init /\ [][Next]_vars

-----------------------------------------------------------------------------
(* Properties.                                                              *)

(* A request that went out on a connection does not wait out its timeout    *)
(* once the reader of that connection has failed the pending requests,      *)
(* however the request raced it and whatever reconnects in between.         *)
NoStrandedWaiter ==
  \A r \in waiters :
    req[r] = "sent" => pc[sentOn[r]] \notin {"markWake", "done"}

(* The client cannot stay up, or keep a sender, without a connection whose  *)
(* reader will still mark it down: no interleaving of connects, closes and  *)
(* readers of older connections leaves it connected to nothing.             *)
ReaderIsLeft(steps) ==
  \/ \E c \in Calls : pc[c] \in {"setUp", "spawn"}
  \/ \E g \in Conns : pc[g] \in {"reading", "notify", "markUp"} \cup steps

UpMeansAReaderIsLeft ==
  /\ up => ReaderIsLeft({})
  /\ writeTx # NoConn => ReaderIsLeft({"markTx"})

(* As long as one consumer at a time uses the queue, it is not left asleep  *)
(* with a frame pending that nobody is about to notify it of.               *)
NoLostWakeUp ==
  ~contested /\ sleepers # <<>> /\ inbound # <<>> =>
    \E g \in Conns : pc[g] = "notify"

(* What the documentation says, and the code does not do: connect returns   *)
(* Ok after the handshake.                                                  *)
ConnectOkMeansHandshaken ==
  [][\A c \in Calls : pc[c] # "ok" /\ pc'[c] = "ok" => handshakeComplete']_vars

=============================================================================
