----------------------------- MODULE DaemonSession -----------------------------
(***************************************************************************)
(* A conversation over two sockets, src/src/appkit/daemon_session.rs: the   *)
(* stream socket, whose frames iter_turn_chunks reads, the RPC sidecar,     *)
(* which is dialled when it is needed, and the loop the session is on.      *)
(*                                                                         *)
(* Four parties share the session: the call that connects, switches,        *)
(* repairs or closes it (one at a time, pc `ctl`), the iteration that holds *)
(* read_lock (`iter`), whoever sends, and an RPC call (`rpc`).  A step is   *)
(* what happens between two awaits that another party could tell apart.     *)
(* How a socket connects is in Transport, how its queue overflows in        *)
(* InboundQueue, and what a frame does to a reader in TurnBoundary.         *)
(***************************************************************************)
EXTENDS TurnBoundary, Subsequences, SequencesExt

CONSTANTS
  MaxLoops,   \* bound on the loops the daemon creates
  MaxTurns,   \* bound on the inputs sent
  MaxEvents,  \* bound on the events, errors and cancellations
  MaxDrops,   \* bound on the connections lost
  MaxCalls    \* bound on the calls of connect, switch_loop, close, ...

ASSUME SessionAssumption ==
  /\ MaxLoops \in Nat
  /\ MaxTurns \in Nat
  /\ MaxEvents \in Nat
  /\ MaxDrops \in Nat
  /\ MaxCalls \in Nat

NoLoop == 0
Loops == 1..MaxLoops
Turns == 1..MaxTurns

VARIABLES
  link,       \* the stream client's is_connection_alive
  listening,  \* loops the daemon streams on the stream socket
  loopId,     \* loop_id
  inbound,    \* pending events of the stream client
  ctl, target, repair,  \* where the call is, the loop it is for, and
                        \* whether it is ensure_connected
  rpc,        \* where the RPC call is
  rpcUp,      \* rpc_client is connected
  rpcFlag,    \* rpc_connected
  iter,       \* where the iteration is
  reader,     \* its turn boundary
  expected,   \* its expected_loop_id
  created,    \* loops created by the daemon
  gone,       \* loops it has lost
  work,       \* the turn each loop runs, and the inputs it has waiting
  sent, events, drops, calls,  \* counters for the bounds
  (* What the properties remember.                                          *)
  unsure,     \* a call has failed, and none has succeeded in full since
  mixed,      \* a call and an iteration have overlapped
  awaited,    \* the turn sent and not yet returned by an iteration
  yielded,    \* turns whose chunks the iteration has returned
  calm        \* the session has been used, and has worked, in sequence

linkVars == <<link, listening>>
callVars == <<ctl, target, repair, calls, unsure>>
rpcVars == <<rpc, rpcUp, rpcFlag>>
iterVars == <<iter, reader, expected, yielded>>
daemonVars == <<created, gone, work>>
useVars == <<awaited, calm>>
vars == <<linkVars, loopId, inbound, callVars, rpcVars, iterVars, daemonVars,
          sent, events, drops, mixed, useVars>>

Frames == [kind : Kinds, turn : {NoTurn} \cup Turns, loop : {NoLoop} \cup Loops]

Works == [turn : {NoTurn} \cup Turns, progress : BOOLEAN, closing : BOOLEAN,
          cancelled : BOOLEAN, waiting : Seq(Turns)]

NoWork == [turn |-> NoTurn, progress |-> FALSE, closing |-> FALSE,
           cancelled |-> FALSE, waiting |-> <<>>]

CtlSteps == {"idle", "dial", "probe", "new", "subscribe", "store",
             "closeStream", "closeRpc", "clearFlag"}
RpcSteps == {"idle", "ensure", "dial", "flag", "ask"}
IterSteps == {"none", "peel", "read", "drain"}

TypeOK ==
  /\ link \in BOOLEAN
  /\ listening \subseteq Loops
  /\ loopId \in {NoLoop} \cup Loops
  /\ inbound \in Seq(Frames)
  /\ ctl \in CtlSteps
  /\ repair \in BOOLEAN
  /\ target \in {NoLoop} \cup Loops
  /\ rpc \in RpcSteps
  /\ rpcUp \in BOOLEAN
  /\ rpcFlag \in BOOLEAN
  /\ iter \in IterSteps
  /\ reader \in Readers(MaxTurns)
  /\ expected \in {NoLoop} \cup Loops
  /\ created \in 0..MaxLoops
  /\ gone \subseteq 1..created
  /\ work \in [Loops -> Works]
  /\ sent \in 0..MaxTurns
  /\ events \in 0..MaxEvents
  /\ drops \in 0..MaxDrops
  /\ calls \in 0..MaxCalls
  /\ unsure \in BOOLEAN
  /\ mixed \in BOOLEAN
  /\ awaited \in {NoTurn} \cup Turns
  /\ yielded \subseteq {NoTurn} \cup Turns
  /\ calm \in BOOLEAN

Init ==
  /\ link = FALSE
  /\ listening = {}
  /\ loopId = NoLoop
  /\ inbound = <<>>
  /\ ctl = "idle" /\ target = NoLoop /\ repair = FALSE
  /\ rpc = "idle" /\ rpcUp = FALSE /\ rpcFlag = FALSE
  /\ iter = "none"
  /\ reader = NewReader
  /\ expected = NoLoop
  /\ created = 0
  /\ gone = {}
  /\ work = [l \in Loops |-> NoWork]
  /\ sent = 0 /\ events = 0 /\ drops = 0 /\ calls = 0
  /\ unsure = FALSE
  /\ mixed = FALSE
  /\ awaited = NoTurn
  /\ yielded = {}
  /\ calm = TRUE

-----------------------------------------------------------------------------
(* connect, new_loop, switch_loop, ensure_connected and close.              *)

CallUnchanged ==
  UNCHANGED <<inbound, rpc, iterVars, gone, work, sent, events, drops>>

(* A call next to a turn, or next to an iteration.                          *)
StartCall(to, loop, repairs) ==
  /\ ctl = "idle"
  /\ calls < MaxCalls
  /\ calls' = calls + 1
  /\ ctl' = to
  /\ target' = loop
  /\ repair' = repairs
  /\ mixed' = (mixed \/ iter # "none")
  /\ calm' = (calm /\ iter = "none" /\ awaited = NoTurn)
  /\ UNCHANGED <<linkVars, loopId, rpcUp, rpcFlag, created, unsure,
                 awaited>>
  /\ CallUnchanged

connect(loop) == StartCall("dial", loop, FALSE)

new_loop == StartCall("new", NoLoop, FALSE)

switch_loop(loop) == StartCall("subscribe", loop, FALSE)

close == StartCall("closeStream", NoLoop, FALSE)

(* A live connection is taken as it is: the call does nothing.              *)
ensure_connected == ~link /\ StartCall("dial", NoLoop, TRUE)

CallGoes(from, to) ==
  /\ ctl = from
  /\ ctl' = to
  /\ UNCHANGED <<calls, mixed, useVars>>
  /\ CallUnchanged

(* The call fails: whatever it has done by then stays.                      *)
Fails(from) ==
  /\ CallGoes(from, "idle")
  /\ target' = NoLoop
  /\ repair' = FALSE
  /\ unsure' = TRUE

(* connect_with_retries: a client that is connected is left alone, a failed *)
(* handshake leaves it connected.  A new connection streams nothing yet.    *)
Dial ==
  /\ \/ /\ CallGoes("dial", CASE repair /\ loopId # NoLoop -> "probe"
                              [] target # NoLoop -> "subscribe"
                              [] OTHER -> "new")
        /\ link' = TRUE
        /\ target' = IF repair THEN loopId ELSE target
        /\ UNCHANGED <<repair, unsure>>
     \/ /\ ~link
        /\ link' \in BOOLEAN
        /\ Fails("dial")
  /\ UNCHANGED <<listening, loopId, rpcUp, rpcFlag, created>>

(* A request about a loop may have its effect and still not be answered.    *)
Subscribed == IF link /\ target \notin gone THEN listening \cup {target}
                                             ELSE listening

(* reattach_and_probe: reattach, subscribe, loop_get.  Any failure leads to *)
(* a fresh loop, a stale loop always fails; what was subscribed stays so.   *)
Probe ==
  /\ \/ /\ CallGoes("probe", "idle")
        /\ link
        /\ target \notin gone
        /\ listening' = Subscribed
        /\ target' = NoLoop
        /\ repair' = FALSE
        /\ unsure' = FALSE
     \/ /\ CallGoes("probe", "closeRpc")
        /\ listening' \in {listening, Subscribed}
        /\ UNCHANGED <<target, repair, unsure>>
  /\ UNCHANGED <<link, loopId, rpcUp, rpcFlag, created>>

(* bootstrap_loop_session: loop_new, unless a loop is resumed, then         *)
(* loop_subscribe; the session takes the loop over when both have answered. *)
LoopNew ==
  /\ \/ /\ CallGoes("new", "subscribe")
        /\ link
        /\ created < MaxLoops
        /\ created' = created + 1
        /\ target' = created + 1
        /\ UNCHANGED <<repair, unsure>>
     \/ Fails("new") /\ UNCHANGED created
  /\ UNCHANGED <<linkVars, loopId, rpcUp, rpcFlag>>

(* Mutant of LoopSubscribe: the loop is taken over without being subscribed.*)
SubscribeNothing ==
  /\ CallGoes("subscribe", "store")
  /\ link
  /\ UNCHANGED <<linkVars, target, repair, unsure, loopId, rpcUp,
                 rpcFlag, created>>

LoopSubscribe ==
  /\ \/ /\ CallGoes("subscribe", "store")
        /\ link
        /\ target \notin gone
        /\ listening' = Subscribed
        /\ UNCHANGED <<target, repair, unsure>>
     \/ /\ Fails("subscribe")
        /\ listening' \in {listening, Subscribed}
  /\ UNCHANGED <<link, loopId, rpcUp, rpcFlag, created>>

StoreLoop ==
  /\ CallGoes("store", "idle")
  /\ loopId' = target
  /\ target' = NoLoop
  /\ repair' = FALSE
  /\ unsure' = FALSE
  /\ UNCHANGED <<linkVars, rpcUp, rpcFlag, created>>

CloseStream ==
  /\ CallGoes("closeStream", "closeRpc")
  /\ link' = FALSE
  /\ listening' = {}
  /\ UNCHANGED <<loopId, target, repair, unsure, rpcUp, rpcFlag,
                 created>>

CloseRpc ==
  /\ CallGoes("closeRpc", "clearFlag")
  /\ rpcUp' = FALSE
  /\ UNCHANGED <<linkVars, loopId, target, repair, unsure, rpcFlag,
                 created>>

(* The flag is behind a mutex that an RPC call holds while it dials.        *)
FlagLocked == rpc \in {"ensure", "dial", "flag"}

ClearFlag ==
  /\ CallGoes("clearFlag", IF repair THEN "new" ELSE "idle")
  /\ ~FlagLocked
  /\ rpcFlag' = FALSE
  /\ repair' = FALSE
  /\ target' = NoLoop
  /\ UNCHANGED <<linkVars, loopId, unsure, rpcUp, created>>

-----------------------------------------------------------------------------
(* ensure_rpc_connected and the RPC that follows it.                        *)

RpcStep(from, to) ==
  /\ rpc = from
  /\ rpc' = to
  /\ UNCHANGED <<linkVars, loopId, inbound, callVars, iterVars, daemonVars,
                 sent, events, drops, mixed, useVars>>

RpcCall == RpcStep("idle", "ensure") /\ UNCHANGED <<rpcUp, rpcFlag>>

RpcCheck ==
  /\ RpcStep("ensure", IF rpcFlag /\ rpcUp THEN "ask" ELSE "dial")
  /\ UNCHANGED <<rpcUp, rpcFlag>>

RpcDial ==
  \/ RpcStep("dial", "flag") /\ rpcUp' = TRUE /\ UNCHANGED rpcFlag
  \/ /\ ~rpcUp
     /\ RpcStep("dial", "idle")
     /\ rpcUp' \in BOOLEAN
     /\ UNCHANGED rpcFlag

RpcFlag ==
  RpcStep("flag", "ask") /\ rpcFlag' = TRUE /\ UNCHANGED rpcUp

(* The answer comes, or an error does.                                      *)
RpcAnswer == RpcStep("ask", "idle") /\ UNCHANGED <<rpcUp, rpcFlag>>

RpcDrop ==
  /\ rpcUp
  /\ drops < MaxDrops
  /\ drops' = drops + 1
  /\ rpcUp' = FALSE
  /\ UNCHANGED <<linkVars, loopId, inbound, callVars, rpc, rpcFlag, iterVars,
                 daemonVars, sent, events, mixed, useVars>>

-----------------------------------------------------------------------------
(* send_turn, cancel_active_turn, and the daemon.                           *)

(* Turns are sent and read in sequence if one is sent when the last one has *)
(* been returned, before its iteration begins or once it reads.             *)
send_turn ==
  LET orderly == calm /\ awaited = NoTurn /\ iter # "drain"
                 /\ ctl = "idle" /\ ~unsure
  IN /\ loopId # NoLoop
     /\ link
     /\ sent < MaxTurns
     /\ sent' = sent + 1
     /\ work' = IF loopId \in gone THEN work
                ELSE [work EXCEPT ![loopId].waiting = Append(@, sent + 1)]
     /\ calm' = orderly
     /\ awaited' = IF orderly THEN sent + 1 ELSE NoTurn
     /\ UNCHANGED <<linkVars, loopId, inbound, callVars, rpcVars, iterVars,
                    created, gone, events, drops, mixed>>

(* A frame of the daemon reaches the client if it streams the loop.         *)
Send(f) ==
  inbound' = IF link /\ f.loop \in listening \cup {NoLoop}
               THEN Append(inbound, f) ELSE inbound

DaemonUnchanged ==
  UNCHANGED <<linkVars, loopId, callVars, rpcVars, iterVars, created, gone,
              sent, drops, mixed, awaited>>

Admit(l) ==
  /\ work[l].turn = NoTurn
  /\ work[l].waiting # <<>>
  /\ work' = [work EXCEPT ![l] = [NoWork EXCEPT !.turn = Head(work[l].waiting),
                                               !.waiting = Tail(work[l].waiting)]]
  /\ Send([kind |-> "running", turn |-> Head(work[l].waiting), loop |-> l])
  /\ UNCHANGED <<events, calm>>
  /\ DaemonUnchanged

(* An event of the turn: text, an empty chunk, or its turn-scoped end.      *)
Work(l, k) ==
  /\ work[l].turn # NoTurn
  /\ ~work[l].closing
  /\ events < MaxEvents
  /\ events' = events + 1
  /\ work' = [work EXCEPT ![l].progress = @ \/ k = "chunk",
                          ![l].closing = (k = "end")]
  /\ Send([kind |-> k, turn |-> work[l].turn, loop |-> l])
  /\ UNCHANGED calm
  /\ DaemonUnchanged

(* A turn that ends without a chunk and without a cancellation is one that  *)
(* iter_turn_chunks does not see the end of.                                *)
Finish(l, k) ==
  /\ work[l].turn # NoTurn
  /\ k = "stopped" => work[l].cancelled
  /\ work' = [work EXCEPT ![l] = [NoWork EXCEPT !.waiting = work[l].waiting]]
  /\ Send([kind |-> k, turn |-> work[l].turn, loop |-> l])
  /\ calm' = (calm /\ (work[l].progress \/ work[l].cancelled))
  /\ UNCHANGED events
  /\ DaemonUnchanged

(* cancel_active_turn: the daemon says so, and the turn will finish.        *)
cancel_active_turn(l) ==
  /\ link
  /\ work[l].turn # NoTurn
  /\ ~work[l].cancelled
  /\ events < MaxEvents
  /\ events' = events + 1
  /\ work' = [work EXCEPT ![l].cancelled = TRUE]
  /\ Send([kind |-> "notice", turn |-> NoTurn, loop |-> l])
  /\ UNCHANGED calm
  /\ DaemonUnchanged

DaemonError ==
  /\ link
  /\ events < MaxEvents
  /\ events' = events + 1
  /\ calm' = FALSE
  /\ Send([kind |-> "error", turn |-> NoTurn, loop |-> NoLoop])
  /\ UNCHANGED work
  /\ DaemonUnchanged

(* The stream socket breaks; the daemon may have restarted without the      *)
(* loops it had.                                                            *)
Drop ==
  /\ link
  /\ drops < MaxDrops
  /\ drops' = drops + 1
  /\ link' = FALSE
  /\ listening' = {}
  /\ calm' = FALSE
  /\ \/ UNCHANGED <<gone, work>>
     \/ gone' = 1..created /\ work' = [l \in Loops |-> NoWork]
  /\ UNCHANGED <<loopId, inbound, callVars, rpcVars, iterVars, created, sent,
                 events, mixed, awaited>>

-----------------------------------------------------------------------------
(* iter_turn_chunks.  Calls wait for read_lock, so one iterates at a time.  *)

IterUnchanged ==
  UNCHANGED <<linkVars, callVars, rpcVars, daemonVars, sent, events, drops>>

BeginIteration ==
  /\ iter = "none"
  /\ iter' = "peel"
  /\ expected' = loopId
  /\ mixed' = (mixed \/ ctl # "idle")
  /\ calm' = (calm /\ ctl = "idle")
  /\ UNCHANGED <<reader, yielded, loopId, inbound, awaited>>
  /\ IterUnchanged

IterGoes(from, to) ==
  /\ iter = from
  /\ iter' = to
  /\ UNCHANGED <<mixed, useVars>>
  /\ IterUnchanged

(* The turn of an iteration that returns its chunks has been answered; one  *)
(* that fails leaves its turn to whoever reads next.                        *)
IterEnds(from, asked) ==
  /\ iter = from
  /\ iter' = "none"
  /\ reader' = NewReader
  /\ expected' = NoLoop
  /\ yielded' = {}
  /\ awaited' = NoTurn
  /\ calm' = (calm /\ asked)
  /\ UNCHANGED mixed
  /\ IterUnchanged

(* Mutant of Peel: the statuses go as well.                                 *)
PeelStatuses ==
  /\ IterGoes("peel", "read")
  /\ inbound' = Kept(inbound, {i \in DOMAIN inbound :
                               inbound[i].kind \notin {"end"} \cup StatusKinds})
  /\ UNCHANGED <<reader, expected, yielded, loopId>>

(* peel_stale_pending_control_events.                                       *)
Peel ==
  /\ IterGoes("peel", "read")
  /\ inbound' = Kept(inbound, {i \in DOMAIN inbound : inbound[i].kind # "end"})
  /\ UNCHANGED <<reader, expected, yielded, loopId>>

(* max_wait, if there is one, is over: it is looked at before every read.   *)
Deadline == IterEnds("read", FALSE) /\ UNCHANGED <<loopId, inbound>>

(* Mutant of ReadNothing: a turn that is quiet for a while has ended.       *)
QuietEnds ==
  /\ inbound = <<>>
  /\ reader.started
  /\ IterEnds("read", link)
  /\ UNCHANGED <<loopId, inbound>>

(* 250 ms without a frame, or no connection to read from: the iteration     *)
(* gives up if the connection is lost, but only once the turn has started.  *)
ReadNothing ==
  /\ inbound = <<>>
  /\ reader.started
  /\ ~link
  /\ IterEnds("read", FALSE)
  /\ UNCHANGED <<loopId, inbound>>

(* Mutant of OfLoop: the loop of a frame is not looked at.                  *)
OfAnyLoop(f) == TRUE

OfLoop(f) == expected = NoLoop \/ f.loop \in {NoLoop, expected}

(* What reaches the handlers: a frame of the loop, and of the turn.         *)
Heeded(f) == OfLoop(f) /\ (reader.expected # NoTurn => Passes(reader, f))

(* What the result of the iteration gains: not an empty chunk, nor, before  *)
(* the drain, a terminal that does not end the turn.                        *)
Yielded(f) ==
  IF /\ calm
     /\ f.kind \in EventKinds
     /\ ~should_drop_stream_chunk_early(f)
     /\ iter = "drain" \/ f.kind # "end" \/ Terminal(reader, f)
    THEN yielded \cup {f.turn} ELSE yielded

(* A status that is heeded names the loop the session is on from then on.   *)
StatusLoop(f) == IF f.kind \in StatusKinds THEN f.loop ELSE loopId

(* One frame of the turn, or one that is skipped.                           *)
ReadFrame ==
  /\ inbound # <<>>
  /\ inbound' = Tail(inbound)
  /\ LET f == Head(inbound)
         r == IF Heeded(f) THEN iter_turn_chunk(reader, f) ELSE reader
     IN /\ loopId' = IF Heeded(f) THEN StatusLoop(f) ELSE loopId
        /\ \/ r.ended = "error" /\ IterEnds("read", FALSE)
           \/ /\ r.ended # "error"
              /\ IterGoes("read", IF r.ended = "no" THEN "read" ELSE "drain")
              /\ reader' = IF r.ended = "no" THEN r ELSE NewReader
              /\ expected' = IF Heeded(f) /\ f.kind \in StatusKinds
                               THEN f.loop ELSE expected
              /\ yielded' = IF Heeded(f) THEN Yielded(f) ELSE yielded

(* drain_after_idle: what follows the end within its time belongs to it,    *)
(* whatever its turn.                                                       *)
DrainFrame ==
  /\ inbound # <<>>
  /\ inbound' = Tail(inbound)
  /\ LET f == Head(inbound)
     IN /\ loopId' = IF OfLoop(f) THEN StatusLoop(f) ELSE loopId
        /\ \/ f.kind = "error" /\ IterEnds("drain", TRUE)
           \/ /\ f.kind # "error"
              /\ IterGoes("drain", "drain")
              /\ yielded' = IF OfLoop(f) THEN Yielded(f) ELSE yielded
              /\ UNCHANGED <<reader, expected>>

(* Its time is over, nothing came for 250 ms, or the connection is lost.    *)
DrainEnds == IterEnds("drain", TRUE) /\ UNCHANGED <<loopId, inbound>>

-----------------------------------------------------------------------------
Call ==
  \/ \E l \in {NoLoop} \cup 1..created : connect(l)
  \/ new_loop
  \/ \E l \in 1..created : switch_loop(l)
  \/ ensure_connected
  \/ close
  \/ Dial \/ Probe \/ LoopNew \/ LoopSubscribe \/ StoreLoop
  \/ CloseStream \/ CloseRpc \/ ClearFlag

Sidecar ==
  RpcCall \/ RpcCheck \/ RpcDial \/ RpcFlag \/ RpcAnswer \/ RpcDrop

Daemon ==
  \E l \in Loops :
    \/ Admit(l)
    \/ \E k \in {"chunk", "noop", "end"} : Work(l, k)
    \/ \E k \in {"idle", "stopped"} : Finish(l, k)
    \/ cancel_active_turn(l)

Iterate == Peel \/ ReadNothing \/ ReadFrame \/ DrainFrame \/ DrainEnds

Next ==
  \/ Call
  \/ Sidecar
  \/ send_turn
  \/ Daemon
  \/ DaemonError
  \/ Drop
  \/ BeginIteration
  \/ Iterate
  \/ Deadline

(* The runtime runs the iteration.  A call need not have a max_wait.        *)
Fairness == WF_vars(Iterate)

Spec == Init /\ [][Next]_vars /\ Fairness

-----------------------------------------------------------------------------
(* Properties.                                                              *)

(* A session that is on a loop is moved to another by a call only: no frame *)
(* of a loop it has left, which stays subscribed, moves it back, unless an  *)
(* iteration and the move overlapped.                                       *)
OnlyCallsMoveTheLoop ==
  [][~mixed' /\ loopId # NoLoop /\ loopId' # loopId => ctl = "store"]_vars

(* A session that is up hears its loop: the daemon streams it, after any    *)
(* losses, stale loops, repairs and switches, until a call fails half-way.  *)
StreamHearsItsLoop ==
  link /\ ctl = "idle" /\ ~unsure /\ ~mixed => loopId \in listening

(* As long as turns are sent and read in sequence and nothing fails, an     *)
(* iteration returns chunks of its own turn only: neither the peel nor the  *)
(* drain moves a chunk from one turn to another.                            *)
TurnsStayApart ==
  calm /\ iter # "none" => yielded \subseteq {awaited}

(* An iteration returns when the daemon has finished the turn, cancelled or *)
(* not, without a deadline, as long as the session is used in sequence.     *)
IterationsReturn ==
  (/\ calm
   /\ iter # "none"
   /\ awaited # NoTurn
   /\ \A l \in Loops : work[l].turn = NoTurn /\ work[l].waiting = <<>>)
     ~> (iter = "none" \/ ~calm)

=============================================================================
