-------------------------- MODULE DaemonSessionProofs --------------------------
(***************************************************************************)
(* Theorems about DaemonSession for any bounds on loops, turns, events,     *)
(* drops and calls.                                                         *)
(***************************************************************************)
EXTENDS DaemonSession, SequenceLemmas

-----------------------------------------------------------------------------
(* Type correctness.                                                        *)

LEMMA BoundsAreNumbers ==
  /\ MaxLoops \in Nat /\ MaxTurns \in Nat /\ MaxEvents \in Nat
  /\ MaxDrops \in Nat /\ MaxCalls \in Nat /\ NoLoop = 0 /\ NoTurn = 0
BY SessionAssumption DEF NoLoop, NoTurn

LEMMA SendKeepsType ==
  ASSUME inbound \in Seq(Frames), NEW f \in Frames, Send(f)
  PROVE  inbound' \in Seq(Frames)
BY DEF Send

(* The parts of the state that a kind of step changes together.             *)
LinkType == link \in BOOLEAN /\ listening \subseteq Loops

CallType ==
  /\ ctl \in CtlSteps
  /\ repair \in BOOLEAN
  /\ target \in {NoLoop} \cup Loops
  /\ calls \in 0..MaxCalls
  /\ unsure \in BOOLEAN

RpcType == rpc \in RpcSteps /\ rpcUp \in BOOLEAN /\ rpcFlag \in BOOLEAN

IterType ==
  /\ iter \in IterSteps
  /\ reader \in Readers(MaxTurns)
  /\ expected \in {NoLoop} \cup Loops
  /\ yielded \subseteq {NoTurn} \cup Turns

LoopsType == created \in 0..MaxLoops /\ gone \subseteq 1..created

WorkType == work \in [Loops -> Works] /\ inbound \in Seq(Frames)

UseType ==
  /\ loopId \in {NoLoop} \cup Loops
  /\ sent \in 0..MaxTurns
  /\ events \in 0..MaxEvents
  /\ drops \in 0..MaxDrops
  /\ mixed \in BOOLEAN
  /\ awaited \in {NoTurn} \cup Turns
  /\ calm \in BOOLEAN

TypeParts ==
  /\ LinkType /\ CallType /\ RpcType /\ IterType /\ LoopsType /\ WorkType
  /\ UseType

LEMMA TypeInParts == (TypeOK <=> TypeParts) /\ (TypeOK' <=> TypeParts')
BY DEF TypeOK, TypeParts, LinkType, CallType, RpcType, IterType, LoopsType,
       WorkType, UseType

LEMMA NewReaderType == NewReader \in Readers(MaxTurns)
BY BoundsAreNumbers DEF NewReader, Readers, NoTurn

LEMMA InitType == Init => TypeOK
<1> SUFFICES ASSUME Init PROVE TypeOK
  OBVIOUS
<1>1. LinkType /\ RpcType
  BY DEF Init, LinkType, RpcType, RpcSteps
<1>2. CallType
  <2>1. ctl \in CtlSteps /\ calls \in 0..MaxCalls
    BY BoundsAreNumbers DEF Init, CtlSteps
  <2> QED
    BY <2>1 DEF Init, CallType
<1>3. IterType
  BY NewReaderType DEF Init, IterType, IterSteps
<1>4. LoopsType
  BY BoundsAreNumbers DEF Init, LoopsType
<1>5. WorkType
  <2>1. <<>> \in Seq(Turns) /\ inbound \in Seq(Frames)
    BY DEF Init
  <2>2. NoWork \in Works
    BY <2>1 DEF NoWork, Works
  <2> QED
    BY <2>1, <2>2 DEF Init, WorkType
<1>6. UseType
  <2>1. sent \in 0..MaxTurns /\ events \in 0..MaxEvents /\ drops \in 0..MaxDrops
    BY BoundsAreNumbers DEF Init
  <2> QED
    BY <2>1 DEF Init, UseType
<1> QED
  BY <1>1, <1>2, <1>3, <1>4, <1>5, <1>6, TypeInParts DEF TypeParts

(* A call that asks something of a loop has one.                            *)
CallHasALoop ==
  /\ ctl \in {"probe", "subscribe", "store"} => target # NoLoop
  /\ ctl = "dial" /\ repair => target = NoLoop

TypeInv == TypeOK /\ CallHasALoop

LEMMA CallKeepsItsLoop ==
  ASSUME TypeInv, Call
  PROVE  CallHasALoop'
<1>0. /\ CallHasALoop /\ created \in Nat /\ NoLoop = 0
  BY BoundsAreNumbers DEF TypeInv, TypeOK
<1>1. CASE \/ \E l \in {NoLoop} \cup 1..created : connect(l)
           \/ new_loop \/ ensure_connected \/ close
  BY <1>1
     DEF connect, new_loop, ensure_connected, close, StartCall, CallHasALoop
<1>2. ASSUME NEW l \in 1..created, switch_loop(l) PROVE CallHasALoop'
  BY <1>0, <1>2 DEF switch_loop, StartCall, CallHasALoop
<1>3. CASE Dial
  BY <1>0, <1>3 DEF Dial, Fails, CallGoes, CallHasALoop
<1>4. CASE LoopNew
  BY <1>0, <1>4 DEF LoopNew, Fails, CallGoes, CallHasALoop
<1>5. CASE LoopSubscribe
  BY <1>0, <1>5 DEF LoopSubscribe, Fails, CallGoes, CallHasALoop
<1>6. CASE Probe \/ StoreLoop \/ CloseStream \/ CloseRpc \/ ClearFlag
  BY <1>6
     DEF Probe, StoreLoop, CloseStream, CloseRpc, ClearFlag, CallGoes, CallHasALoop
<1> QED
  BY <1>1, <1>2, <1>3, <1>4, <1>5, <1>6 DEF Call

(* connect and the others change the call, the loops and where it is.       *)
LEMMA CallKeepsType ==
  ASSUME TypeInv, Call
  PROVE  TypeOK'
<1>0. /\ LinkType /\ CallType /\ RpcType /\ IterType /\ LoopsType
      /\ WorkType /\ UseType
  BY TypeInParts DEF TypeInv, TypeParts
<1>1. CallUnchanged
  BY DEF Call, connect, new_loop, switch_loop, close, ensure_connected, StartCall,
         Dial, Probe, LoopNew, LoopSubscribe, StoreLoop, CloseStream, CloseRpc,
         ClearFlag, Fails, CallGoes
<1>2. IterType' /\ WorkType' /\ rpc' \in RpcSteps /\ gone' = gone
  BY <1>0, <1>1 DEF CallUnchanged, iterVars, IterType, WorkType, RpcType
<1>3. ASSUME NEW to \in CtlSteps, NEW l \in {NoLoop} \cup Loops, NEW b \in BOOLEAN,
             StartCall(to, l, b)
      PROVE  TypeOK'
  <2>1. LinkType' /\ RpcType' /\ LoopsType'
    BY <1>0, <1>3
       DEF StartCall, CallUnchanged, linkVars, LinkType, RpcType, LoopsType
  <2>2. CallType'
    BY <1>0, <1>3, BoundsAreNumbers DEF StartCall, CallType
  <2>3. UseType'
    <3>1. mixed' \in BOOLEAN /\ calm' \in BOOLEAN
      BY <1>3 DEF StartCall
    <3> QED
      BY <1>0, <1>3, <3>1 DEF StartCall, CallUnchanged, UseType
  <2> QED
    BY <1>2, <2>1, <2>2, <2>3, TypeInParts DEF TypeParts
<1>4. ASSUME NEW from, NEW to \in CtlSteps, CallGoes(from, to),
             link' \in BOOLEAN, listening' \subseteq Loops, rpcUp' \in BOOLEAN,
             rpcFlag' \in BOOLEAN, target' \in {NoLoop} \cup Loops,
             repair' \in BOOLEAN, unsure' \in BOOLEAN,
             loopId' \in {NoLoop} \cup Loops,
             created' = created \/ (created < MaxLoops /\ created' = created + 1)
      PROVE  TypeOK'
  <2>1. ctl' = to /\ UNCHANGED <<calls, sent, events, drops, mixed, awaited, calm>>
    BY <1>4 DEF CallGoes, CallUnchanged, useVars
  <2>2. LinkType' /\ RpcType'
    BY <1>2, <1>4 DEF LinkType, RpcType
  <2>3. CallType' /\ UseType'
    BY <1>0, <1>4, <2>1 DEF CallType, UseType
  <2>4. LoopsType'
    <3>1. created \in Nat /\ created' \in 0..MaxLoops /\ created <= created'
      BY <1>0, <1>4, BoundsAreNumbers DEF LoopsType
    <3>2. 1..created \subseteq 1..created'
      BY <1>0, <3>1, BoundsAreNumbers
    <3> QED
      BY <1>0, <1>2, <3>1, <3>2 DEF LoopsType
  <2> QED
    BY <1>2, <2>2, <2>3, <2>4, TypeInParts DEF TypeParts
<1>5. ASSUME NEW from, Fails(from), link' \in BOOLEAN, listening' \subseteq Loops,
             UNCHANGED <<loopId, rpcUp, rpcFlag, created>>
      PROVE  TypeOK'
  <2>1. CallGoes(from, "idle") /\ target' = NoLoop /\ repair' = FALSE /\ unsure' = TRUE
    BY <1>5 DEF Fails
  <2>2. /\ rpcUp' \in BOOLEAN /\ rpcFlag' \in BOOLEAN
        /\ loopId' \in {NoLoop} \cup Loops /\ created' = created
    BY <1>0, <1>5 DEF RpcType, UseType
  <2>3. /\ "idle" \in CtlSteps /\ target' \in {NoLoop} \cup Loops
        /\ repair' \in BOOLEAN /\ unsure' \in BOOLEAN
    BY <2>1 DEF CtlSteps
  <2>4. CallGoes(from, "idle")
    BY <2>1
  <2> QED
    BY <1>4, <1>5, <2>2, <2>3, <2>4
<1>6. CASE \/ \E l \in {NoLoop} \cup 1..created : connect(l)
           \/ new_loop
           \/ \E l \in 1..created : switch_loop(l)
           \/ ensure_connected
           \/ close
  <2>1. 1..created \subseteq Loops
    BY <1>0, BoundsAreNumbers DEF LoopsType, Loops
  <2>2. PICK to \in CtlSteps, l \in {NoLoop} \cup Loops, b \in BOOLEAN :
          StartCall(to, l, b)
    BY <1>6, <2>1
       DEF connect, new_loop, switch_loop, ensure_connected, close, CtlSteps
  <2> QED
    BY <1>3, <2>2
<1>7. /\ link \in BOOLEAN /\ listening \subseteq Loops /\ rpcUp \in BOOLEAN
      /\ rpcFlag \in BOOLEAN /\ target \in {NoLoop} \cup Loops /\ repair \in BOOLEAN
      /\ unsure \in BOOLEAN /\ loopId \in {NoLoop} \cup Loops
      /\ created \in 0..MaxLoops
  BY <1>0 DEF LinkType, RpcType, CallType, UseType, LoopsType
<1>8. CASE Dial
  <2>1. UNCHANGED <<listening, loopId, rpcUp, rpcFlag, created>>
    BY <1>8 DEF Dial
  <2>2. CASE link' \in BOOLEAN /\ Fails("dial")
    BY <1>5, <1>7, <2>1, <2>2
  <2>3. ASSUME NEW to \in {"probe", "subscribe", "new"}, CallGoes("dial", to),
               link' = TRUE, target' = IF repair THEN loopId ELSE target,
               UNCHANGED <<repair, unsure>>
        PROVE  TypeOK'
    BY <1>4, <1>7, <2>1, <2>3 DEF CtlSteps
  <2>4. \/ link' \in BOOLEAN /\ Fails("dial")
        \/ /\ link' = TRUE /\ target' = (IF repair THEN loopId ELSE target)
           /\ UNCHANGED <<repair, unsure>>
           /\ \E to \in {"probe", "subscribe", "new"} : CallGoes("dial", to)
    BY <1>8 DEF Dial
  <2> QED
    BY <2>2, <2>3, <2>4
<1>9. ASSUME ctl \in {"probe", "subscribe"}, listening' \in {listening, Subscribed}
      PROVE  listening' \subseteq Loops
  BY <1>7, <1>9 DEF Subscribed, TypeInv, CallHasALoop
<1>10. CASE Probe
  <2> listening' \subseteq Loops
    BY <1>9, <1>10 DEF Probe, CallGoes
  <2>1. UNCHANGED <<link, loopId, rpcUp, rpcFlag, created>>
    BY <1>10 DEF Probe
  <2>2. CASE /\ CallGoes("probe", "idle")
             /\ target' = NoLoop /\ repair' = FALSE /\ unsure' = FALSE
    BY <1>4, <1>7, <2>1, <2>2 DEF CtlSteps
  <2>3. CASE CallGoes("probe", "closeRpc") /\ UNCHANGED <<target, repair, unsure>>
    BY <1>4, <1>7, <2>1, <2>3 DEF CtlSteps
  <2> QED
    BY <1>10, <2>2, <2>3 DEF Probe
<1>11. CASE LoopNew
  <2>1. UNCHANGED <<link, listening, loopId, rpcUp, rpcFlag>>
    BY <1>11 DEF LoopNew, linkVars
  <2>2. CASE /\ CallGoes("new", "subscribe") /\ created < MaxLoops
             /\ created' = created + 1 /\ target' = created + 1
             /\ UNCHANGED <<repair, unsure>>
    <3>1. target' \in {NoLoop} \cup Loops
      BY <1>7, <2>2, BoundsAreNumbers DEF Loops
    <3>2. CallGoes("new", "subscribe") /\ "subscribe" \in CtlSteps
      BY <2>2 DEF CtlSteps
    <3> QED
      BY <1>4, <1>7, <2>1, <2>2, <3>1, <3>2
  <2>3. CASE Fails("new") /\ UNCHANGED created
    BY <1>5, <1>7, <2>1, <2>3
  <2> QED
    BY <1>11, <2>2, <2>3 DEF LoopNew
<1>12. CASE LoopSubscribe
  <2> listening' \subseteq Loops
    BY <1>9, <1>12 DEF LoopSubscribe, CallGoes, Fails
  <2>1. UNCHANGED <<link, loopId, rpcUp, rpcFlag, created>>
    BY <1>12 DEF LoopSubscribe
  <2>2. CASE CallGoes("subscribe", "store") /\ UNCHANGED <<target, repair, unsure>>
    BY <1>4, <1>7, <2>1, <2>2 DEF CtlSteps
  <2>3. CASE Fails("subscribe")
    BY <1>5, <1>7, <2>1, <2>3
  <2> QED
    BY <1>12, <2>2, <2>3 DEF LoopSubscribe
<1>13. CASE StoreLoop
  BY <1>4, <1>7, <1>13 DEF StoreLoop, linkVars, CtlSteps
<1>14. CASE CloseStream
  BY <1>4, <1>7, <1>14 DEF CloseStream, CtlSteps
<1>15. CASE CloseRpc
  BY <1>4, <1>7, <1>15 DEF CloseRpc, linkVars, CtlSteps
<1>16. CASE ClearFlag
  BY <1>4, <1>7, <1>16 DEF ClearFlag, linkVars, CtlSteps
<1> QED
  BY <1>6, <1>8, <1>10, <1>11, <1>12, <1>13, <1>14, <1>15, <1>16 DEF Call

(* The sidecar changes the RPC call only.                                   *)
LEMMA SidecarKeepsType ==
  ASSUME TypeOK, Sidecar
  PROVE  TypeOK'
<1>0. /\ LinkType /\ CallType /\ RpcType /\ IterType /\ LoopsType
      /\ WorkType /\ UseType
  BY TypeInParts DEF TypeParts
<1>1. RpcType'
  BY <1>0
     DEF Sidecar, RpcCall, RpcCheck, RpcDial, RpcFlag, RpcAnswer, RpcDrop, RpcStep,
         RpcType, RpcSteps
<1>2. /\ UNCHANGED <<linkVars, loopId, inbound, callVars, iterVars, daemonVars,
                     sent, events, mixed, useVars>>
      /\ drops' \in 0..MaxDrops
  BY <1>0, BoundsAreNumbers
     DEF Sidecar, RpcCall, RpcCheck, RpcDial, RpcFlag, RpcAnswer, RpcDrop, RpcStep,
         UseType
<1>3. LinkType' /\ CallType' /\ IterType' /\ LoopsType' /\ WorkType'
  BY <1>0, <1>2
     DEF linkVars, callVars, iterVars, daemonVars, LinkType, CallType, IterType,
         LoopsType, WorkType
<1>4. UseType'
  BY <1>0, <1>2 DEF useVars, UseType
<1> QED
  BY <1>1, <1>3, <1>4, TypeInParts DEF TypeParts

(* What the daemon has sent and works on.                                   *)
LEMMA DaemonKeepsType ==
  ASSUME TypeOK, Daemon \/ DaemonError
  PROVE  TypeOK'
<1>0. /\ LinkType /\ CallType /\ RpcType /\ IterType /\ LoopsType
      /\ WorkType /\ UseType
  BY TypeInParts DEF TypeParts
<1>1. ASSUME NEW f \in Frames, Send(f), work' \in [Loops -> Works],
             events' \in 0..MaxEvents, calm' \in BOOLEAN, DaemonUnchanged
      PROVE  TypeOK'
  <2>1. LinkType' /\ CallType' /\ RpcType' /\ IterType' /\ LoopsType'
    BY <1>0, <1>1
       DEF DaemonUnchanged, linkVars, callVars, rpcVars, iterVars, LinkType, CallType,
           RpcType, IterType, LoopsType
  <2>2. WorkType'
    BY <1>0, <1>1, SendKeepsType DEF WorkType
  <2>3. UseType'
    BY <1>0, <1>1 DEF DaemonUnchanged, UseType
  <2> QED
    BY <2>1, <2>2, <2>3, TypeInParts DEF TypeParts
<1>2. events \in 0..MaxEvents /\ calm \in BOOLEAN /\ work \in [Loops -> Works]
  BY <1>0 DEF UseType, WorkType
<1>3. ASSUME NEW l \in Loops
      PROVE  /\ work[l] \in Works
             /\ work[l].turn \in {NoTurn} \cup Turns
             /\ work[l].waiting \in Seq(Turns)
  BY <1>2 DEF Works
<1>4. ASSUME NEW l \in Loops, Admit(l) PROVE TypeOK'
  <2>1. Head(work[l].waiting) \in Turns /\ Tail(work[l].waiting) \in Seq(Turns)
    BY <1>3, <1>4 DEF Admit
  <2> DEFINE w == [NoWork EXCEPT !.turn = Head(work[l].waiting),
                                 !.waiting = Tail(work[l].waiting)]
             f == [kind |-> "running", turn |-> Head(work[l].waiting), loop |-> l]
  <2>2. w \in Works /\ f \in Frames
    BY <2>1 DEF Works, NoWork, Frames, Kinds, StatusKinds
  <2>3. Send(f) /\ work' = [work EXCEPT ![l] = w] /\ UNCHANGED <<events, calm>>
        /\ DaemonUnchanged
    BY <1>4 DEF Admit
  <2> HIDE DEF w, f
  <2> QED
    BY <1>1, <1>2, <2>2, <2>3
<1>5. ASSUME NEW l \in Loops, NEW k \in {"chunk", "noop", "end"}, Work(l, k)
      PROVE  TypeOK'
  <2> DEFINE w == [work[l] EXCEPT !.progress = @ \/ k = "chunk",
                                  !.closing = (k = "end")]
             f == [kind |-> k, turn |-> work[l].turn, loop |-> l]
  <2>1. w \in Works /\ f \in Frames
    <3>1. (work[l].progress \/ k = "chunk") \in BOOLEAN
      OBVIOUS
    <3> QED
      BY <1>3, <3>1 DEF Works, Frames, Kinds, EventKinds
  <2>2. work' = [work EXCEPT ![l] = w]
    BY <1>2, <1>5 DEF Work
  <2>3. Send(f) /\ UNCHANGED calm /\ DaemonUnchanged /\ events' \in 0..MaxEvents
    BY <1>2, <1>5, BoundsAreNumbers DEF Work
  <2> HIDE DEF w, f
  <2> QED
    BY <1>1, <1>2, <2>1, <2>2, <2>3
<1>6. ASSUME NEW l \in Loops, NEW k \in {"idle", "stopped"}, Finish(l, k)
      PROVE  TypeOK'
  <2> DEFINE w == [NoWork EXCEPT !.waiting = work[l].waiting]
             f == [kind |-> k, turn |-> work[l].turn, loop |-> l]
  <2>1. w \in Works /\ f \in Frames
    BY <1>3 DEF Works, NoWork, Frames, Kinds, StatusKinds
  <2>2. calm' \in BOOLEAN
    BY <1>6 DEF Finish
  <2>3. Send(f) /\ work' = [work EXCEPT ![l] = w] /\ UNCHANGED events
        /\ DaemonUnchanged
    BY <1>6 DEF Finish
  <2> HIDE DEF w, f
  <2> QED
    BY <1>1, <1>2, <2>1, <2>2, <2>3
<1>7. ASSUME NEW l \in Loops, cancel_active_turn(l) PROVE TypeOK'
  <2> DEFINE w == [work[l] EXCEPT !.cancelled = TRUE]
             f == [kind |-> "notice", turn |-> NoTurn, loop |-> l]
  <2>1. w \in Works /\ f \in Frames
    BY <1>3 DEF Works, Frames, Kinds
  <2>2. work' = [work EXCEPT ![l] = w]
    BY <1>2, <1>7 DEF cancel_active_turn
  <2>3. Send(f) /\ UNCHANGED calm /\ DaemonUnchanged /\ events' \in 0..MaxEvents
    BY <1>2, <1>7, BoundsAreNumbers DEF cancel_active_turn
  <2> HIDE DEF w, f
  <2> QED
    BY <1>1, <1>2, <2>1, <2>2, <2>3
<1>8. CASE DaemonError
  <2> DEFINE f == [kind |-> "error", turn |-> NoTurn, loop |-> NoLoop]
  <2>1. f \in Frames
    BY DEF Frames, Kinds
  <2>2. /\ Send(f) /\ UNCHANGED work /\ DaemonUnchanged /\ calm' = FALSE
        /\ events' \in 0..MaxEvents
    BY <1>2, <1>8, BoundsAreNumbers DEF DaemonError
  <2> HIDE DEF f
  <2> QED
    BY <1>1, <1>2, <2>1, <2>2
<1> QED
  BY <1>4, <1>5, <1>6, <1>7, <1>8 DEF Daemon

LEMMA SendTurnKeepsType ==
  ASSUME TypeOK, send_turn
  PROVE  TypeOK'
<1>0. /\ LinkType /\ CallType /\ RpcType /\ IterType /\ LoopsType
      /\ WorkType /\ UseType
  BY TypeInParts DEF TypeParts
<1>1. UNCHANGED <<linkVars, loopId, inbound, callVars, rpcVars, iterVars, created,
                  gone, events, drops, mixed>>
  BY DEF send_turn
<1>2. LinkType' /\ CallType' /\ RpcType' /\ IterType' /\ LoopsType'
  BY <1>0, <1>1
     DEF linkVars, callVars, rpcVars, iterVars, LinkType, CallType, RpcType, IterType,
         LoopsType
<1>3. sent' = sent + 1 /\ sent + 1 \in Turns /\ sent' \in 0..MaxTurns
      /\ loopId \in Loops
  BY <1>0, BoundsAreNumbers DEF send_turn, UseType, Turns
<1>4. awaited' \in {sent + 1, NoTurn} /\ calm' \in BOOLEAN
  BY DEF send_turn
<1>5. UseType'
  BY <1>0, <1>1, <1>3, <1>4 DEF UseType
<1>6. work' \in [Loops -> Works]
  <2> DEFINE w == [work[loopId] EXCEPT !.waiting = Append(@, sent + 1)]
  <2>1. work \in [Loops -> Works] /\ work[loopId] \in Works
    BY <1>0, <1>3 DEF WorkType
  <2>2. Append(work[loopId].waiting, sent + 1) \in Seq(Turns)
    BY <1>3, <2>1 DEF Works
  <2>3. w \in Works
    BY <2>1, <2>2 DEF Works
  <2>4. work' = work \/ work' = [work EXCEPT ![loopId] = w]
    BY <2>1 DEF send_turn
  <2> HIDE DEF w
  <2> QED
    BY <2>1, <2>3, <2>4
<1>7. WorkType'
  BY <1>0, <1>1, <1>6 DEF WorkType
<1> QED
  BY <1>2, <1>5, <1>7, TypeInParts DEF TypeParts

LEMMA DropKeepsType ==
  ASSUME TypeOK, Drop
  PROVE  TypeOK'
<1>0. /\ LinkType /\ CallType /\ RpcType /\ IterType /\ LoopsType
      /\ WorkType /\ UseType
  BY TypeInParts DEF TypeParts
<1>1. /\ link' = FALSE /\ listening' = {} /\ calm' = FALSE
      /\ drops' \in 0..MaxDrops
      /\ UNCHANGED <<loopId, inbound, callVars, rpcVars, iterVars, created, sent,
                     events, mixed, awaited>>
      /\ \/ UNCHANGED <<gone, work>>
         \/ gone' = 1..created /\ work' = [l \in Loops |-> NoWork]
  BY <1>0, BoundsAreNumbers DEF Drop, UseType
<1>2. LinkType' /\ CallType' /\ RpcType' /\ IterType'
  BY <1>0, <1>1
     DEF callVars, rpcVars, iterVars, LinkType, CallType, RpcType, IterType
<1>3. LoopsType'
  BY <1>0, <1>1 DEF LoopsType
<1>4. WorkType'
  <2>1. <<>> \in Seq(Turns)
    OBVIOUS
  <2>2. NoWork \in Works
    BY <2>1 DEF NoWork, Works
  <2> QED
    BY <1>0, <1>1, <2>2 DEF WorkType
<1>5. UseType'
  BY <1>0, <1>1 DEF UseType
<1> QED
  BY <1>2, <1>3, <1>4, <1>5, TypeInParts DEF TypeParts

(* The reader that has seen one more frame.                                 *)
LEMMA SeenFrameType ==
  ASSUME NEW r \in Readers(MaxTurns), NEW f \in Frames
  PROVE  /\ iter_turn_chunk(r, f) \in Readers(MaxTurns)
<1>1. f.turn \in 0..MaxTurns
  BY BoundsAreNumbers DEF Frames, Turns
<1>2. SeeRunning(r, f.turn) \in Readers(MaxTurns)
  BY <1>1 DEF SeeRunning, Readers
<1>3. /\ [r EXCEPT !.ended = "error"] \in Readers(MaxTurns)
      /\ [r EXCEPT !.cancelled = TRUE] \in Readers(MaxTurns)
  BY DEF Readers
<1>4. SeeProgress(r, f) \in Readers(MaxTurns)
  <2>1. (r.progress \/ is_turn_progress_chunk(f)) \in BOOLEAN
    OBVIOUS
  <2> QED
    BY <2>1 DEF SeeProgress, Readers, is_turn_progress_chunk
<1>5. ASSUME NEW s \in Readers(MaxTurns), NEW c
      PROVE  EndIf(s, c) \in Readers(MaxTurns)
  BY DEF EndIf, Readers
<1> QED
  BY <1>2, <1>3, <1>4, <1>5 DEF iter_turn_chunk

LEMMA IterKeepsType ==
  ASSUME TypeOK, BeginIteration \/ Iterate \/ Deadline
  PROVE  TypeOK'
<1>0. /\ LinkType /\ CallType /\ RpcType /\ IterType /\ LoopsType
      /\ WorkType /\ UseType
  BY TypeInParts DEF TypeParts
<1>1. IterUnchanged
  BY DEF BeginIteration, Iterate, Deadline, Peel, ReadNothing, ReadFrame, DrainFrame,
         DrainEnds, IterGoes, IterEnds
<1>2. LinkType' /\ CallType' /\ RpcType' /\ LoopsType'
      /\ UNCHANGED <<work, sent, events, drops>>
  BY <1>0, <1>1
     DEF IterUnchanged, linkVars, callVars, rpcVars, daemonVars, LinkType, CallType,
         RpcType, LoopsType
<1>3. ASSUME inbound' \in Seq(Frames), loopId' \in {NoLoop} \cup Loops, IterType',
             mixed' \in BOOLEAN, awaited' \in {NoTurn} \cup Turns, calm' \in BOOLEAN
      PROVE  TypeOK'
  <2>1. WorkType' /\ UseType'
    BY <1>0, <1>2, <1>3 DEF WorkType, UseType
  <2> QED
    BY <1>2, <1>3, <2>1, TypeInParts DEF TypeParts
<1>4. /\ inbound \in Seq(Frames) /\ loopId \in {NoLoop} \cup Loops
      /\ mixed \in BOOLEAN /\ awaited \in {NoTurn} \cup Turns /\ calm \in BOOLEAN
  BY <1>0 DEF WorkType, UseType
<1>5. ASSUME NEW from, NEW to \in IterSteps, IterGoes(from, to),
             inbound' \in Seq(Frames), loopId' \in {NoLoop} \cup Loops,
             reader' \in Readers(MaxTurns), expected' \in {NoLoop} \cup Loops,
             yielded' \subseteq {NoTurn} \cup Turns
      PROVE  TypeOK'
  BY <1>3, <1>4, <1>5 DEF IterGoes, useVars, IterType
<1>6. ASSUME NEW from, NEW a, IterEnds(from, a),
             inbound' \in Seq(Frames), loopId' \in {NoLoop} \cup Loops
      PROVE  TypeOK'
  <2>1. calm' \in BOOLEAN
    BY <1>6 DEF IterEnds
  <2>2. /\ iter' = "none" /\ reader' = NewReader /\ expected' = NoLoop
        /\ yielded' = {} /\ awaited' = NoTurn /\ mixed' = mixed
    BY <1>6 DEF IterEnds
  <2>3. IterType'
    BY <2>2, NewReaderType DEF IterType, IterSteps
  <2> QED
    BY <1>3, <1>4, <1>6, <2>1, <2>2, <2>3
<1>7. /\ reader \in Readers(MaxTurns) /\ expected \in {NoLoop} \cup Loops
      /\ yielded \subseteq {NoTurn} \cup Turns
  BY <1>0 DEF IterType
<1>8. CASE BeginIteration
  <2>1. mixed' \in BOOLEAN /\ calm' \in BOOLEAN
    BY <1>8 DEF BeginIteration
  <2>2. IterType' /\ UNCHANGED <<loopId, inbound, awaited>>
    BY <1>4, <1>7, <1>8 DEF BeginIteration, IterType, IterSteps
  <2> QED
    BY <1>3, <1>4, <2>1, <2>2
<1>9. CASE Peel
  <2> DEFINE S == {i \in DOMAIN inbound : inbound[i].kind # "end"}
  <2>1. S \in SUBSET (1..Len(inbound))
    BY <1>4
  <2>2. /\ IterGoes("peel", "read") /\ inbound' = Kept(inbound, S)
        /\ UNCHANGED <<reader, expected, yielded, loopId>>
    BY <1>9 DEF Peel
  <2> HIDE DEF S
  <2>3. inbound' \in Seq(Frames)
    BY <1>4, <2>1, <2>2, KeptProperties
  <2> QED
    BY <1>4, <1>5, <1>7, <2>2, <2>3 DEF IterSteps
<1>10. CASE ReadNothing \/ Deadline \/ DrainEnds
  <2>1. PICK from, a : IterEnds(from, a)
    BY <1>10 DEF ReadNothing, Deadline, DrainEnds
  <2>2. UNCHANGED <<loopId, inbound>>
    BY <1>10 DEF ReadNothing, Deadline, DrainEnds
  <2> QED
    BY <1>4, <1>6, <2>1, <2>2
<1> DEFINE f == Head(inbound)
<1>11. ASSUME inbound # <<>>
       PROVE  /\ f \in Frames /\ Tail(inbound) \in Seq(Frames)
              /\ f.loop \in {NoLoop} \cup Loops /\ f.turn \in {NoTurn} \cup Turns
              /\ StatusLoop(f) \in {NoLoop} \cup Loops
              /\ Yielded(f) \subseteq {NoTurn} \cup Turns
  <2>1. f \in Frames /\ Tail(inbound) \in Seq(Frames)
    BY <1>4, <1>11
  <2>2. f.loop \in {NoLoop} \cup Loops /\ f.turn \in {NoTurn} \cup Turns
    BY <2>1 DEF Frames
  <2> QED
    BY <1>4, <1>7, <2>1, <2>2 DEF StatusLoop, Yielded
<1> HIDE DEF f
<1>12. CASE ReadFrame
  <2> DEFINE r == IF Heeded(f) THEN iter_turn_chunk(reader, f) ELSE reader
  <2>1. inbound # <<>> /\ inbound' = Tail(inbound)
    BY <1>12 DEF ReadFrame
  <2>2. /\ loopId' = IF Heeded(f) THEN StatusLoop(f) ELSE loopId
        /\ \/ IterEnds("read", FALSE)
           \/ /\ IterGoes("read", IF r.ended = "no" THEN "read" ELSE "drain")
              /\ reader' = IF r.ended = "no" THEN r ELSE NewReader
              /\ expected' = IF Heeded(f) /\ f.kind \in StatusKinds
                               THEN f.loop ELSE expected
              /\ yielded' = IF Heeded(f) THEN Yielded(f) ELSE yielded
    BY <1>12 DEF ReadFrame, f
  <2>3. r \in Readers(MaxTurns)
    BY <1>7, <1>11, <2>1, SeenFrameType
  <2> HIDE DEF r
  <2>4. inbound' \in Seq(Frames) /\ loopId' \in {NoLoop} \cup Loops
    BY <1>4, <1>11, <2>1, <2>2
  <2>5. CASE IterEnds("read", FALSE)
    BY <1>6, <2>4, <2>5
  <2>6. ASSUME NEW to \in {"read", "drain"}, IterGoes("read", to),
               reader' = IF r.ended = "no" THEN r ELSE NewReader,
               expected' = IF Heeded(f) /\ f.kind \in StatusKinds THEN f.loop ELSE expected,
               yielded' = IF Heeded(f) THEN Yielded(f) ELSE yielded
        PROVE  TypeOK'
    BY <1>5, <1>7, <1>11, <2>1, <2>3, <2>4, <2>6, NewReaderType DEF IterSteps
  <2> QED
    BY <2>2, <2>5, <2>6
<1>13. CASE DrainFrame
  <2>1. inbound # <<>> /\ inbound' = Tail(inbound)
    BY <1>13 DEF DrainFrame
  <2>2. /\ loopId' = IF OfLoop(f) THEN StatusLoop(f) ELSE loopId
        /\ \/ IterEnds("drain", TRUE)
           \/ /\ IterGoes("drain", "drain")
              /\ yielded' = IF OfLoop(f) THEN Yielded(f) ELSE yielded
              /\ UNCHANGED <<reader, expected>>
    BY <1>13 DEF DrainFrame, f
  <2>3. inbound' \in Seq(Frames) /\ loopId' \in {NoLoop} \cup Loops
    BY <1>4, <1>11, <2>1, <2>2
  <2>4. CASE IterEnds("drain", TRUE)
    BY <1>6, <2>3, <2>4
  <2>5. CASE /\ IterGoes("drain", "drain")
             /\ yielded' = IF OfLoop(f) THEN Yielded(f) ELSE yielded
             /\ UNCHANGED <<reader, expected>>
    BY <1>5, <1>7, <1>11, <2>1, <2>3, <2>5 DEF IterSteps
  <2> QED
    BY <2>2, <2>4, <2>5
<1> QED
  BY <1>8, <1>9, <1>10, <1>12, <1>13 DEF Iterate

LEMMA StepType == TypeInv /\ [Next]_vars => TypeInv'
<1> SUFFICES ASSUME TypeInv, [Next]_vars PROVE TypeInv'
  OBVIOUS
<1>0. TypeOK /\ CallHasALoop
  BY DEF TypeInv
<1>1. CASE Call
  BY <1>1, CallKeepsItsLoop, CallKeepsType DEF TypeInv
<1>2. CASE \/ Sidecar \/ send_turn \/ Daemon \/ DaemonError \/ Drop
           \/ BeginIteration \/ Iterate \/ Deadline
  <2>1. TypeOK'
    BY <1>0, <1>2, SidecarKeepsType, SendTurnKeepsType, DaemonKeepsType, DropKeepsType,
       IterKeepsType
  <2>2. UNCHANGED <<ctl, target, repair>>
    <3>1. CASE Sidecar
      BY <3>1
         DEF Sidecar, RpcCall, RpcCheck, RpcDial, RpcFlag, RpcAnswer, RpcDrop, RpcStep,
             callVars
    <3>2. CASE send_turn \/ Drop
      BY <3>2 DEF send_turn, Drop, callVars
    <3>3. CASE Daemon \/ DaemonError
      BY <3>3
         DEF Daemon, DaemonError, Admit, Work, Finish, cancel_active_turn,
             DaemonUnchanged, callVars
    <3>4. CASE BeginIteration \/ Iterate \/ Deadline
      BY <3>4
         DEF BeginIteration, Iterate, Deadline, Peel, ReadNothing, ReadFrame,
             DrainFrame, DrainEnds, IterGoes, IterEnds, IterUnchanged, callVars
    <3> QED
      BY <1>2, <3>1, <3>2, <3>3, <3>4
  <2> QED
    BY <1>0, <2>1, <2>2 DEF TypeInv, CallHasALoop
<1>3. CASE UNCHANGED vars
  <2>1. TypeParts'
    <3>1. /\ LinkType /\ CallType /\ RpcType /\ IterType /\ LoopsType
          /\ WorkType /\ UseType
      BY <1>0, TypeInParts DEF TypeParts
    <3> QED
      BY <1>3, <3>1
         DEF vars, linkVars, callVars, rpcVars, iterVars, daemonVars, useVars, TypeParts,
             LinkType, CallType, RpcType, IterType, LoopsType, WorkType, UseType
  <2> QED
    BY <1>0, <1>3, <2>1, TypeInParts DEF vars, callVars, TypeInv, CallHasALoop
<1> QED
  BY <1>1, <1>2, <1>3 DEF Next

LEMMA TypeInvHolds == Spec => []TypeInv
<1>1. Init => TypeInv
  BY InitType DEF Init, TypeInv, CallHasALoop
<1> QED
  BY <1>1, StepType, PTL DEF Spec

(* The sockets, the calls, the iteration and the daemon keep their types.   *)
THEOREM TypeCorrect == Spec => []TypeOK
<1>1. TypeInv => TypeOK
  BY DEF TypeInv
<1> QED
  BY <1>1, TypeInvHolds, PTL

-----------------------------------------------------------------------------
(* What becomes of the pending frames.                                      *)

(* The frames of q are frames of s, in their order.                         *)
PartOf(q, s) ==
  \E g \in [1..Len(q) -> 1..Len(s)] :
    /\ \A i \in 1..Len(q) : q[i] = s[g[i]]
    /\ \A i, j \in 1..Len(q) : i < j => g[i] < g[j]

LEMMA SelfIsPart == ASSUME NEW q \in Seq(Frames) PROVE PartOf(q, q)
<1>1. /\ [i \in 1..Len(q) |-> i] \in [1..Len(q) -> 1..Len(q)]
      /\ \A i \in 1..Len(q) : q[i] = q[[k \in 1..Len(q) |-> k][i]]
      /\ \A i, j \in 1..Len(q) :
           i < j => [k \in 1..Len(q) |-> k][i] < [k \in 1..Len(q) |-> k][j]
  OBVIOUS
<1> QED
  BY <1>1 DEF PartOf

LEMMA TailIsPart ==
  ASSUME NEW q \in Seq(Frames), q # <<>> PROVE PartOf(Tail(q), q)
<1> DEFINE s == Tail(q)
           g == [i \in 1..Len(s) |-> i + 1]
<1>1. /\ Len(q) \in Nat /\ Len(s) = Len(q) - 1
      /\ \A i \in 1..Len(s) : s[i] = q[i + 1]
  OBVIOUS
<1>2. \A i \in 1..Len(s) : g[i] = i + 1
  OBVIOUS
<1>3. \A i \in 1..Len(s) : i + 1 \in 1..Len(q) /\ i \in Nat
  BY <1>1
<1>4. g \in [1..Len(s) -> 1..Len(q)]
  BY <1>3
<1> HIDE DEF s, g
<1>5. PartOf(s, q)
  BY <1>1, <1>2, <1>3, <1>4 DEF PartOf
<1> QED
  BY <1>5 DEF s

LEMMA KeptIsPart ==
  ASSUME NEW q \in Seq(Frames), NEW S \in SUBSET (1..Len(q))
  PROVE  Kept(q, S) \in Seq(Frames) /\ PartOf(Kept(q, S), q)
<1> DEFINE s == Kept(q, S)
           g == [k \in 1..Len(s) |-> Nth(S, k)]
<1>1. /\ s \in Seq(Frames) /\ Len(s) = Cardinality(S)
      /\ \A k \in 1..Cardinality(S) : Nth(S, k) \in S /\ s[k] = q[Nth(S, k)]
      /\ \A k, m \in 1..Cardinality(S) : k < m => Nth(S, k) < Nth(S, m)
  BY KeptProperties
<1>2. \A k \in 1..Len(s) : g[k] = Nth(S, k)
  OBVIOUS
<1> HIDE DEF s
<1>3. g \in [1..Len(s) -> 1..Len(q)]
  BY <1>1
<1> HIDE DEF g
<1>4. PartOf(s, q)
  BY <1>1, <1>2, <1>3 DEF PartOf
<1> QED
  BY <1>1, <1>4 DEF s

LEMMA SendAppends ==
  ASSUME inbound \in Seq(Frames), NEW f \in Frames, Send(f)
  PROVE  /\ DOMAIN inbound = 1..Len(inbound) /\ DOMAIN inbound' = 1..Len(inbound')
         /\ Len(inbound) \in Nat /\ inbound' \in Seq(Frames)
         /\ Len(inbound') = Len(inbound) \/ Len(inbound') = Len(inbound) + 1
         /\ \A i \in 1..Len(inbound) : inbound'[i] = inbound[i]
         /\ Len(inbound') = Len(inbound) + 1 => inbound'[Len(inbound) + 1] = f
<1>1. inbound' = inbound \/ inbound' = Append(inbound, f)
  BY DEF Send
<1> QED
  BY <1>1

(* A new frame of the daemon is about a loop, and of the turn it works on.  *)
LEMMA DaemonSends ==
  ASSUME TypeInv, NEW l \in Loops, NEW k,
         \/ Admit(l) /\ k = "running"
         \/ k \in {"chunk", "noop", "end"} /\ Work(l, k)
         \/ k \in {"idle", "stopped"} /\ Finish(l, k)
         \/ cancel_active_turn(l) /\ k = "notice"
  PROVE  /\ work[l].turn # NoTurn \/ work[l].waiting # <<>>
         /\ \E f \in Frames : Send(f) /\ f.loop = l /\ f.kind = k
         /\ DaemonUnchanged
<1>1. work[l] \in Works /\ work[l].turn \in {NoTurn} \cup Turns
      /\ work[l].waiting \in Seq(Turns)
  BY DEF TypeInv, TypeOK, Works
<1>2. CASE Admit(l) /\ k = "running"
  <2> DEFINE f == [kind |-> "running", turn |-> Head(work[l].waiting), loop |-> l]
  <2>1. Head(work[l].waiting) \in Turns
    BY <1>1, <1>2 DEF Admit
  <2>2. f \in Frames /\ f.loop = l /\ f.kind = k
    BY <1>2, <2>1 DEF Frames, Kinds, StatusKinds
  <2>3. Send(f) /\ DaemonUnchanged /\ work[l].waiting # <<>>
    BY <1>2 DEF Admit
  <2> HIDE DEF f
  <2> QED
    BY <2>2, <2>3
<1>3. CASE \/ k \in {"chunk", "noop", "end"} /\ Work(l, k)
           \/ k \in {"idle", "stopped"} /\ Finish(l, k)
  <2> DEFINE f == [kind |-> k, turn |-> work[l].turn, loop |-> l]
  <2>1. f \in Frames /\ f.loop = l /\ f.kind = k
    BY <1>1, <1>3 DEF Frames, Kinds, StatusKinds, EventKinds
  <2>2. Send(f) /\ DaemonUnchanged /\ work[l].turn # NoTurn
    BY <1>3 DEF Work, Finish
  <2> HIDE DEF f
  <2> QED
    BY <2>1, <2>2
<1>4. CASE cancel_active_turn(l) /\ k = "notice"
  <2> DEFINE f == [kind |-> "notice", turn |-> NoTurn, loop |-> l]
  <2>1. f \in Frames /\ f.loop = l /\ f.kind = k
    BY <1>4 DEF Frames, Kinds
  <2>2. Send(f) /\ DaemonUnchanged /\ work[l].turn # NoTurn
    BY <1>4 DEF cancel_active_turn
  <2> HIDE DEF f
  <2> QED
    BY <2>1, <2>2
<1> QED
  BY <1>2, <1>3, <1>4

LEMMA IterationTakes ==
  ASSUME TypeInv, BeginIteration \/ Iterate \/ Deadline
  PROVE  inbound' \in Seq(Frames) /\ PartOf(inbound', inbound) /\ IterUnchanged
<1>0. inbound \in Seq(Frames)
  BY DEF TypeInv, TypeOK
<1>1. IterUnchanged
  BY DEF BeginIteration, Iterate, Deadline, Peel, ReadNothing, ReadFrame, DrainFrame,
         DrainEnds, IterGoes, IterEnds
<1>2. CASE inbound' = inbound
  BY <1>0, <1>1, <1>2, SelfIsPart
<1>3. CASE inbound # <<>> /\ inbound' = Tail(inbound)
  BY <1>0, <1>1, <1>3, TailIsPart
<1>4. CASE Peel
  <2> DEFINE S == {i \in DOMAIN inbound : inbound[i].kind # "end"}
  <2>1. S \in SUBSET (1..Len(inbound)) /\ inbound' = Kept(inbound, S)
    BY <1>0, <1>4 DEF Peel
  <2> HIDE DEF S
  <2> QED
    BY <1>0, <1>1, <2>1, KeptIsPart
<1> QED
  BY <1>2, <1>3, <1>4
     DEF BeginIteration, Iterate, Deadline, ReadNothing, ReadFrame, DrainFrame, DrainEnds

-----------------------------------------------------------------------------
(* The loop of the session.                                                 *)

(* A call and an iteration that have not overlapped are not both under way, *)
(* and the iteration reads the loop the session is on.                      *)
CallOrIteration == mixed \/ ctl = "idle" \/ iter = "none"

IteratesItsLoop == ~mixed /\ iter # "none" => expected = loopId

StatusesNameALoop ==
  \A i \in DOMAIN inbound :
    inbound[i].kind \in StatusKinds => inbound[i].loop # NoLoop

(* Without a loop nothing has been sent, and nothing sent is not answered.  *)
TurnsNeedALoop == loopId = NoLoop => sent = 0

NothingSent ==
  sent = 0 =>
    /\ \A l \in Loops : work[l].turn = NoTurn /\ work[l].waiting = <<>>
    /\ \A i \in DOMAIN inbound : inbound[i].kind \notin StatusKinds

TurnsOfLoops == StatusesNameALoop /\ TurnsNeedALoop /\ NothingSent

(* What a call has done by the time it goes on: a loop about to be taken    *)
(* over is streamed, a repair is about the loop the session is on, and a    *)
(* call that closes has hung up.                                            *)
CallHasDone ==
  /\ ctl = "store" /\ link => target \in listening
  /\ ctl = "probe" => repair /\ (~mixed => target = loopId)
  /\ ctl = "closeStream" => ~repair
  /\ ctl \in {"closeRpc", "clearFlag"} /\ ~repair => ~link

LoopInv ==
  /\ CallOrIteration /\ IteratesItsLoop /\ TurnsOfLoops /\ CallHasDone
  /\ StreamHearsItsLoop

LEMMA InitLoop == Init => LoopInv
<1> SUFFICES ASSUME Init PROVE LoopInv
  OBVIOUS
<1>1. DOMAIN inbound = {}
  BY DEF Init
<1>2. TurnsOfLoops
  BY <1>1
     DEF Init, TurnsOfLoops, StatusesNameALoop, TurnsNeedALoop, NothingSent, NoWork
<1> QED
  BY <1>2
     DEF Init, LoopInv, CallOrIteration, IteratesItsLoop, CallHasDone,
         StreamHearsItsLoop

(* No frame moves an iteration that no call overlaps to another loop.       *)
LEMMA FramesKeepTheLoop ==
  ASSUME TypeInv, LoopInv, ~mixed, ReadFrame \/ DrainFrame
  PROVE  loopId' = loopId /\ (iter' = "none" \/ expected' = expected)
<1> DEFINE f == Head(inbound)
<1>1. /\ inbound \in Seq(Frames) /\ inbound # <<>> /\ iter # "none"
  BY DEF TypeInv, TypeOK, ReadFrame, DrainFrame, IterGoes, IterEnds
<1>2. f = inbound[1] /\ 1 \in DOMAIN inbound
  BY <1>1
<1>3. expected = loopId
  BY <1>1 DEF LoopInv, IteratesItsLoop
<1>4. ASSUME OfLoop(f), f.kind \in StatusKinds PROVE f.loop = loopId
  <2>1. f.loop # NoLoop
    BY <1>2, <1>4 DEF LoopInv, TurnsOfLoops, StatusesNameALoop
  <2>2. loopId # NoLoop
    BY <1>2, <1>4 DEF LoopInv, TurnsOfLoops, TurnsNeedALoop, NothingSent
  <2> QED
    BY <1>3, <1>4, <2>1, <2>2 DEF OfLoop
<1>5. OfLoop(f) => StatusLoop(f) = loopId
  BY <1>4 DEF StatusLoop
<1>6. Heeded(f) => OfLoop(f)
  BY DEF Heeded
<1>7. CASE ReadFrame
  <2>1. /\ loopId' = IF Heeded(f) THEN StatusLoop(f) ELSE loopId
        /\ \/ iter' = "none"
           \/ expected' = IF Heeded(f) /\ f.kind \in StatusKinds THEN f.loop ELSE expected
    BY <1>7 DEF ReadFrame, IterEnds, f
  <2> QED
    BY <1>3, <1>4, <1>5, <1>6, <2>1
<1>8. CASE DrainFrame
  <2>1. /\ loopId' = IF OfLoop(f) THEN StatusLoop(f) ELSE loopId
        /\ iter' = "none" \/ expected' = expected
    BY <1>8 DEF DrainFrame, IterEnds, f
  <2> QED
    BY <1>5, <2>1
<1> QED
  BY <1>7, <1>8

(* A session that has a loop keeps having one.                              *)
LEMMA IterationKeepsALoop ==
  ASSUME TypeInv, LoopInv, BeginIteration \/ Iterate \/ Deadline
  PROVE  loopId # NoLoop => loopId' # NoLoop
<1> DEFINE f == Head(inbound)
<1>1. loopId' = loopId \/ (inbound # <<>> /\ loopId' = StatusLoop(f))
  BY DEF BeginIteration, Iterate, Deadline, Peel, ReadNothing, ReadFrame, DrainFrame,
         DrainEnds
<1>2. ASSUME inbound # <<>>, f.kind \in StatusKinds PROVE f.loop # NoLoop
  <2>1. inbound \in Seq(Frames)
    BY DEF TypeInv, TypeOK
  <2>2. f = inbound[1] /\ 1 \in DOMAIN inbound
    BY <1>2, <2>1
  <2> HIDE DEF f
  <2> QED
    BY <1>2, <2>2 DEF LoopInv, TurnsOfLoops, StatusesNameALoop
<1> QED
  BY <1>1, <1>2 DEF StatusLoop

LEMMA PartKeepsTurnsOfLoops ==
  ASSUME TypeInv, TurnsOfLoops, inbound' \in Seq(Frames), PartOf(inbound', inbound),
         UNCHANGED <<work, sent>>, loopId # NoLoop => loopId' # NoLoop
  PROVE  TurnsOfLoops'
<1>1. /\ DOMAIN inbound = 1..Len(inbound) /\ DOMAIN inbound' = 1..Len(inbound')
  BY DEF TypeInv, TypeOK
<1>2. \A i \in DOMAIN inbound' : \E j \in DOMAIN inbound : inbound'[i] = inbound[j]
  BY <1>1 DEF PartOf
<1> QED
  BY <1>2 DEF TurnsOfLoops, StatusesNameALoop, TurnsNeedALoop, NothingSent

LEMMA DaemonKeepsTurnsOfLoops ==
  ASSUME TypeInv, TurnsOfLoops, Daemon \/ DaemonError
  PROVE  TurnsOfLoops' /\ DaemonUnchanged
<1>0. inbound \in Seq(Frames)
  BY DEF TypeInv, TypeOK
<1>1. ASSUME NEW f \in Frames, Send(f), f.kind \in StatusKinds => f.loop # NoLoop,
             sent = 0 => UNCHANGED work /\ f.kind \notin StatusKinds, UNCHANGED <<loopId, sent>>
      PROVE  TurnsOfLoops'
  <2>1. \A i \in DOMAIN inbound' :
          \/ inbound'[i] = f
          \/ i \in DOMAIN inbound /\ inbound'[i] = inbound[i]
    BY <1>0, <1>1, SendAppends
  <2> QED
    BY <1>1, <2>1 DEF TurnsOfLoops, StatusesNameALoop, TurnsNeedALoop, NothingSent
<1>2. ASSUME NEW l \in Loops, NEW k,
             \/ Admit(l) /\ k = "running"
             \/ k \in {"chunk", "noop", "end"} /\ Work(l, k)
             \/ k \in {"idle", "stopped"} /\ Finish(l, k)
             \/ cancel_active_turn(l) /\ k = "notice"
      PROVE  TurnsOfLoops' /\ DaemonUnchanged
  <2>1. PICK f \in Frames : Send(f) /\ f.loop = l /\ f.kind = k
    BY <1>2, DaemonSends
  <2>2. DaemonUnchanged /\ (work[l].turn # NoTurn \/ work[l].waiting # <<>>)
    BY <1>2, DaemonSends
  <2>3. sent # 0
    BY <2>2 DEF TurnsOfLoops, NothingSent
  <2>4. l # NoLoop
    BY BoundsAreNumbers DEF Loops
  <2> QED
    BY <1>1, <2>1, <2>2, <2>3, <2>4 DEF DaemonUnchanged
<1>3. CASE DaemonError
  <2> DEFINE f == [kind |-> "error", turn |-> NoTurn, loop |-> NoLoop]
  <2>1. f \in Frames /\ f.kind \notin StatusKinds
    BY DEF Frames, Kinds, StatusKinds
  <2>2. Send(f) /\ UNCHANGED work /\ DaemonUnchanged
    BY <1>3 DEF DaemonError
  <2> HIDE DEF f
  <2> QED
    BY <1>1, <2>1, <2>2 DEF DaemonUnchanged
<1> QED
  BY <1>2, <1>3 DEF Daemon

LEMMA CallKeepsLoop ==
  ASSUME TypeInv, LoopInv, Call
  PROVE  LoopInv'
<1>0. /\ TypeOK /\ CallHasALoop
      /\ CallOrIteration /\ IteratesItsLoop /\ TurnsOfLoops /\ CallHasDone
      /\ StreamHearsItsLoop
  BY DEF TypeInv, LoopInv
<1>1. CallUnchanged
  BY DEF Call, connect, new_loop, switch_loop, close, ensure_connected, StartCall,
         Dial, Probe, LoopNew, LoopSubscribe, StoreLoop, CloseStream, CloseRpc,
         ClearFlag, Fails, CallGoes
<1>2. /\ iter' = iter /\ expected' = expected
      /\ UNCHANGED <<inbound, work, sent>>
  BY <1>1 DEF CallUnchanged, iterVars
<1>3. loopId' = loopId \/ (StoreLoop /\ loopId' = target)
  BY DEF Call, connect, new_loop, switch_loop, close, ensure_connected, StartCall,
         Dial, Probe, LoopNew, LoopSubscribe, StoreLoop, CloseStream, CloseRpc,
         ClearFlag
<1>4. TurnsOfLoops'
  <2>1. StoreLoop => target # NoLoop
    BY <1>0 DEF StoreLoop, CallGoes, CallHasALoop
  <2> QED
    BY <1>0, <1>2, <1>3, <2>1
       DEF TurnsOfLoops, StatusesNameALoop, TurnsNeedALoop, NothingSent
<1>5. ASSUME NEW from \in CtlSteps \ {"idle"}, NEW to, CallGoes(from, to)
      PROVE  /\ ctl = from /\ ctl' = to /\ mixed' = mixed
             /\ CallOrIteration' /\ IteratesItsLoop'
             /\ mixed' \/ iter = "none"
  <2>1. ctl = from /\ ctl' = to /\ mixed' = mixed
    BY <1>5 DEF CallGoes
  <2>2. mixed' \/ iter = "none"
    BY <1>0, <1>5, <2>1 DEF CallOrIteration
  <2> QED
    BY <1>2, <2>1, <2>2 DEF CallOrIteration, IteratesItsLoop
<1>6. CASE \/ \E l \in {NoLoop} \cup 1..created : connect(l)
           \/ new_loop
           \/ \E l \in 1..created : switch_loop(l)
           \/ ensure_connected
           \/ close
  <2>1. ASSUME NEW to \in {"dial", "new", "subscribe", "closeStream"}, NEW l,
               NEW b \in BOOLEAN, StartCall(to, l, b), to = "closeStream" => b = FALSE
        PROVE  LoopInv'
    <3>1. ctl' = to /\ repair' = b /\ (iter = "none" \/ mixed')
      BY <2>1 DEF StartCall
    <3> QED
      BY <1>2, <1>4, <2>1, <3>1
         DEF LoopInv, CallOrIteration, IteratesItsLoop, CallHasDone, StreamHearsItsLoop
  <2>2. CASE \E l \in {NoLoop} \cup 1..created : connect(l)
    BY <2>1, <2>2 DEF connect
  <2>3. CASE new_loop
    BY <2>1, <2>3 DEF new_loop
  <2>4. CASE \E l \in 1..created : switch_loop(l)
    BY <2>1, <2>4 DEF switch_loop
  <2>5. CASE ensure_connected
    BY <2>1, <2>5 DEF ensure_connected
  <2>6. CASE close
    BY <2>1, <2>6 DEF close
  <2> QED
    BY <1>6, <2>2, <2>3, <2>4, <2>5, <2>6
<1>7. ASSUME NEW from \in CtlSteps \ {"idle"}, Fails(from)
      PROVE  LoopInv'
  <2>1. CallGoes(from, "idle") /\ unsure' = TRUE
    BY <1>7 DEF Fails
  <2> QED
    BY <1>4, <1>5, <2>1 DEF LoopInv, CallHasDone, StreamHearsItsLoop
<1>8. CASE Dial
  <2>1. loopId' = loopId
    BY <1>8 DEF Dial
  <2>2. CASE Fails("dial")
    BY <1>7, <2>2 DEF CtlSteps
  <2>3. ASSUME NEW to \in {"probe", "subscribe", "new"}, CallGoes("dial", to),
               to = "probe" => repair, repair' = repair,
               target' = IF repair THEN loopId ELSE target
        PROVE  LoopInv'
    <3>1. ctl' = to /\ CallOrIteration' /\ IteratesItsLoop'
      BY <1>5, <2>3 DEF CtlSteps
    <3> QED
      BY <1>4, <2>1, <2>3, <3>1 DEF LoopInv, CallHasDone, StreamHearsItsLoop
  <2>4. \/ Fails("dial")
        \/ /\ target' = (IF repair THEN loopId ELSE target) /\ UNCHANGED repair
           /\ \E to \in {"probe", "subscribe", "new"} :
                CallGoes("dial", to) /\ (to = "probe" => repair)
    BY <1>0, <1>8 DEF Dial, TypeOK
  <2> QED
    BY <2>2, <2>3, <2>4
<1>9. CASE Probe
  <2>1. /\ ctl = "probe" /\ CallOrIteration' /\ IteratesItsLoop' /\ mixed' = mixed
        /\ UNCHANGED <<link, loopId>>
    BY <1>5, <1>9 DEF Probe, CtlSteps
  <2>2. repair /\ (~mixed => target = loopId)
    BY <1>0, <2>1 DEF CallHasDone
  <2>3. CASE /\ ctl' = "idle" /\ link /\ target \notin gone /\ listening' = Subscribed
    <3>1. target \in listening'
      BY <2>3 DEF Subscribed
    <3> QED
      BY <1>4, <2>1, <2>2, <2>3, <3>1 DEF LoopInv, CallHasDone, StreamHearsItsLoop
  <2>4. CASE ctl' = "closeRpc" /\ repair' = repair
    BY <1>4, <2>1, <2>2, <2>4 DEF LoopInv, CallHasDone, StreamHearsItsLoop
  <2> QED
    BY <1>9, <2>3, <2>4 DEF Probe, CallGoes
<1>10. CASE LoopNew
  <2>1. CASE Fails("new")
    BY <1>7, <2>1 DEF CtlSteps
  <2>2. CASE CallGoes("new", "subscribe")
    <3>1. ctl' = "subscribe" /\ CallOrIteration' /\ IteratesItsLoop'
      BY <1>5, <2>2 DEF CtlSteps
    <3> QED
      BY <1>4, <3>1 DEF LoopInv, CallHasDone, StreamHearsItsLoop
  <2> QED
    BY <1>10, <2>1, <2>2 DEF LoopNew
<1>11. CASE LoopSubscribe
  <2>1. CASE Fails("subscribe")
    BY <1>7, <2>1 DEF CtlSteps
  <2>2. CASE /\ CallGoes("subscribe", "store") /\ link /\ target \notin gone
             /\ listening' = Subscribed /\ UNCHANGED target
    <3>1. ctl' = "store" /\ CallOrIteration' /\ IteratesItsLoop'
      BY <1>5, <2>2 DEF CtlSteps
    <3>2. target' \in listening'
      BY <2>2 DEF Subscribed
    <3> QED
      BY <1>4, <3>1, <3>2 DEF LoopInv, CallHasDone, StreamHearsItsLoop
  <2> QED
    BY <1>11, <2>1, <2>2 DEF LoopSubscribe
<1>12. CASE StoreLoop
  <2>1. /\ ctl = "store" /\ ctl' = "idle" /\ CallOrIteration' /\ IteratesItsLoop'
        /\ loopId' = target /\ UNCHANGED <<link, listening>>
    BY <1>5, <1>12 DEF StoreLoop, linkVars, CtlSteps
  <2> QED
    BY <1>0, <1>4, <2>1 DEF LoopInv, CallHasDone, StreamHearsItsLoop
<1>13. CASE CloseStream
  <2>1. ctl' = "closeRpc" /\ CallOrIteration' /\ IteratesItsLoop' /\ link' = FALSE
    BY <1>5, <1>13 DEF CloseStream, CtlSteps
  <2> QED
    BY <1>4, <2>1 DEF LoopInv, CallHasDone, StreamHearsItsLoop
<1>14. CASE CloseRpc
  <2>1. /\ ctl = "closeRpc" /\ ctl' = "clearFlag" /\ CallOrIteration' /\ IteratesItsLoop'
        /\ UNCHANGED <<link, repair>>
    BY <1>5, <1>14 DEF CloseRpc, linkVars, CtlSteps
  <2> QED
    BY <1>0, <1>4, <2>1 DEF LoopInv, CallHasDone, StreamHearsItsLoop
<1>15. CASE ClearFlag
  <2>1. CallGoes("clearFlag", IF repair THEN "new" ELSE "idle") /\ link' = link
    BY <1>15 DEF ClearFlag, linkVars
  <2>2. /\ ctl = "clearFlag" /\ ctl' = (IF repair THEN "new" ELSE "idle")
        /\ CallOrIteration' /\ IteratesItsLoop'
    BY <1>5, <2>1 DEF CtlSteps
  <2> QED
    BY <1>0, <1>4, <2>1, <2>2 DEF LoopInv, CallHasDone, StreamHearsItsLoop
<1> QED
  BY <1>6, <1>8, <1>9, <1>10, <1>11, <1>12, <1>13, <1>14, <1>15 DEF Call

LEMMA StepLoop == TypeInv /\ LoopInv /\ [Next]_vars => LoopInv'
<1> SUFFICES ASSUME TypeInv, LoopInv, [Next]_vars PROVE LoopInv'
  OBVIOUS
<1>0. /\ CallOrIteration /\ IteratesItsLoop /\ TurnsOfLoops /\ CallHasDone
      /\ StreamHearsItsLoop
  BY DEF LoopInv
<1>1. ASSUME UNCHANGED <<link, listening, loopId, ctl, target, repair, unsure, mixed,
                         iter, expected>>, TurnsOfLoops'
      PROVE  LoopInv'
  BY <1>0, <1>1
     DEF LoopInv, CallOrIteration, IteratesItsLoop, CallHasDone, StreamHearsItsLoop
<1>2. CASE Call
  BY <1>2, CallKeepsLoop
<1>3. CASE Sidecar \/ UNCHANGED vars
  <2>1. UNCHANGED <<linkVars, loopId, inbound, callVars, iterVars, daemonVars, sent,
                    mixed>>
    BY <1>3
       DEF Sidecar, RpcCall, RpcCheck, RpcDial, RpcFlag, RpcAnswer, RpcDrop, RpcStep, vars
  <2>2. TurnsOfLoops'
    BY <1>0, <2>1
       DEF daemonVars, TurnsOfLoops, StatusesNameALoop, TurnsNeedALoop, NothingSent
  <2> QED
    BY <1>1, <2>1, <2>2 DEF linkVars, callVars, iterVars
<1>4. CASE send_turn
  <2>1. /\ UNCHANGED <<linkVars, loopId, inbound, callVars, iterVars, mixed>>
        /\ loopId # NoLoop /\ sent' = sent + 1
    BY <1>4 DEF send_turn
  <2>2. sent' # 0
    BY <2>1, BoundsAreNumbers DEF TypeInv, TypeOK
  <2>3. TurnsOfLoops'
    BY <1>0, <2>1, <2>2 DEF TurnsOfLoops, StatusesNameALoop, TurnsNeedALoop, NothingSent
  <2> QED
    BY <1>1, <2>1, <2>3 DEF linkVars, callVars, iterVars
<1>5. CASE Daemon \/ DaemonError
  BY <1>0, <1>1, <1>5, DaemonKeepsTurnsOfLoops
     DEF DaemonUnchanged, linkVars, callVars, iterVars
<1>6. CASE Drop
  <2>1. /\ link' = FALSE
        /\ UNCHANGED <<loopId, inbound, callVars, iterVars, sent, mixed>>
        /\ work' = work \/ work' = [l \in Loops |-> NoWork]
    BY <1>6 DEF Drop
  <2>2. TurnsOfLoops'
    BY <1>0, <2>1
       DEF TurnsOfLoops, StatusesNameALoop, TurnsNeedALoop, NothingSent, NoWork
  <2> QED
    BY <1>0, <2>1, <2>2
       DEF callVars, iterVars, LoopInv, CallOrIteration, IteratesItsLoop, CallHasDone,
           StreamHearsItsLoop
<1>7. CASE BeginIteration \/ Iterate \/ Deadline
  <2>1. UNCHANGED <<link, listening, ctl, target, repair, unsure, work, sent>>
    BY <1>7, IterationTakes
       DEF IterUnchanged, linkVars, callVars, daemonVars
  <2>2. TurnsOfLoops'
    BY <1>0, <1>7, <2>1, IterationTakes, IterationKeepsALoop, PartKeepsTurnsOfLoops
  <2>3. CASE BeginIteration
    <3>1. /\ iter = "none" /\ expected' = loopId /\ loopId' = loopId
          /\ (ctl = "idle" /\ mixed' = mixed) \/ mixed' = TRUE
      <4>1. mixed' = (mixed \/ ctl # "idle") /\ mixed \in BOOLEAN
        BY <2>3 DEF BeginIteration, TypeInv, TypeOK
      <4>2. mixed' = TRUE \/ (ctl = "idle" /\ mixed' = mixed)
        BY <4>1
      <4> QED
        BY <2>3, <4>2 DEF BeginIteration
    <3> QED
      BY <1>0, <2>1, <2>2, <3>1
         DEF LoopInv, CallOrIteration, IteratesItsLoop, CallHasDone, StreamHearsItsLoop
  <2>4. CASE Iterate \/ Deadline
    <3>1. iter # "none" /\ mixed' = mixed
      BY <2>4
         DEF Iterate, Deadline, Peel, ReadNothing, ReadFrame, DrainFrame, DrainEnds,
             IterGoes, IterEnds
    <3>2. ~mixed => loopId' = loopId /\ (iter' = "none" \/ expected' = expected)
      <4>1. CASE ReadFrame \/ DrainFrame
        BY <4>1, FramesKeepTheLoop
      <4>2. CASE Deadline \/ Peel \/ ReadNothing \/ DrainEnds
        BY <4>2 DEF Deadline, Peel, ReadNothing, DrainEnds, IterEnds
      <4> QED
        BY <2>4, <4>1, <4>2 DEF Iterate
    <3> QED
      BY <1>0, <2>1, <2>2, <3>1, <3>2
         DEF LoopInv, CallOrIteration, IteratesItsLoop, CallHasDone, StreamHearsItsLoop
  <2> QED
    BY <1>7, <2>3, <2>4
<1> QED
  BY <1>2, <1>3, <1>4, <1>5, <1>6, <1>7 DEF Next

LEMMA LoopInvHolds == Spec => []LoopInv
BY InitLoop, StepLoop, TypeInvHolds, PTL DEF Spec

(* A session that is up, and whose last call did not fail, is on a loop     *)
(* that the daemon streams.                                                 *)
THEOREM SessionHearsItsLoop == Spec => []StreamHearsItsLoop
<1>1. LoopInv => StreamHearsItsLoop
  BY DEF LoopInv
<1> QED
  BY <1>1, LoopInvHolds, PTL

(* No frame of a loop the session has left moves it back.                   *)
THEOREM CallsMoveTheLoop == Spec => OnlyCallsMoveTheLoop
<1>1. TypeInv /\ LoopInv /\ [Next]_vars =>
        [~mixed' /\ loopId # NoLoop /\ loopId' # loopId => ctl = "store"]_vars
  <2> SUFFICES ASSUME TypeInv, LoopInv, [Next]_vars, ~mixed', loopId' # loopId
               PROVE  ctl = "store"
    OBVIOUS
  <2>1. ~UNCHANGED vars
    BY DEF vars
  <2>2. CASE Call
    BY <2>2
       DEF Call, connect, new_loop, switch_loop, close, ensure_connected, StartCall,
           Dial, Probe, LoopNew, LoopSubscribe, StoreLoop, CloseStream, CloseRpc,
           ClearFlag, CallGoes
  <2>3. CASE \/ Sidecar \/ send_turn \/ Daemon \/ DaemonError \/ Drop
    <3>1. CASE Sidecar
      BY <3>1
         DEF Sidecar, RpcCall, RpcCheck, RpcDial, RpcFlag, RpcAnswer, RpcDrop, RpcStep
    <3>2. CASE send_turn \/ Drop
      BY <3>2 DEF send_turn, Drop
    <3>3. CASE Daemon \/ DaemonError
      BY <3>3
         DEF Daemon, DaemonError, Admit, Work, Finish, cancel_active_turn,
             DaemonUnchanged
    <3> QED
      BY <2>3, <3>1, <3>2, <3>3
  <2>4. CASE BeginIteration \/ Deadline \/ Peel \/ ReadNothing \/ DrainEnds
    BY <2>4 DEF BeginIteration, Deadline, Peel, ReadNothing, DrainEnds
  <2>5. CASE ReadFrame \/ DrainFrame
    <3>1. mixed' = mixed
      BY <2>5 DEF ReadFrame, DrainFrame, IterGoes, IterEnds
    <3> QED
      BY <2>5, <3>1, FramesKeepTheLoop
  <2> QED
    BY <2>1, <2>2, <2>3, <2>4, <2>5 DEF Next, Iterate
<1> QED
  BY <1>1, TypeInvHolds, LoopInvHolds, PTL DEF Spec, OnlyCallsMoveTheLoop

-----------------------------------------------------------------------------
(* Turns.                                                                   *)

(* Frames without which a turn is not read: those an iteration may return,  *)
(* and the status that begins a turn.                                       *)
Live == EventKinds \cup {"running"}

(* Turns are numbered as they are sent; a live frame or a status has one.   *)
FramesOfTurns ==
  \A i \in DOMAIN inbound :
    /\ inbound[i].turn <= sent
    /\ inbound[i].kind \in Live \cup StatusKinds => inbound[i].turn # NoTurn

WorkOfTurns ==
  \A l \in Loops :
    /\ work[l].turn <= sent
    /\ \A i \in DOMAIN work[l].waiting : work[l].waiting[i] <= sent

(* A reader is new until it reads, and is done with when it has ended.      *)
ReaderIsNew ==
  /\ reader.ended = "no"
  /\ iter # "read" => reader = NewReader
  /\ iter = "none" => yielded = {}

(* The daemon has no more to say of a turn than that it is over.            *)
Quiet(l) ==
  work[l].waiting = <<>> /\ (work[l].turn = NoTurn \/ work[l].closing)

(* The turn that is awaited waits, or is worked on, at this loop.           *)
Holds(l) ==
  work[l].waiting # <<>> \/ (work[l].turn # NoTurn /\ work[l].turn = awaited)

(* One turn is awaited, at one loop: what is left of another is its end.    *)
OnlyAwaitedWork ==
  /\ \A l \in Loops :
       /\ work[l].waiting # <<>> =>
            work[l].waiting = <<awaited>> /\ work[l].turn # awaited
       /\ work[l].turn # NoTurn /\ ~work[l].closing => work[l].turn = awaited
  /\ \A l, m \in Loops : Holds(l) /\ Holds(m) => l = m

NotYetAdmitted ==
  \A l \in Loops :
    work[l].waiting # <<>> => \A i \in DOMAIN inbound : inbound[i].turn # awaited

LiveAreAwaited ==
  \A i \in DOMAIN inbound : inbound[i].kind \in Live => inbound[i].turn = awaited

(* A frame that ends the awaited turn, and nothing live behind it.          *)
Closes(f) == f.kind \in {"end", "idle", "stopped"} /\ f.turn = awaited

ClosersAreLast ==
  \A i \in DOMAIN inbound :
    Closes(inbound[i]) =>
      /\ \A l \in Loops : Quiet(l)
      /\ \A j \in DOMAIN inbound : i < j => inbound[j].kind \notin Live

(* Between turns, and in the drain, nothing live is left.                   *)
TurnIsOver ==
  awaited = NoTurn \/ iter = "drain" =>
    /\ \A l \in Loops : Quiet(l)
    /\ \A i \in DOMAIN inbound : inbound[i].kind \notin Live

ReadsAwaited ==
  /\ reader.expected \in {NoTurn, awaited}
  /\ reader.started => reader.expected # NoTurn
  /\ yielded \subseteq {awaited} \ {NoTurn}

InSequence ==
  /\ OnlyAwaitedWork /\ NotYetAdmitted /\ LiveAreAwaited /\ ClosersAreLast
  /\ TurnIsOver /\ ReadsAwaited

TurnInv == FramesOfTurns /\ WorkOfTurns /\ ReaderIsNew /\ (calm => InSequence)

LEMMA InitTurn == Init => TurnInv
<1> SUFFICES ASSUME Init PROVE TurnInv
  OBVIOUS
<1>1. DOMAIN inbound = {} /\ awaited = NoTurn /\ yielded = {} /\ sent = 0
      /\ iter = "none" /\ reader = NewReader
  BY DEF Init
<1>2. \A l \in Loops : work[l] = NoWork
  BY DEF Init
<1>3. \A l \in Loops : Quiet(l) /\ ~Holds(l) /\ work[l].turn = 0 /\ work[l].waiting = <<>>
  BY <1>2, BoundsAreNumbers DEF NoWork, Quiet, Holds
<1>4. OnlyAwaitedWork /\ NotYetAdmitted
  BY <1>3, BoundsAreNumbers DEF OnlyAwaitedWork, NotYetAdmitted
<1>5. InSequence
  BY <1>1, <1>3, <1>4
     DEF InSequence, LiveAreAwaited, ClosersAreLast, TurnIsOver, ReadsAwaited, NewReader
<1> QED
  BY <1>1, <1>3, <1>5
     DEF TurnInv, FramesOfTurns, WorkOfTurns, ReaderIsNew, NewReader

(* A step that touches none of it, except perhaps whether it is in sequence.*)
LEMMA OthersKeepTurn ==
  ASSUME TurnInv,
         UNCHANGED <<inbound, work, sent, iter, reader, yielded, awaited>>,
         calm' => calm
  PROVE  TurnInv'
<1>1. FramesOfTurns' /\ WorkOfTurns' /\ ReaderIsNew'
  BY DEF TurnInv, FramesOfTurns, WorkOfTurns, ReaderIsNew
<1>2. InSequence => InSequence'
  BY DEF InSequence, OnlyAwaitedWork, NotYetAdmitted, LiveAreAwaited, ClosersAreLast,
         TurnIsOver, ReadsAwaited, Quiet, Holds, Closes
<1> QED
  BY <1>1, <1>2 DEF TurnInv

LEMMA CallKeepsTurn ==
  ASSUME TypeInv, TurnInv, Call \/ Sidecar \/ UNCHANGED vars
  PROVE  TurnInv'
<1>1. CASE Sidecar \/ UNCHANGED vars
  <2>1. UNCHANGED <<inbound, work, sent, iter, reader, yielded, awaited, calm>>
    BY <1>1
       DEF Sidecar, RpcCall, RpcCheck, RpcDial, RpcFlag, RpcAnswer, RpcDrop, RpcStep, vars,
           daemonVars, iterVars, useVars
  <2> QED
    BY <2>1, OthersKeepTurn
<1>2. CASE Call
  <2>1. CallUnchanged /\ awaited' = awaited
    BY <1>2
       DEF Call, connect, new_loop, switch_loop, close, ensure_connected, StartCall,
           Dial, Probe, LoopNew, LoopSubscribe, StoreLoop, CloseStream, CloseRpc,
           ClearFlag, Fails, CallGoes, useVars
  <2>2. calm' = calm \/ calm' = (calm /\ iter = "none" /\ awaited = NoTurn)
    BY <1>2
       DEF Call, connect, new_loop, switch_loop, close, ensure_connected, StartCall,
           Dial, Probe, LoopNew, LoopSubscribe, StoreLoop, CloseStream, CloseRpc,
           ClearFlag, Fails, CallGoes, useVars
  <2>3. calm' => calm
    BY <2>2, Zenon
  <2> QED
    BY <2>1, <2>3, OthersKeepTurn DEF CallUnchanged, iterVars
<1> QED
  BY <1>1, <1>2

LEMMA DropKeepsTurn ==
  ASSUME TypeInv, TurnInv, Drop
  PROVE  TurnInv'
<1>1. /\ calm' = FALSE /\ UNCHANGED <<inbound, sent, iter, reader, yielded>>
      /\ work' = work \/ work' = [l \in Loops |-> NoWork]
  BY DEF Drop, iterVars
<1>2. WorkOfTurns'
  BY <1>1, BoundsAreNumbers DEF TurnInv, TypeInv, TypeOK, WorkOfTurns, NoWork
<1> QED
  BY <1>1, <1>2 DEF TurnInv, FramesOfTurns, ReaderIsNew

(* A turn is sent in sequence when the one before it is over.               *)
LEMMA SendTurnKeepsTurn ==
  ASSUME TypeInv, TurnInv, send_turn
  PROVE  TurnInv'
<1>0. /\ TypeOK /\ sent \in Nat /\ sent' = sent + 1 /\ loopId \in Loops
      /\ UNCHANGED <<inbound, iter, reader, yielded>>
      /\ DOMAIN inbound = 1..Len(inbound) /\ inbound \in Seq(Frames)
  BY BoundsAreNumbers DEF send_turn, iterVars, TypeInv, TypeOK
<1>1. ASSUME NEW l \in Loops
      PROVE  /\ UNCHANGED <<work[l].turn, work[l].closing>>
             /\ \/ work'[l].waiting = work[l].waiting
                \/ l = loopId /\ work'[l].waiting = Append(work[l].waiting, sent + 1)
  BY <1>0 DEF send_turn, TypeOK, Works
<1>2. ASSUME NEW l \in Loops PROVE work[l].turn \in Nat /\ work[l].turn <= sent
  BY <1>0, BoundsAreNumbers DEF TurnInv, WorkOfTurns, TypeOK, Works, Turns
<1>3. \A i \in DOMAIN inbound : inbound[i].turn \in Nat /\ inbound[i].turn <= sent
  <2>1. \A i \in DOMAIN inbound : inbound[i] \in Frames
    BY <1>0
  <2> QED
    BY <2>1, BoundsAreNumbers DEF TurnInv, FramesOfTurns, Frames, Turns
<1>4. FramesOfTurns'
  BY <1>0, <1>3 DEF TurnInv, FramesOfTurns
<1>5. WorkOfTurns'
  <2> SUFFICES ASSUME NEW l \in Loops
               PROVE  /\ work'[l].turn <= sent'
                      /\ \A i \in DOMAIN work'[l].waiting : work'[l].waiting[i] <= sent'
    BY DEF WorkOfTurns
  <2>1. /\ work[l].waiting \in Seq(Turns)
        /\ \A i \in DOMAIN work[l].waiting : work[l].waiting[i] <= sent
    BY <1>0 DEF TypeOK, Works, TurnInv, WorkOfTurns
  <2>2. \A i \in DOMAIN work[l].waiting :
          work[l].waiting[i] \in Nat /\ work[l].waiting[i] <= sent'
    BY <1>0, <2>1, BoundsAreNumbers DEF Turns
  <2>3. sent + 1 <= sent' /\ sent \in Nat
    BY <1>0
  <2>4. \A i \in DOMAIN Append(work[l].waiting, sent + 1) :
          Append(work[l].waiting, sent + 1)[i] <= sent'
    BY <2>1, <2>2, <2>3
  <2>5. /\ work'[l].turn = work[l].turn /\ work[l].turn \in Nat /\ work[l].turn <= sent
        /\ \/ work'[l].waiting = work[l].waiting
           \/ work'[l].waiting = Append(work[l].waiting, sent + 1)
    BY <1>1, <1>2
  <2>6. work'[l].turn <= sent'
    BY <1>0, <2>5
  <2>7. \A i \in DOMAIN work'[l].waiting : work'[l].waiting[i] <= sent'
    <3>1. CASE work'[l].waiting = work[l].waiting
      BY <2>2, <3>1
    <3>2. CASE work'[l].waiting = Append(work[l].waiting, sent + 1)
      BY <2>4, <3>2, Zenon
    <3> QED
      BY <2>5, <3>1, <3>2
  <2> QED
    BY <2>6, <2>7
<1>6. ReaderIsNew'
  BY <1>0 DEF TurnInv, ReaderIsNew
<1>7. ASSUME calm' PROVE InSequence'
  <2>1. calm /\ awaited = NoTurn /\ iter # "drain" /\ awaited' = sent + 1
    BY <1>7 DEF send_turn
  <2>2. InSequence
    BY <2>1 DEF TurnInv
  <2>3. /\ \A l \in Loops : Quiet(l)
        /\ \A i \in DOMAIN inbound : inbound[i].kind \notin Live
    BY <2>1, <2>2 DEF InSequence, TurnIsOver
  <2>4. awaited' # NoTurn /\ \A i \in DOMAIN inbound : inbound[i].turn # awaited'
    BY <1>0, <1>3, <2>1, BoundsAreNumbers
  <2>5. \A l \in Loops : work'[l].turn # awaited'
    BY <1>0, <1>1, <1>2, <2>1
  <2>6. ASSUME NEW l \in Loops
        PROVE  /\ \/ work'[l].waiting = <<>> /\ Quiet(l)' /\ ~Holds(l)'
                  \/ l = loopId /\ work'[l].waiting = <<awaited'>>
               /\ work'[l].turn = NoTurn \/ work'[l].closing
    <3>1. work[l].waiting = <<>> /\ (work[l].turn = NoTurn \/ work[l].closing)
      BY <2>3 DEF Quiet
    <3>2. \/ work'[l].waiting = <<>>
          \/ l = loopId /\ work'[l].waiting = <<awaited'>>
      BY <1>1, <2>1, <3>1
    <3> QED
      BY <1>1, <2>5, <3>1, <3>2 DEF Quiet, Holds
  <2>7. OnlyAwaitedWork'
    BY <2>5, <2>6 DEF OnlyAwaitedWork, Holds
  <2>8. NotYetAdmitted' /\ LiveAreAwaited' /\ ClosersAreLast'
    BY <1>0, <2>3, <2>4 DEF NotYetAdmitted, LiveAreAwaited, ClosersAreLast, Closes
  <2>9. TurnIsOver'
    BY <1>0, <2>1, <2>4 DEF TurnIsOver
  <2>10. ReadsAwaited'
    BY <1>0, <2>1, <2>2 DEF InSequence, ReadsAwaited
  <2> QED
    BY <2>7, <2>8, <2>9, <2>10 DEF InSequence
<1> QED
  BY <1>4, <1>5, <1>6, <1>7 DEF TurnInv

(* A frame of the daemon is added, and its work goes on.                    *)
LEMMA SentFrameKeepsTurn ==
  ASSUME TypeInv, TurnInv, NEW f \in Frames, Send(f),
         UNCHANGED <<iter, reader, yielded, sent, awaited>>,
         f.turn <= sent, f.kind \in Live \cup StatusKinds => f.turn # NoTurn,
         WorkOfTurns',
         calm' =>
           /\ calm
           /\ OnlyAwaitedWork'
           /\ \A l \in Loops : work'[l].waiting # <<>> =>
                work[l].waiting # <<>> /\ f.turn # awaited
           /\ f.kind \in Live => f.turn = awaited /\ \E l \in Loops : ~Quiet(l)
           /\ Closes(f) => \A l \in Loops : Quiet(l)'
           /\ \A l \in Loops : Quiet(l) => Quiet(l)'
  PROVE  TurnInv'
<1>0. inbound \in Seq(Frames)
  BY DEF TypeInv, TypeOK
<1>1. /\ DOMAIN inbound = 1..Len(inbound) /\ DOMAIN inbound' = 1..Len(inbound')
      /\ Len(inbound) \in Nat
      /\ \A i \in DOMAIN inbound' :
           \/ i \in DOMAIN inbound /\ inbound'[i] = inbound[i]
           \/ i = Len(inbound) + 1 /\ inbound'[i] = f /\ i = Len(inbound')
  BY <1>0, SendAppends
<1>2. FramesOfTurns'
  BY <1>1 DEF TurnInv, FramesOfTurns
<1>3. ReaderIsNew'
  BY DEF TurnInv, ReaderIsNew
<1>4. ASSUME calm' PROVE InSequence'
  <2>1. /\ OnlyAwaitedWork /\ NotYetAdmitted /\ LiveAreAwaited /\ ClosersAreLast
        /\ TurnIsOver /\ ReadsAwaited
    BY <1>4 DEF TurnInv, InSequence
  <2>2. NotYetAdmitted'
    BY <1>1, <1>4, <2>1 DEF NotYetAdmitted
  <2>3. LiveAreAwaited'
    BY <1>1, <1>4, <2>1 DEF LiveAreAwaited
  <2>4. ClosersAreLast'
    <3> SUFFICES ASSUME NEW i \in DOMAIN inbound', Closes(inbound'[i])
                 PROVE  /\ \A l \in Loops : Quiet(l)'
                        /\ \A j \in DOMAIN inbound' : i < j => inbound'[j].kind \notin Live
      BY DEF ClosersAreLast, Closes
    <3>1. CASE i \in DOMAIN inbound /\ inbound'[i] = inbound[i]
      <4>1. /\ \A l \in Loops : Quiet(l)
            /\ \A j \in DOMAIN inbound : i < j => inbound[j].kind \notin Live
        BY <2>1, <3>1 DEF ClosersAreLast
      <4> QED
        BY <1>1, <1>4, <4>1
    <3>2. CASE i = Len(inbound) + 1 /\ inbound'[i] = f /\ i = Len(inbound')
      BY <1>1, <1>4, <3>2
    <3> QED
      BY <1>1, <3>1, <3>2
  <2>5. TurnIsOver'
    BY <1>1, <1>4, <2>1 DEF TurnIsOver
  <2>6. ReadsAwaited'
    BY <2>1 DEF ReadsAwaited
  <2> QED
    BY <1>4, <2>2, <2>3, <2>4, <2>5, <2>6 DEF InSequence
<1> QED
  BY <1>2, <1>3, <1>4 DEF TurnInv

LEMMA DaemonKeepsTurn ==
  ASSUME TypeInv, TurnInv, Daemon \/ DaemonError
  PROVE  TurnInv'
<1>0. /\ work \in [Loops -> Works] /\ sent \in Nat /\ WorkOfTurns
      /\ awaited \in {NoTurn} \cup Turns /\ NoTurn = 0 /\ NoTurn \notin Turns
  BY BoundsAreNumbers DEF TypeInv, TypeOK, TurnInv, Turns
<1>1. ASSUME NEW l \in Loops
      PROVE  /\ work[l] \in Works /\ work[l].turn \in {NoTurn} \cup Turns
             /\ work[l].turn <= sent /\ work[l].waiting \in Seq(Turns)
             /\ \A i \in DOMAIN work[l].waiting : work[l].waiting[i] <= sent
  BY <1>0 DEF WorkOfTurns, Works
<1>2. DaemonUnchanged => UNCHANGED <<iter, reader, yielded, sent, awaited>>
  BY DEF DaemonUnchanged, iterVars
<1>3. (* One loop holds the awaited turn, the others are quiet.             *)
      ASSUME calm, NEW l \in Loops, Holds(l)
      PROVE  /\ awaited \in Turns
             /\ \A m \in Loops : m # l => ~Holds(m) /\ Quiet(m)
             /\ work[l].waiting # <<>> => work[l].waiting = <<awaited>>
             /\ work[l].waiting # <<>> => work[l].turn # awaited
  <2>1. OnlyAwaitedWork
    BY <1>3 DEF TurnInv, InSequence
  <2>2. /\ work[l].waiting # <<>> => work[l].waiting = <<awaited>>
        /\ work[l].waiting # <<>> => work[l].turn # awaited
    BY <2>1 DEF OnlyAwaitedWork
  <2>3. awaited \in Turns
    <3>1. CASE work[l].waiting # <<>>
      BY <1>1, <2>2, <3>1
    <3>2. CASE work[l].turn # NoTurn /\ work[l].turn = awaited
      BY <1>0, <3>2
    <3> QED
      BY <1>3, <3>1, <3>2 DEF Holds
  <2>4. \A m \in Loops : m # l => ~Holds(m)
    BY <1>3, <2>1 DEF OnlyAwaitedWork
  <2>5. \A m \in Loops : ~Holds(m) => Quiet(m)
    BY <2>1 DEF OnlyAwaitedWork, Holds, Quiet
  <2> QED
    BY <2>2, <2>3, <2>4, <2>5
<1>4. ASSUME NEW l \in Loops, Admit(l) PROVE TurnInv'
  <2> DEFINE t == Head(work[l].waiting)
             f == [kind |-> "running", turn |-> t, loop |-> l]
  <2>1. /\ work[l].waiting # <<>> /\ t \in Turns /\ t <= sent
        /\ Tail(work[l].waiting) \in Seq(Turns)
        /\ \A i \in DOMAIN Tail(work[l].waiting) : Tail(work[l].waiting)[i] <= sent
    BY <1>1, <1>4 DEF Admit
  <2>2. f \in Frames /\ f.turn = t /\ f.kind = "running"
    BY <2>1 DEF Frames, Kinds, StatusKinds
  <2>3. Send(f) /\ DaemonUnchanged /\ calm' = calm
    BY <1>4 DEF Admit
  <2>4. /\ work'[l].turn = t /\ work'[l].waiting = Tail(work[l].waiting)
        /\ work'[l].closing = FALSE
        /\ \A m \in Loops : m # l => work'[m] = work[m]
    <3> DEFINE w == [NoWork EXCEPT !.turn = t, !.waiting = Tail(work[l].waiting)]
    <3>1. w.turn = t /\ w.waiting = Tail(work[l].waiting) /\ w.closing = FALSE
      BY DEF NoWork
    <3>2. work' = [work EXCEPT ![l] = w]
      BY <1>4 DEF Admit
    <3> HIDE DEF w
    <3> QED
      BY <1>0, <3>1, <3>2
  <2>6. WorkOfTurns'
    <3> SUFFICES ASSUME NEW m \in Loops
                 PROVE  /\ work'[m].turn <= sent'
                        /\ \A i \in DOMAIN work'[m].waiting : work'[m].waiting[i] <= sent'
      BY DEF WorkOfTurns
    <3> QED
      BY <1>1, <1>2, <2>1, <2>3, <2>4
  <2>7. ASSUME calm
        PROVE  /\ OnlyAwaitedWork'
               /\ \A m \in Loops : work'[m].waiting = <<>>
               /\ t = awaited /\ ~Quiet(l)
    <3>1. Holds(l) /\ ~Quiet(l)
      BY <2>1 DEF Holds, Quiet
    <3>2. /\ work[l].waiting = <<awaited>>
          /\ \A m \in Loops : m # l => ~Holds(m) /\ Quiet(m)
      BY <1>3, <2>1, <2>7, <3>1
    <3>3. t = awaited /\ Tail(work[l].waiting) = <<>>
      BY <3>2
    <3>4. /\ awaited' = awaited /\ \A m \in Loops : work'[m].waiting = <<>>
          /\ \A m \in Loops : m # l => ~Holds(m)'
          /\ \A m \in Loops : m # l => work'[m].turn = NoTurn \/ work'[m].closing
      BY <1>2, <2>3, <2>4, <3>2, <3>3 DEF Holds, Quiet
    <3>5. OnlyAwaitedWork'
      BY <2>4, <3>3, <3>4 DEF OnlyAwaitedWork
    <3> QED
      BY <3>1, <3>3, <3>4, <3>5
  <2> HIDE DEF f, t
  <2>8. ~Closes(f)
    BY <2>2 DEF Closes
  <2>9. \A m \in Loops : calm /\ Quiet(m) => Quiet(m)'
    BY <2>1, <2>4 DEF Quiet
  <2> QED
    BY <1>0, <1>2, <2>1, <2>2, <2>3, <2>6, <2>7, <2>8, <2>9, SentFrameKeepsTurn
<1>5. ASSUME NEW l \in Loops, NEW k \in {"chunk", "noop", "end"}, Work(l, k)
      PROVE  TurnInv'
  <2> DEFINE f == [kind |-> k, turn |-> work[l].turn, loop |-> l]
  <2>1. work[l].turn # NoTurn /\ ~work[l].closing
    BY <1>5 DEF Work
  <2>2. f \in Frames /\ f.turn = work[l].turn /\ f.kind = k
    BY <1>1 DEF Frames, Kinds, EventKinds
  <2>3. Send(f) /\ DaemonUnchanged /\ calm' = calm
    BY <1>5 DEF Work
  <2>4. /\ work'[l].turn = work[l].turn /\ work'[l].waiting = work[l].waiting
        /\ work'[l].closing = (k = "end")
        /\ \A m \in Loops : m # l => work'[m] = work[m]
    BY <1>0, <1>1, <1>5 DEF Work, Works
  <2>5. WorkOfTurns'
    BY <1>1, <1>2, <2>3, <2>4 DEF WorkOfTurns
  <2>6. ASSUME calm
        PROVE  /\ OnlyAwaitedWork'
               /\ \A m \in Loops : work'[m].waiting = <<>>
               /\ work[l].turn = awaited /\ ~Quiet(l)
               /\ k = "end" => \A m \in Loops : Quiet(m)'
    <3>1. work[l].turn = awaited
      BY <2>1, <2>6 DEF TurnInv, InSequence, OnlyAwaitedWork
    <3>2. Holds(l) /\ ~Quiet(l)
      BY <2>1, <3>1 DEF Holds, Quiet
    <3>3. /\ work[l].waiting = <<>>
          /\ \A m \in Loops : m # l => ~Holds(m) /\ Quiet(m)
      BY <1>3, <2>6, <3>1, <3>2
    <3>4. /\ awaited' = awaited /\ \A m \in Loops : work'[m].waiting = <<>>
          /\ \A m \in Loops : m # l => ~Holds(m)' /\ Quiet(m)'
          /\ \A m \in Loops : m # l => work'[m].turn = NoTurn \/ work'[m].closing
      BY <1>2, <2>3, <2>4, <3>3 DEF Holds, Quiet
    <3>5. OnlyAwaitedWork'
      BY <2>4, <3>1, <3>4 DEF OnlyAwaitedWork
    <3>6. k = "end" => Quiet(l)'
      BY <2>4, <3>3 DEF Quiet
    <3> QED
      BY <3>1, <3>2, <3>4, <3>5, <3>6
  <2> HIDE DEF f
  <2>7. Closes(f) => k = "end"
    BY <2>2 DEF Closes
  <2>8. \A m \in Loops : Quiet(m) => Quiet(m)'
    BY <2>1, <2>4 DEF Quiet
  <2> QED
    BY <1>1, <1>2, <2>1, <2>2, <2>3, <2>5, <2>6, <2>7, <2>8, SentFrameKeepsTurn
<1>6. ASSUME NEW l \in Loops, NEW k \in {"idle", "stopped"}, Finish(l, k)
      PROVE  TurnInv'
  <2> DEFINE f == [kind |-> k, turn |-> work[l].turn, loop |-> l]
  <2>1. work[l].turn # NoTurn
    BY <1>6 DEF Finish
  <2>2. f \in Frames /\ f.turn = work[l].turn /\ f.kind = k
    BY <1>1 DEF Frames, Kinds, StatusKinds
  <2>3. Send(f) /\ DaemonUnchanged
    BY <1>6 DEF Finish
  <2>4. calm' => calm
    <3>1. calm' = (calm /\ (work[l].progress \/ work[l].cancelled))
      BY <1>6 DEF Finish
    <3> QED
      BY <3>1, Zenon
  <2>5. /\ work'[l].turn = NoTurn /\ work'[l].waiting = work[l].waiting
        /\ \A m \in Loops : m # l => work'[m] = work[m]
    BY <1>0, <1>6 DEF Finish, NoWork
  <2>6. WorkOfTurns'
    BY <1>0, <1>1, <1>2, <2>3, <2>5 DEF WorkOfTurns
  <2>7. \A m \in Loops : Quiet(m) => Quiet(m)'
    BY <2>5 DEF Quiet
  <2>8. ASSUME calm
        PROVE  /\ OnlyAwaitedWork'
               /\ work[l].turn = awaited => \A m \in Loops : Quiet(m)'
               /\ \A m \in Loops : work[m].waiting # <<>> => work[l].turn # awaited
    <3>1. OnlyAwaitedWork /\ awaited' = awaited
      BY <1>2, <2>3, <2>8 DEF TurnInv, InSequence
    <3>2. \A m \in Loops : Holds(m)' => Holds(m)
      BY <2>5, <3>1 DEF Holds
    <3>3. \A m \in Loops : work[m].waiting # <<>> => awaited # NoTurn
      BY <1>0, <1>3, <2>8 DEF Holds
    <3>4. OnlyAwaitedWork'
      BY <2>5, <3>1, <3>2, <3>3 DEF OnlyAwaitedWork
    <3>5. ASSUME work[l].turn = awaited
          PROVE  /\ \A m \in Loops : Quiet(m)'
                 /\ \A m \in Loops : work[m].waiting = <<>>
      <4>1. Holds(l)
        BY <2>1, <3>5 DEF Holds
      <4>2. /\ work[l].waiting = <<>>
            /\ \A m \in Loops : m # l => ~Holds(m) /\ Quiet(m)
        BY <1>3, <2>8, <3>5, <4>1
      <4> QED
        BY <2>5, <2>7, <4>2 DEF Quiet
    <3> QED
      BY <3>4, <3>5
  <2> HIDE DEF f
  <2>9. (Closes(f) => work[l].turn = awaited) /\ f.kind \notin Live
    BY <2>2 DEF Closes, Live, EventKinds
  <2>10. \A m \in Loops : work'[m].waiting = work[m].waiting
    BY <2>5
  <2> QED
    BY <1>1, <1>2, <2>1, <2>2, <2>3, <2>4, <2>6, <2>7, <2>8, <2>9, <2>10,
       SentFrameKeepsTurn
<1>7. ASSUME NEW f \in Frames, f.turn = NoTurn, f.kind \in {"notice", "error"}, Send(f),
             DaemonUnchanged, calm' => calm,
             \A l \in Loops : /\ work'[l].turn = work[l].turn
                              /\ work'[l].closing = work[l].closing
                              /\ work'[l].waiting = work[l].waiting
      PROVE  TurnInv'
  <2>1. f.kind \notin Live \cup StatusKinds /\ ~Closes(f)
    BY <1>7 DEF Live, EventKinds, StatusKinds, Closes
  <2>2. WorkOfTurns'
    BY <1>1, <1>2, <1>7 DEF WorkOfTurns
  <2>3. \A l \in Loops : Quiet(l)' = Quiet(l)
    BY <1>7 DEF Quiet
  <2>4. ASSUME calm
        PROVE  /\ OnlyAwaitedWork'
               /\ \A l \in Loops : work[l].waiting # <<>> => f.turn # awaited
    <3>1. OnlyAwaitedWork /\ awaited' = awaited
      BY <1>2, <1>7, <2>4 DEF TurnInv, InSequence
    <3>2. OnlyAwaitedWork'
      BY <1>7, <3>1 DEF OnlyAwaitedWork, Holds
    <3>3. \A l \in Loops : work[l].waiting # <<>> => f.turn # awaited
      BY <1>0, <1>3, <1>7, <2>4 DEF Holds
    <3> QED
      BY <3>2, <3>3
  <2> QED
    BY <1>0, <1>2, <1>7, <2>1, <2>2, <2>3, <2>4, SentFrameKeepsTurn
<1>8. ASSUME NEW l \in Loops, cancel_active_turn(l) PROVE TurnInv'
  <2> DEFINE f == [kind |-> "notice", turn |-> NoTurn, loop |-> l]
  <2>1. f \in Frames /\ f.turn = NoTurn /\ f.kind = "notice"
    BY DEF Frames, Kinds
  <2>2. Send(f) /\ DaemonUnchanged /\ calm' = calm
    BY <1>8 DEF cancel_active_turn
  <2>3. \A m \in Loops : /\ work'[m].turn = work[m].turn
                         /\ work'[m].closing = work[m].closing
                         /\ work'[m].waiting = work[m].waiting
    BY <1>0, <1>1, <1>8 DEF cancel_active_turn, Works
  <2> HIDE DEF f
  <2> QED
    BY <1>7, <2>1, <2>2, <2>3
<1>9. CASE DaemonError
  <2> DEFINE f == [kind |-> "error", turn |-> NoTurn, loop |-> NoLoop]
  <2>1. f \in Frames /\ f.turn = NoTurn /\ f.kind = "error"
    BY DEF Frames, Kinds
  <2>2. Send(f) /\ DaemonUnchanged /\ calm' = FALSE /\ work' = work
    BY <1>9 DEF DaemonError
  <2> HIDE DEF f
  <2> QED
    BY <1>7, <2>1, <2>2
<1> QED
  BY <1>4, <1>5, <1>6, <1>8, <1>9 DEF Daemon

(* What is left of the pending frames is as it was.                         *)
LEMMA PartKeepsFrames ==
  ASSUME TypeInv, TurnInv, inbound' \in Seq(Frames), PartOf(inbound', inbound),
         UNCHANGED <<work, sent>>
  PROVE  /\ FramesOfTurns' /\ WorkOfTurns'
         /\ (\A i \in DOMAIN inbound : inbound[i].kind \notin Live) =>
              \A i \in DOMAIN inbound' : inbound'[i].kind \notin Live
         /\ calm /\ awaited' = awaited =>
              OnlyAwaitedWork' /\ NotYetAdmitted' /\ LiveAreAwaited' /\ ClosersAreLast'
<1>1. /\ DOMAIN inbound = 1..Len(inbound) /\ DOMAIN inbound' = 1..Len(inbound')
  BY DEF TypeInv, TypeOK
<1>2. PICK g \in [1..Len(inbound') -> 1..Len(inbound)] :
        /\ \A i \in 1..Len(inbound') : inbound'[i] = inbound[g[i]]
        /\ \A i, j \in 1..Len(inbound') : i < j => g[i] < g[j]
  BY DEF PartOf
<1>3. \A i \in DOMAIN inbound' : g[i] \in DOMAIN inbound /\ inbound'[i] = inbound[g[i]]
  BY <1>1, <1>2
<1>4. FramesOfTurns' /\ WorkOfTurns'
  BY <1>3 DEF TurnInv, FramesOfTurns, WorkOfTurns
<1>5. (\A i \in DOMAIN inbound : inbound[i].kind \notin Live) =>
        \A i \in DOMAIN inbound' : inbound'[i].kind \notin Live
  BY <1>3
<1>6. ASSUME calm, awaited' = awaited
      PROVE  OnlyAwaitedWork' /\ NotYetAdmitted' /\ LiveAreAwaited' /\ ClosersAreLast'
  <2>1. OnlyAwaitedWork /\ NotYetAdmitted /\ LiveAreAwaited /\ ClosersAreLast
    BY <1>6 DEF TurnInv, InSequence
  <2>2. OnlyAwaitedWork'
    BY <1>6, <2>1 DEF OnlyAwaitedWork, Holds
  <2>3. NotYetAdmitted' /\ LiveAreAwaited'
    BY <1>3, <1>6, <2>1 DEF NotYetAdmitted, LiveAreAwaited
  <2>4. ClosersAreLast'
    BY <1>1, <1>2, <1>3, <1>6, <2>1 DEF ClosersAreLast, Closes, Quiet
  <2> QED
    BY <2>2, <2>3, <2>4
<1> QED
  BY <1>4, <1>5, <1>6

(* A frame that is read makes the reader expect its own turn, and ends it   *)
(* only if it ends that turn.                                               *)
LEMMA SeenFrame ==
  ASSUME TypeInv, TurnInv, calm, inbound # <<>>,
         NEW r, r = iter_turn_chunk(reader, Head(inbound)) \/ r = reader
  PROVE  /\ r.ended \in {"no", "terminal", "error"}
         /\ r.expected \in {NoTurn, awaited}
         /\ r.started => r.expected # NoTurn
         /\ r.ended = "terminal" => Closes(Head(inbound))
<1> DEFINE f == Head(inbound)
<1>1. /\ inbound \in Seq(Frames) /\ reader \in Readers(MaxTurns) /\ reader.ended = "no"
      /\ reader.expected \in {NoTurn, awaited}
      /\ reader.started => reader.expected # NoTurn
  BY DEF TypeInv, TypeOK, TurnInv, ReaderIsNew, InSequence, ReadsAwaited
<1>2. f = inbound[1] /\ 1 \in DOMAIN inbound /\ f \in Frames
  BY <1>1
<1>3. /\ f.kind \in Live => f.turn = awaited
      /\ f.kind \in Live \cup StatusKinds => f.turn # NoTurn
  BY <1>2 DEF TurnInv, InSequence, LiveAreAwaited, FramesOfTurns
<1> HIDE DEF f
<1>4. CASE r = reader
  BY <1>1, <1>4
<1>5. CASE r = [reader EXCEPT !.ended = "error"] \/ r = [reader EXCEPT !.cancelled = TRUE]
  BY <1>1, <1>5 DEF Readers
<1>6. CASE f.kind = "running" /\ r = SeeRunning(reader, f.turn)
  <2>1. f.turn = awaited /\ f.turn # NoTurn /\ f.turn >= reader.expected
    <3>1. f.turn = awaited /\ f.turn # NoTurn
      BY <1>3, <1>6 DEF Live
    <3>2. awaited \in Nat /\ NoTurn = 0
      BY BoundsAreNumbers DEF TypeInv, TypeOK, Turns
    <3> QED
      BY <1>1, <3>1, <3>2
  <2> QED
    BY <1>1, <1>6, <2>1 DEF SeeRunning, Readers
<1>7. CASE r = EndIf(SeeProgress(reader, f), Terminal(reader, f))
  <2>1. /\ r.expected = reader.expected /\ r.started = reader.started
        /\ r.ended = IF Terminal(reader, f) THEN "terminal" ELSE "no"
    BY <1>1, <1>7 DEF EndIf, SeeProgress, Readers
  <2>2. ASSUME Terminal(reader, f) PROVE Closes(f)
    <3>1. CASE f.kind = "end"
      BY <1>3, <3>1 DEF Closes, Live, EventKinds
    <3>2. CASE f.kind = "idle" /\ is_idle_terminal_allowed(reader, f.turn)
      BY <1>1, <1>3, <3>2 DEF is_idle_terminal_allowed, Closes, StatusKinds
    <3>3. CASE f.kind = "stopped" /\ is_stop_allowed(reader, f.turn)
      BY <1>1, <1>3, <3>3 DEF is_stop_allowed, turn_ids_match, Closes, StatusKinds
    <3> QED
      BY <2>2, <3>1, <3>2, <3>3 DEF Terminal
  <2> QED
    BY <1>1, <2>1, <2>2 DEF f
<1>8. \/ r = reader
      \/ r = [reader EXCEPT !.ended = "error"]
      \/ r = [reader EXCEPT !.cancelled = TRUE]
      \/ f.kind = "running" /\ r = SeeRunning(reader, f.turn)
      \/ r = EndIf(SeeProgress(reader, f), Terminal(reader, f))
  BY DEF iter_turn_chunk, f
<1> QED
  BY <1>4, <1>5, <1>6, <1>7, <1>8 DEF f

(* What an iteration returns more is of the awaited turn.                   *)
LEMMA SeenFrameYields ==
  ASSUME TypeInv, TurnInv, calm, inbound # <<>>
  PROVE  Yielded(Head(inbound)) \subseteq {awaited} \ {NoTurn}
<1> DEFINE f == Head(inbound)
<1>1. inbound \in Seq(Frames) /\ yielded \subseteq {awaited} \ {NoTurn}
  BY DEF TypeInv, TypeOK, TurnInv, InSequence, ReadsAwaited
<1>2. f = inbound[1] /\ 1 \in DOMAIN inbound
  BY <1>1
<1>3. f.kind \in Live => f.turn = awaited /\ f.turn # NoTurn
  BY <1>2 DEF TurnInv, InSequence, LiveAreAwaited, FramesOfTurns
<1> HIDE DEF f
<1>4. Yielded(f) \subseteq {awaited} \ {NoTurn}
  BY <1>1, <1>3 DEF Yielded, Live
<1> QED
  BY <1>4 DEF f

(* An iteration that has drained leaves the session as it was before the    *)
(* turn.                                                                    *)
LEMMA DrainedInSequence ==
  ASSUME TypeInv, TurnInv, calm, iter = "drain", UNCHANGED work,
         \A i \in DOMAIN inbound' : inbound'[i].kind \notin Live,
         awaited' = NoTurn, reader' = NewReader, yielded' = {}
  PROVE  InSequence'
<1>1. \A l \in Loops : Quiet(l)
  BY DEF TurnInv, InSequence, TurnIsOver
<1>2. \A l \in Loops : Quiet(l)' /\ ~Holds(l)' /\ work'[l].waiting = <<>>
                       /\ (work'[l].turn = NoTurn \/ work'[l].closing)
  BY <1>1 DEF Quiet, Holds
<1>3. OnlyAwaitedWork' /\ NotYetAdmitted'
  BY <1>2 DEF OnlyAwaitedWork, NotYetAdmitted
<1>4. LiveAreAwaited' /\ ClosersAreLast' /\ TurnIsOver'
  BY <1>2 DEF LiveAreAwaited, ClosersAreLast, TurnIsOver
<1>5. ReadsAwaited'
  BY DEF ReadsAwaited, NewReader
<1> QED
  BY <1>3, <1>4, <1>5 DEF InSequence

LEMMA IterationKeepsTurn ==
  ASSUME TypeInv, TurnInv, BeginIteration \/ Iterate \/ Deadline
  PROVE  TurnInv'
<1> DEFINE f == Head(inbound)
<1>0. /\ UNCHANGED <<work, sent>>
      /\ ReaderIsNew
  BY IterationTakes DEF IterUnchanged, daemonVars, TurnInv
<1>1. /\ FramesOfTurns' /\ WorkOfTurns'
      /\ (\A i \in DOMAIN inbound : inbound[i].kind \notin Live) =>
           \A i \in DOMAIN inbound' : inbound'[i].kind \notin Live
      /\ calm /\ awaited' = awaited =>
           OnlyAwaitedWork' /\ NotYetAdmitted' /\ LiveAreAwaited' /\ ClosersAreLast'
  BY <1>0, IterationTakes, PartKeepsFrames
<1>2. ASSUME ReaderIsNew', calm' => calm /\ awaited' = awaited /\ TurnIsOver' /\ ReadsAwaited'
      PROVE  TurnInv'
  BY <1>1, <1>2 DEF TurnInv, InSequence
<1>3. calm => /\ awaited = NoTurn \/ iter = "drain" =>
                   /\ \A l \in Loops : Quiet(l)
                   /\ \A i \in DOMAIN inbound : inbound[i].kind \notin Live
              /\ ReadsAwaited
  BY DEF TurnInv, InSequence, TurnIsOver
<1>4. \A l \in Loops : Quiet(l)' = Quiet(l)
  BY <1>0 DEF Quiet
<1>5. CASE BeginIteration \/ Peel
  <2>1. /\ iter' \in {"peel", "read"} /\ UNCHANGED <<reader, yielded, awaited>>
        /\ iter \in {"none", "peel"}
    BY <1>5 DEF BeginIteration, Peel, IterGoes, useVars
  <2>2. calm' => calm
    <3>1. calm' = calm \/ calm' = (calm /\ ctl = "idle")
      BY <1>5 DEF BeginIteration, Peel, IterGoes, useVars
    <3> QED
      BY <3>1, Zenon
  <2>3. ReaderIsNew'
    BY <1>0, <2>1 DEF ReaderIsNew
  <2>4. calm => TurnIsOver' /\ ReadsAwaited'
    BY <1>1, <1>3, <1>4, <2>1 DEF TurnIsOver, ReadsAwaited
  <2> QED
    BY <1>2, <2>1, <2>2, <2>3, <2>4
<1>6. ASSUME NEW from, NEW a, IterEnds(from, a)
      PROVE  /\ ReaderIsNew' /\ iter = from
             /\ reader' = NewReader /\ yielded' = {} /\ awaited' = NoTurn
             /\ calm' => calm /\ a
  <2>1. /\ iter = from /\ iter' = "none" /\ reader' = NewReader /\ yielded' = {}
        /\ awaited' = NoTurn
    BY <1>6 DEF IterEnds
  <2>2. calm' = (calm /\ a)
    BY <1>6 DEF IterEnds
  <2>3. calm' => calm /\ a
    BY <2>2, Zenon
  <2>4. ReaderIsNew'
    BY <2>1 DEF ReaderIsNew, NewReader
  <2> QED
    BY <2>1, <2>3, <2>4
<1>7. CASE \E from : IterEnds(from, FALSE)
  BY <1>1, <1>6, <1>7 DEF TurnInv
<1>8. CASE IterEnds("drain", TRUE)
  <2>1. ReaderIsNew' /\ (calm' => calm)
    BY <1>6, <1>8
  <2>2. ASSUME calm' PROVE InSequence'
    BY <1>0, <1>1, <1>3, <1>6, <1>8, <2>1, <2>2, DrainedInSequence
  <2> QED
    BY <1>1, <2>1, <2>2 DEF TurnInv
<1>9. CASE Deadline \/ ReadNothing \/ DrainEnds
  BY <1>7, <1>8, <1>9 DEF Deadline, ReadNothing, DrainEnds
<1>10. CASE ReadFrame
  <2> DEFINE r == IF Heeded(f) THEN iter_turn_chunk(reader, f) ELSE reader
  <2>1. /\ inbound # <<>> /\ inbound' = Tail(inbound)
        /\ \/ r.ended = "error" /\ IterEnds("read", FALSE)
           \/ /\ r.ended # "error"
              /\ IterGoes("read", IF r.ended = "no" THEN "read" ELSE "drain")
              /\ reader' = IF r.ended = "no" THEN r ELSE NewReader
              /\ yielded' = IF Heeded(f) THEN Yielded(f) ELSE yielded
    BY <1>10 DEF ReadFrame
  <2>2. r = iter_turn_chunk(reader, Head(inbound)) \/ r = reader
    OBVIOUS
  <2> HIDE DEF r
  <2>3. CASE IterEnds("read", FALSE)
    BY <1>7, <2>3
  <2>4. CASE /\ r.ended # "error"
             /\ IterGoes("read", IF r.ended = "no" THEN "read" ELSE "drain")
             /\ reader' = IF r.ended = "no" THEN r ELSE NewReader
             /\ yielded' = IF Heeded(f) THEN Yielded(f) ELSE yielded
    <3>1. /\ iter' = (IF r.ended = "no" THEN "read" ELSE "drain")
          /\ UNCHANGED <<awaited, calm>> /\ iter = "read"
      BY <2>4 DEF IterGoes, useVars
    <3>2. ReaderIsNew'
      BY <2>4, <3>1 DEF ReaderIsNew, NewReader
    <3>3. ASSUME calm PROVE TurnIsOver' /\ ReadsAwaited'
      <4>1. /\ r.ended \in {"no", "terminal", "error"}
            /\ r.expected \in {NoTurn, awaited}
            /\ r.started => r.expected # NoTurn
            /\ r.ended = "terminal" => Closes(f)
        BY <2>1, <2>2, <3>3, SeenFrame
      <4>2. yielded' \subseteq {awaited} \ {NoTurn}
        BY <1>3, <2>1, <2>4, <3>3, SeenFrameYields DEF ReadsAwaited
      <4>3. ReadsAwaited'
        BY <2>4, <3>1, <4>1, <4>2 DEF ReadsAwaited, NewReader
      <4>4. CASE r.ended = "no"
        BY <1>1, <1>3, <1>4, <3>1, <3>3, <4>3, <4>4 DEF TurnIsOver
      <4>5. CASE r.ended = "terminal"
        <5>1. inbound \in Seq(Frames) /\ ClosersAreLast
          BY <3>3 DEF TypeInv, TypeOK, TurnInv, InSequence
        <5>2. /\ DOMAIN inbound = 1..Len(inbound) /\ Len(inbound) \in Nat
              /\ 1 \in DOMAIN inbound /\ f = inbound[1]
              /\ DOMAIN inbound' = 1..(Len(inbound) - 1)
              /\ \A i \in DOMAIN inbound' : inbound'[i] = inbound[i + 1]
          BY <2>1, <5>1
        <5>3. /\ \A l \in Loops : Quiet(l)
              /\ \A j \in DOMAIN inbound : 1 < j => inbound[j].kind \notin Live
          BY <4>1, <4>5, <5>1, <5>2 DEF ClosersAreLast
        <5>4. \A i \in DOMAIN inbound' : i + 1 \in DOMAIN inbound /\ 1 < i + 1
          BY <5>2
        <5>5. \A i \in DOMAIN inbound' : inbound'[i].kind \notin Live
          BY <5>2, <5>3, <5>4
        <5> QED
          BY <1>4, <4>3, <5>3, <5>5 DEF TurnIsOver
      <4> QED
        BY <2>4, <4>1, <4>4, <4>5
    <3> QED
      BY <1>2, <3>1, <3>2, <3>3
  <2> QED
    BY <2>1, <2>3, <2>4
<1>11. CASE DrainFrame
  <2>1. /\ inbound # <<>>
        /\ \/ IterEnds("drain", TRUE)
           \/ /\ IterGoes("drain", "drain")
              /\ yielded' = IF OfLoop(f) THEN Yielded(f) ELSE yielded
              /\ reader' = reader
    BY <1>11 DEF DrainFrame
  <2>2. CASE /\ IterGoes("drain", "drain")
             /\ yielded' = IF OfLoop(f) THEN Yielded(f) ELSE yielded
             /\ reader' = reader
    <3>1. iter = "drain" /\ iter' = "drain" /\ UNCHANGED <<awaited, calm>>
      BY <2>2 DEF IterGoes, useVars
    <3>2. ReaderIsNew'
      BY <1>0, <2>2, <3>1 DEF ReaderIsNew
    <3>3. ASSUME calm PROVE TurnIsOver' /\ ReadsAwaited'
      <4>1. yielded' \subseteq {awaited} \ {NoTurn}
        BY <1>3, <2>1, <2>2, <3>3, SeenFrameYields DEF ReadsAwaited
      <4>2. ReadsAwaited'
        BY <1>3, <2>2, <3>1, <3>3, <4>1 DEF ReadsAwaited
      <4>3. TurnIsOver'
        BY <1>1, <1>3, <1>4, <3>1, <3>3 DEF TurnIsOver
      <4> QED
        BY <4>2, <4>3
    <3> QED
      BY <1>2, <3>1, <3>2, <3>3
  <2> QED
    BY <1>8, <2>1, <2>2
<1> QED
  BY <1>5, <1>9, <1>10, <1>11 DEF Iterate

LEMMA StepTurn == TypeInv /\ TurnInv /\ [Next]_vars => TurnInv'
<1> SUFFICES ASSUME TypeInv, TurnInv, [Next]_vars PROVE TurnInv'
  OBVIOUS
<1> QED
  BY CallKeepsTurn, SendTurnKeepsTurn, DaemonKeepsTurn, DropKeepsTurn,
     IterationKeepsTurn DEF Next

LEMMA TurnInvHolds == Spec => []TurnInv
BY InitTurn, StepTurn, TypeInvHolds, PTL DEF Spec

(* While turns are sent and read in sequence and nothing fails, what an     *)
(* iteration returns is of the turn it was begun for.                       *)
THEOREM IterationsReturnTheirTurn == Spec => []TurnsStayApart
<1>1. TurnInv => TurnsStayApart
  BY DEF TurnInv, InSequence, ReadsAwaited, TurnsStayApart
<1> QED
  BY <1>1, TurnInvHolds, PTL
=============================================================================
