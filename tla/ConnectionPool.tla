---------------------------- MODULE ConnectionPool ----------------------------
(***************************************************************************)
(* The pool of daemon connections, src/src/appkit/pool.rs: `acquire`,       *)
(* `release`, `reset_session` and `stop`, called concurrently.              *)
(*                                                                         *)
(* A call is one future; its pc stands at its awaits, between which other   *)
(* calls run.  A connection is created when a slot leaves the idle channel  *)
(* and is named by its slot id.  What the network and the daemon do with    *)
(* dialling, reattaching and bootstrapping is a choice; so is whether a     *)
(* live connection was idle for longer than max_idle_time.                  *)
(***************************************************************************)
EXTENDS Naturals, FiniteSets

CONSTANTS
  Calls,     \* calls made on the pool
  Sessions,  \* session ids
  NoSession, \* session of a connection that does not exist
  PoolSize,  \* PoolConfig::pool_size
  Ops,       \* the operations the application uses
  MaxSlots,  \* bound on the slot ids handed out
  MaxDrops,  \* bound on the connections the network drops
  Droppable  \* calls whose future the application may drop

ASSUME PoolAssumption ==
  /\ NoSession \notin Sessions
  /\ PoolSize \in Nat \ {0}
  /\ Ops \subseteq {"acquire", "release", "stop"}
  /\ MaxSlots \in Nat
  /\ MaxDrops \in Nat
  /\ Droppable \subseteq Calls

VARIABLES
  serial,    \* one call per session at a time, and no stop
  active,    \* active_slots: session -> connection, 0 when absent
  idle,      \* slots in the idle channel
  idleCount, \* idle_count
  nextSlot,  \* next_slot_id
  conns,     \* connection -> its session, its loop and whether it is up
  store,     \* session -> loop id in the LoopSessionStore, 0 when absent
  loops,     \* number of loops the daemon has created
  pc,        \* where each call is
  op,        \* the operation of each call
  session,   \* the session of each call
  held,      \* the connection an acquire is building or returns
  victims,   \* connections the call took out of active_slots to close
  after,     \* what an acquire does after its nested release
  result,
  drops

poolVars == <<active, idle, idleCount, nextSlot>>
worldVars == <<conns, store, loops, drops>>
callVars == <<pc, op, session, held, victims, after, result>>
vars == <<serial, poolVars, worldVars, callVars>>

Slots == 1..MaxSlots

(* A connection is being built: its slot is in nobody's table.              *)
BuildPCs == {"stored", "dial", "resume", "redial", "boot", "publish"}

TypeOK ==
  /\ serial \in BOOLEAN
  /\ active \in [Sessions -> 0..MaxSlots]
  /\ idle \in 0..PoolSize
  /\ idleCount \in 0..PoolSize
  /\ nextSlot \in 1..(MaxSlots + 1)
  /\ conns \in [Slots -> [session : Sessions \cup {NoSession},
                          loop : Nat, up : BOOLEAN]]
  /\ store \in [Sessions -> Nat]
  /\ loops \in Nat
  /\ pc \in [Calls -> BuildPCs \cup {"start", "look", "check", "pull", "remove",
                                     "close", "refill", "drain", "done"}]
  /\ op \in [Calls -> Ops \cup {"none"}]
  /\ session \in [Calls -> Sessions \cup {NoSession}]
  /\ held \in [Calls -> 0..MaxSlots]
  /\ victims \in [Calls -> SUBSET Slots]
  /\ after \in [Calls -> {"return", "pull", "fail"}]
  /\ result \in [Calls -> {"none", "ok", "exhausted", "failed", "dropped"}]
  /\ drops \in 0..MaxDrops

Init ==
  /\ serial \in BOOLEAN
  /\ active = [s \in Sessions |-> 0]
  /\ idle = PoolSize
  /\ idleCount = PoolSize
  /\ nextSlot = 1
  /\ conns = [i \in Slots |->
                [session |-> NoSession, loop |-> 0, up |-> FALSE]]
  /\ store = [s \in Sessions |-> 0]
  /\ loops = 0
  /\ pc = [c \in Calls |-> "start"]
  /\ op = [c \in Calls |-> "none"]
  /\ session = [c \in Calls |-> NoSession]
  /\ held = [c \in Calls |-> 0]
  /\ victims = [c \in Calls |-> {}]
  /\ after = [c \in Calls |-> "return"]
  /\ result = [c \in Calls |-> "none"]
  /\ drops = 0

-----------------------------------------------------------------------------
Goto(c, from, to) ==
  /\ pc[c] = from
  /\ pc' = [pc EXCEPT ![c] = to]

Return(c, from, res) ==
  /\ Goto(c, from, "done")
  /\ result' = [result EXCEPT ![c] = res]

Running(c) == pc[c] \notin {"start", "done"}

(* The application makes a call; TurnRunner's gate makes the acquires of    *)
(* one session serial, nothing does the same for the other operations.      *)
Start(c) ==
  /\ \E o \in Ops : \E s \in Sessions :
       /\ serial => o # "stop" /\ \A d \in Calls : Running(d) => session[d] # s
       /\ op' = [op EXCEPT ![c] = o]
       /\ session' = [session EXCEPT ![c] = s]
       /\ Goto(c, "start", IF o = "acquire" THEN "look" ELSE "remove")
  /\ UNCHANGED <<poolVars, worldVars, held, victims, after, result>>

-----------------------------------------------------------------------------
(* acquire                                                                  *)

Look(c) ==
  LET i == active[session[c]]
  IN /\ Goto(c, "look", IF i = 0 THEN "pull" ELSE "check")
     /\ held' = [held EXCEPT ![c] = i]
     /\ UNCHANGED <<poolVars, worldVars, op, session, victims, after, result>>

(* The connection found is returned, or torn down when it is no longer live *)
(* or was idle for too long.                                                *)
Check(c) ==
  /\ \/ /\ Return(c, "check", "ok")
        /\ conns[held[c]].up
        /\ UNCHANGED after
     \/ /\ Goto(c, "check", "remove")
        /\ after' = [after EXCEPT ![c] = "pull"]
        /\ UNCHANGED result
  /\ UNCHANGED <<poolVars, worldVars, op, session, held, victims>>

(* Mutant of Pull: the gauge is not kept.                                   *)
PullUncounted(c) ==
  /\ \/ /\ idle = 0
        /\ Return(c, "pull", "exhausted")
        /\ UNCHANGED <<idle, idleCount, nextSlot, conns, held>>
     \/ /\ idle > 0
        /\ nextSlot <= MaxSlots
        /\ Goto(c, "pull", "stored")
        /\ idle' = idle - 1
        /\ nextSlot' = nextSlot + 1
        /\ held' = [held EXCEPT ![c] = nextSlot]
        /\ conns' = [conns EXCEPT ![nextSlot].session = session[c]]
        /\ UNCHANGED <<idleCount, result>>
  /\ UNCHANGED <<active, store, loops, drops, op, session, victims, after>>

(* try_recv from the idle channel, the gauge, and the next slot id.         *)
Pull(c) ==
  /\ \/ /\ idle = 0
        /\ Return(c, "pull", "exhausted")
        /\ UNCHANGED <<idle, idleCount, nextSlot, conns, held>>
     \/ /\ idle > 0
        /\ nextSlot <= MaxSlots
        /\ Goto(c, "pull", "stored")
        /\ idle' = idle - 1
        /\ idleCount' = IF idleCount = 0 THEN 0 ELSE idleCount - 1
        /\ nextSlot' = nextSlot + 1
        /\ held' = [held EXCEPT ![c] = nextSlot]
        /\ conns' = [conns EXCEPT ![nextSlot].session = session[c]]
        /\ UNCHANGED result
  /\ UNCHANGED <<active, store, loops, drops, op, session, victims, after>>

(* The LoopSessionStore, behind one lock.                                   *)
get_loop_id_for_session(s) == store[s]

set_loop_id(s, loop) == store' = [store EXCEPT ![s] = loop]

(* The loop id read here is the one the connection will be attached to,     *)
(* unless the daemon makes a new one.                                       *)
LoopIdFor(c) ==
  LET loop == get_loop_id_for_session(session[c])
  IN /\ Goto(c, "stored", IF loop = 0 THEN "dial" ELSE "resume")
     /\ conns' = [conns EXCEPT ![held[c]].loop = loop]
     /\ UNCHANGED <<poolVars, store, loops, drops, op, session, held, victims,
                    after, result>>

(* connect() of a session without a loop; an error is returned as it is,    *)
(* and a failed handshake leaves the socket open.                           *)
Dial(c) ==
  /\ \/ /\ Goto(c, "dial", "boot")
        /\ conns' = [conns EXCEPT ![held[c]].up = TRUE]
        /\ UNCHANGED result
     \/ /\ Return(c, "dial", "failed")
        /\ \E open \in BOOLEAN : conns' = [conns EXCEPT ![held[c]].up = open]
  /\ UNCHANGED <<poolVars, store, loops, drops, op, session, held, victims,
                 after>>

(* resume_and_reattach to the loop id that was read.                        *)
Resume(c) ==
  /\ \/ /\ Goto(c, "resume", "publish")
        /\ conns' = [conns EXCEPT ![held[c]].up = TRUE]
     \/ /\ Goto(c, "resume", "redial")
        /\ \E open \in BOOLEAN : conns' = [conns EXCEPT ![held[c]].up = open]
  /\ UNCHANGED <<poolVars, store, loops, drops, op, session, held, victims,
                 after, result>>

(* connect() once more, which does nothing if the socket is open.           *)
Redial(c) ==
  /\ \/ /\ Goto(c, "redial", "boot")
        /\ conns' = [conns EXCEPT ![held[c]].up = TRUE]
        /\ UNCHANGED after
     \/ /\ Goto(c, "redial", "remove")
        /\ ~conns[held[c]].up
        /\ after' = [after EXCEPT ![c] = "fail"]
        /\ \E open \in BOOLEAN : conns' = [conns EXCEPT ![held[c]].up = open]
  /\ UNCHANGED <<poolVars, store, loops, drops, op, session, held, victims,
                 result>>

(* Mutant of Bootstrap: the loop of a known session is not replaced.        *)
BootstrapKeepingLoop(c) ==
  /\ \/ /\ Goto(c, "boot", "publish")
        /\ loops' = loops + 1
        /\ conns' = [conns EXCEPT ![held[c]].loop = loops + 1]
        /\ store' = [store EXCEPT ![session[c]] = IF @ = 0 THEN loops + 1 ELSE @]
        /\ UNCHANGED after
     \/ /\ Goto(c, "boot", "remove")
        /\ after' = [after EXCEPT ![c] = "fail"]
        /\ UNCHANGED <<loops, conns, store>>
  /\ UNCHANGED <<poolVars, drops, op, session, held, victims, result>>

(* bootstrap_new and persist_new_session.                                   *)
Bootstrap(c) ==
  /\ \/ /\ Goto(c, "boot", "publish")
        /\ loops' = loops + 1
        /\ conns' = [conns EXCEPT ![held[c]].loop = loops + 1]
        /\ set_loop_id(session[c], loops + 1)
        /\ UNCHANGED after
     \/ /\ Goto(c, "boot", "remove")
        /\ after' = [after EXCEPT ![c] = "fail"]
        /\ UNCHANGED <<loops, conns, store>>
  /\ UNCHANGED <<poolVars, drops, op, session, held, victims, result>>

(* The entry for the session is replaced, whatever was there.               *)
Publish(c) ==
  /\ Return(c, "publish", "ok")
  /\ active' = [active EXCEPT ![session[c]] = held[c]]
  /\ UNCHANGED <<idle, idleCount, nextSlot, worldVars, op, session, held,
                 victims, after>>

-----------------------------------------------------------------------------
(* release (reset_session is a release), stop, and the release in acquire    *)

(* What a call does once it has nothing (more) to close.                    *)
Resumed(c) == CASE after[c] = "pull" -> "pull" [] OTHER -> "done"

Finish(c) ==
  /\ result' = IF Resumed(c) = "pull" THEN result
               ELSE [result EXCEPT ![c] = IF after[c] = "fail" THEN "failed"
                                          ELSE "ok"]

(* Mutant of Remove: the entry is looked up and left in the table.          *)
RemoveLooksUp(c) ==
  LET ss == IF op[c] = "stop" THEN Sessions ELSE {session[c]}
      taken == {active[s] : s \in ss} \ {0}
  IN /\ pc[c] = "remove"
     /\ victims' = [victims EXCEPT ![c] = taken]
     /\ \/ /\ taken # {}
           /\ Goto(c, "remove", "close")
           /\ UNCHANGED result
        \/ /\ op[c] = "stop"
           /\ taken = {}
           /\ Goto(c, "remove", "drain")
           /\ UNCHANGED result
        \/ /\ op[c] # "stop"
           /\ taken = {}
           /\ Goto(c, "remove", Resumed(c))
           /\ Finish(c)
     /\ UNCHANGED <<active, idle, idleCount, nextSlot, worldVars, op, session,
                    held, after>>

(* Take the entry, or for stop all entries, out of active_slots.            *)
Remove(c) ==
  LET ss == IF op[c] = "stop" THEN Sessions ELSE {session[c]}
      taken == {active[s] : s \in ss} \ {0}
  IN /\ pc[c] = "remove"
     /\ active' = [s \in Sessions |-> IF s \in ss THEN 0 ELSE active[s]]
     /\ victims' = [victims EXCEPT ![c] = taken]
     /\ \/ /\ taken # {}
           /\ Goto(c, "remove", "close")
           /\ UNCHANGED result
        \/ /\ op[c] = "stop"
           /\ taken = {}
           /\ Goto(c, "remove", "drain")
           /\ UNCHANGED result
        \/ /\ op[c] # "stop"
           /\ taken = {}
           /\ Goto(c, "remove", Resumed(c))
           /\ Finish(c)
     /\ UNCHANGED <<idle, idleCount, nextSlot, worldVars, op, session, held,
                    after>>

(* Mutant of Close: the client is dropped, not closed.                      *)
CloseNothing(c) ==
  /\ pc[c] = "close"
  /\ \E i \in victims[c] :
       victims' = [victims EXCEPT ![c] = IF op[c] = "stop" THEN @ \ {i} ELSE @]
  /\ Goto(c, "close", IF op[c] # "stop" THEN "refill"
                      ELSE IF victims'[c] = {} THEN "drain" ELSE "close")
  /\ UNCHANGED <<poolVars, worldVars, op, session, held, after, result>>

(* Abort the forwarder and close the client; stop does so one by one.       *)
Close(c) ==
  /\ pc[c] = "close"
  /\ \E i \in victims[c] :
       /\ conns' = [conns EXCEPT ![i].up = FALSE]
       /\ victims' = [victims EXCEPT ![c] = IF op[c] = "stop" THEN @ \ {i} ELSE @]
  /\ Goto(c, "close", IF op[c] # "stop" THEN "refill"
                      ELSE IF victims'[c] = {} THEN "drain" ELSE "close")
  /\ UNCHANGED <<poolVars, store, loops, drops, op, session, held, after,
                 result>>

(* Mutant of Refill: the slot comes back only where the application asked   *)
(* for the release.                                                         *)
RefillOnRequest(c) ==
  /\ Goto(c, "refill", Resumed(c))
  /\ victims' = [victims EXCEPT ![c] = {}]
  /\ IF idle < PoolSize /\ op[c] # "acquire"
       THEN /\ idle' = idle + 1
            /\ idleCount' = idleCount + 1
       ELSE UNCHANGED <<idle, idleCount>>
  /\ Finish(c)
  /\ UNCHANGED <<active, nextSlot, worldVars, op, session, held, after>>

(* Return a fresh slot to the channel.                                      *)
Refill(c) ==
  /\ Goto(c, "refill", Resumed(c))
  /\ victims' = [victims EXCEPT ![c] = {}]
  /\ IF idle < PoolSize
       THEN /\ idle' = idle + 1
            /\ idleCount' = idleCount + 1
       ELSE UNCHANGED <<idle, idleCount>>
  /\ Finish(c)
  /\ UNCHANGED <<active, nextSlot, worldVars, op, session, held, after>>

(* stop takes the idle slots one at a time, until the channel is empty.     *)
Drain(c) ==
  /\ \/ /\ idle > 0
        /\ pc[c] = "drain"
        /\ idle' = idle - 1
        /\ idleCount' = IF idleCount = 0 THEN 0 ELSE idleCount - 1
        /\ UNCHANGED <<pc, result>>
     \/ /\ idle = 0
        /\ Return(c, "drain", "ok")
        /\ UNCHANGED <<idle, idleCount>>
  /\ UNCHANGED <<active, nextSlot, worldVars, op, session, held, victims,
                 after>>

(* The application drops the future of a call that has a slot in its hands; *)
(* a future dropped in connect() may leave the socket open.                 *)
Abandon(c) ==
  /\ c \in Droppable
  /\ pc[c] \in BuildPCs \cup {"close", "refill"}
  /\ Return(c, pc[c], "dropped")
  /\ \/ UNCHANGED conns
     \/ /\ pc[c] \in {"dial", "resume", "redial"}
        /\ conns' = [conns EXCEPT ![held[c]].up = TRUE]
  /\ UNCHANGED <<poolVars, store, loops, drops, op, session, held, victims,
                 after>>

-----------------------------------------------------------------------------
(* The network or the daemon ends a connection.                             *)
Disconnect(i) ==
  /\ drops < MaxDrops
  /\ conns[i].up
  /\ conns' = [conns EXCEPT ![i].up = FALSE]
  /\ drops' = drops + 1
  /\ UNCHANGED <<poolVars, store, loops, callVars>>

CallStep(c) ==
  \/ Start(c)
  \/ Look(c)
  \/ Check(c)
  \/ Pull(c)
  \/ LoopIdFor(c)
  \/ Dial(c)
  \/ Resume(c)
  \/ Redial(c)
  \/ Bootstrap(c)
  \/ Publish(c)
  \/ Remove(c)
  \/ Close(c)
  \/ Refill(c)
  \/ Drain(c)
  \/ Abandon(c)

(* Every call has returned, or the slot ids of the bound are used up.       *)
AllReturned ==
  /\ \A c \in Calls : pc[c] = "done" \/ (pc[c] = "pull" /\ nextSlot > MaxSlots)
  /\ UNCHANGED vars

Next ==
  /\ UNCHANGED serial
  /\ \/ \E c \in Calls : CallStep(c)
     \/ \E i \in Slots : Disconnect(i)
     \/ AllReturned

Spec == Init /\ [][Next]_vars

-----------------------------------------------------------------------------
(* Properties.                                                              *)

Building == {held[c] : c \in {d \in Calls : pc[d] \in BuildPCs}}
Active == {active[s] : s \in Sessions} \ {0}
Closing == UNION {victims[c] : c \in {d \in Calls : op[d] # "stop"
                                                     /\ pc[d] # "done"}}
Up == {i \in Slots : conns[i].up}

(* Open connections, those being built or torn down, and the slots that     *)
(* could still become connections together never exceed the pool size:      *)
(* racing acquires, releases of a connection another call just published,   *)
(* failed bootstraps that leave their socket open, and stop included.       *)
ConnectionsBounded ==
  Cardinality(Up \cup Building \cup Active \cup Closing) + idle <= PoolSize

(* An acquire that failed, or is about to, after it pulled a slot, and a    *)
(* call that was dropped with a slot in its hands.                          *)
Failing(c) == result[c] \in {"failed", "dropped"} \/ after[c] = "fail"

(* With one call per session at a time, a session has one connection, in    *)
(* the table or being built or torn down; an open connection besides it     *)
(* was left by a call that failed or was dropped.                           *)
OneConnectionPerSession ==
  LET managed == Building \cup Active \cup Closing
  IN serial =>
       /\ \A i, j \in managed : conns[i].session = conns[j].session => i = j
       /\ \A i \in Up \ managed :
            \E c \in Calls : Failing(c) /\ (held[c] = i \/ i \in victims[c])

(* With one call per session at a time and no stop, a slot is idle, in use, *)
(* in the hands of a call, or lost by an acquire that failed or a call that *)
(* was dropped, one slot each: no other path loses or gains one.  The gauge *)
(* read by stats() is always the number of slots acquire can get.           *)
SlotsAccounted ==
  LET holders == {c \in Calls :
                    Failing(c) \/ pc[c] \in BuildPCs \cup {"close", "refill"}}
  IN /\ idleCount = idle
     /\ serial => PoolSize = idle + Cardinality(Active) + Cardinality(holders)

(* With one call per session at a time, a connection in the table is        *)
(* attached to the loop the store has for its session.                      *)
StoreAgrees ==
  serial =>
    \A s \in Sessions : active[s] # 0 => conns[active[s]].loop = store[s]

(* What the documentation of release says, and its use in acquire does not  *)
(* achieve: an acquire that fails after it called release has returned the  *)
(* slot it had pulled.                                                      *)
FailureReturnsSlot ==
  /\ \A c \in Calls : ~Running(c)
  /\ \A c \in Calls : result[c] = "failed" => after[c] = "fail"
  => idle + Cardinality(Active) = PoolSize
=============================================================================
