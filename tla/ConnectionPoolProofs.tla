------------------------- MODULE ConnectionPoolProofs -------------------------
(***************************************************************************)
(* Theorems about ConnectionPool, for every set of calls and of sessions,   *)
(* every pool size and every bound.                                         *)
(*                                                                         *)
(* TypeInv is the type invariant with the gauge; PlaceInv says that a slot  *)
(* id is in one place at a time, which is what makes the connections        *)
(* countable; SerialInv is what one call per session at a time adds.        *)
(***************************************************************************)
EXTENDS ConnectionPool, FiniteSetTheorems, TLAPS

(* The gauge is the number of idle slots.                                   *)
Gauge == idleCount = idle

(* A call that builds or checks a connection has one in its hands.          *)
HoldsASlot ==
  \A c \in Calls : pc[c] \in BuildPCs \cup {"check"} => held[c] \in Slots

HasSession == \A c \in Calls : pc[c] # "start" => session[c] \in Sessions

TypeInv == TypeOK /\ Gauge /\ HoldsASlot /\ HasSession

-----------------------------------------------------------------------------
(* What a call that is no stop takes out of the table to close.             *)
Shut(c) == IF op[c] # "stop" /\ pc[c] # "done" THEN victims[c] ELSE {}

(* Only slot ids that were handed out are in use.                           *)
OnlyHandedOut ==
  /\ \A i \in Slots : conns[i].up => i < nextSlot
  /\ \A c \in Calls : pc[c] \in BuildPCs => held[c] < nextSlot
  /\ \A s \in Sessions : active[s] < nextSlot
  /\ \A c \in Calls : \A i \in victims[c] : i < nextSlot

(* A connection bears the session it was pulled for.                        *)
BearsItsSession ==
  /\ \A c \in Calls : pc[c] \in BuildPCs => conns[held[c]].session = session[c]
  /\ \A s \in Sessions : active[s] # 0 => conns[active[s]].session = s
  /\ \A c \in Calls : \A i \in Shut(c) : conns[i].session = session[c]

(* A connection that a call builds is not in the table, nor taken by a      *)
(* call, nor built by another one.                                          *)
BuiltByOne ==
  \A c \in Calls :
    pc[c] \in BuildPCs =>
      /\ \A s \in Sessions : active[s] # held[c]
      /\ \A d \in Calls : held[c] \notin Shut(d)
      /\ \A d \in Calls : pc[d] \in BuildPCs /\ held[d] = held[c] => d = c

(* A connection that a call took out of the table is not in the table, nor  *)
(* taken by another call.                                                   *)
TakenByOne ==
  \A c \in Calls : \A i \in Shut(c) :
    /\ \A s \in Sessions : active[s] # i
    /\ \A d \in Calls : i \in Shut(d) => d = c

(* A release has one connection to close, and closes it before it returns   *)
(* the slot; only a stop drains the channel.                                *)
OneToClose ==
  \A c \in Calls :
    /\ op[c] # "stop" =>
         /\ pc[c] \in {"close", "refill"} => \E i \in Slots : victims[c] = {i}
         /\ pc[c] \notin {"close", "refill", "done"} => victims[c] = {}
         /\ pc[c] # "drain"
    /\ pc[c] = "refill" => \A i \in victims[c] : ~conns[i].up
    /\ pc[c] \in {"start", "refill"} => op[c] # "stop"

PlaceInv ==
  OnlyHandedOut /\ BearsItsSession /\ BuiltByOne /\ TakenByOne /\ OneToClose

-----------------------------------------------------------------------------
(* The calls of a session are made one after the other, and none is a stop. *)
OneCallPerSession ==
  /\ \A c \in Calls : op[c] # "stop"
  /\ \A c, d \in Calls :
       Running(c) /\ Running(d) /\ session[c] = session[d] => c = d

(* A call that fails does so once it has left the table.                    *)
FailsLate ==
  \A c \in Calls :
    /\ after[c] = "fail" => pc[c] \in {"remove", "done"}
    /\ result[c] # "none" => pc[c] = "done"

(* While a call builds or closes a connection its session has no other one. *)
TableIsClear ==
  \A c \in Calls :
    \/ pc[c] \in BuildPCs \cup {"pull", "close", "refill"}
    \/ pc[c] = "remove" /\ after[c] = "fail"
    => active[session[c]] = 0

(* What is published, or reattached, has the loop that is in the store.     *)
PublishesStored ==
  \A c \in Calls :
    pc[c] \in {"publish", "resume"} => conns[held[c]].loop = store[session[c]]

InSerial ==
  OneCallPerSession /\ FailsLate /\ TableIsClear /\ PublishesStored

SerialInv == serial => InSerial

-----------------------------------------------------------------------------
PCs == BuildPCs \cup {"start", "look", "check", "pull", "remove", "close",
                      "refill", "drain", "done"}
Connection == [session : Sessions \cup {NoSession}, loop : Nat, up : BOOLEAN]

(* What setting a field of one connection does, one lemma a field.          *)
LEMMA SessionSet ==
  ASSUME NEW f \in [Slots -> Connection], NEW i \in Slots, NEW s \in Sessions,
         NEW g, g = [f EXCEPT ![i].session = s]
  PROVE  /\ g \in [Slots -> Connection]
         /\ g[i].session = s /\ g[i].loop = f[i].loop /\ g[i].up = f[i].up
         /\ \A j \in Slots \ {i} : g[j] = f[j]
BY DEF Connection

LEMMA LoopSet ==
  ASSUME NEW f \in [Slots -> Connection], NEW i \in Slots, NEW l \in Nat,
         NEW g, g = [f EXCEPT ![i].loop = l]
  PROVE  /\ g \in [Slots -> Connection]
         /\ g[i].session = f[i].session /\ g[i].loop = l /\ g[i].up = f[i].up
         /\ \A j \in Slots \ {i} : g[j] = f[j]
BY DEF Connection

LEMMA UpSet ==
  ASSUME NEW f \in [Slots -> Connection], NEW i \in Slots, NEW b \in BOOLEAN,
         NEW g, g = [f EXCEPT ![i].up = b]
  PROVE  /\ g \in [Slots -> Connection]
         /\ g[i].session = f[i].session /\ g[i].loop = f[i].loop /\ g[i].up = b
         /\ \A j \in Slots \ {i} : g[j] = f[j]
BY DEF Connection

(* What a step of call c does to the connections.                           *)
ConnectionsMove(c) ==
  /\ conns' \in [Slots -> Connection]
  /\ \A i \in Slots :
       /\ \/ pc[c] = "pull" /\ i = nextSlot
          \/ conns'[i].session = conns[i].session
       /\ \/ pc[c] \in {"stored", "boot"} /\ i = held[c]
          \/ conns'[i].loop = conns[i].loop
       /\ \/ pc[c] \in {"dial", "resume", "redial"} /\ i = held[c]
          \/ pc[c] = "close" /\ i \in victims[c] /\ conns'[i].up = FALSE
          \/ conns'[i].up = conns[i].up

LEMMA CallMovesConnections ==
  ASSUME TypeInv, NEW c \in Calls, CallStep(c)
  PROVE  ConnectionsMove(c)
<1>0. /\ conns \in [Slots -> Connection]
      /\ pc[c] # "start" => session[c] \in Sessions
      /\ pc[c] \in BuildPCs => held[c] \in Slots
      /\ nextSlot <= MaxSlots => nextSlot \in Slots
      /\ victims[c] \subseteq Slots
      /\ \A s \in Sessions : store[s] \in Nat
      /\ loops + 1 \in Nat
  BY PoolAssumption DEF TypeInv, TypeOK, Connection, HoldsASlot, HasSession, Slots
<1>1. CASE UNCHANGED conns
  BY <1>0, <1>1 DEF ConnectionsMove
<1>2. ASSUME NEW i \in Slots, NEW b \in BOOLEAN,
             conns' = [conns EXCEPT ![i].up = b],
             \/ pc[c] \in {"dial", "resume", "redial"} /\ i = held[c]
             \/ pc[c] = "close" /\ i \in victims[c] /\ b = FALSE
      PROVE  ConnectionsMove(c)
  <2>1. /\ conns' \in [Slots -> Connection]
        /\ conns'[i].session = conns[i].session
        /\ conns'[i].loop = conns[i].loop
        /\ conns'[i].up = b
        /\ \A j \in Slots \ {i} : conns'[j] = conns[j]
    BY <1>0, <1>2, UpSet
  <2> QED  BY <1>2, <2>1 DEF ConnectionsMove
<1>3. CASE Start(c) \/ Look(c) \/ Check(c) \/ Publish(c)
           \/ Remove(c) \/ Refill(c) \/ Drain(c)
  BY <1>1, <1>3
     DEF Start, Look, Check, Publish, Remove, Refill, Drain, worldVars
<1>4. CASE Pull(c)
  <2>1. CASE conns' = [conns EXCEPT ![nextSlot].session = session[c]]
             /\ nextSlot <= MaxSlots /\ pc[c] = "pull"
    BY <1>0, <2>1, SessionSet DEF ConnectionsMove
  <2> QED  BY <1>1, <1>4, <2>1 DEF Pull, Goto
<1>5. CASE Dial(c)
  BY <1>0, <1>2, <1>5 DEF Dial, Goto, Return, BuildPCs
<1>6. CASE Resume(c)
  BY <1>0, <1>2, <1>6 DEF Resume, Goto, BuildPCs
<1>7. CASE Redial(c)
  BY <1>0, <1>1, <1>2, <1>7 DEF Redial, Goto, BuildPCs
<1>8. CASE Bootstrap(c)
  <2>1. CASE conns' = [conns EXCEPT ![held[c]].loop = loops + 1]
    <3>1. pc[c] = "boot" /\ held[c] \in Slots
      BY <1>0, <1>8 DEF Bootstrap, Goto, BuildPCs
    <3> QED  BY <1>0, <2>1, <3>1, LoopSet DEF ConnectionsMove
  <2> QED  BY <1>1, <1>8, <2>1 DEF Bootstrap
<1>9. CASE Close(c)
  BY <1>0, <1>2, <1>9 DEF Close, Goto
<1>10. CASE Abandon(c)
  BY <1>0, <1>1, <1>2, <1>10 DEF Abandon, BuildPCs
<1>11. CASE LoopIdFor(c)
  <2>1. /\ pc[c] = "stored" /\ held[c] \in Slots /\ store[session[c]] \in Nat
        /\ conns' = [conns EXCEPT ![held[c]].loop = store[session[c]]]
    BY <1>0, <1>11 DEF LoopIdFor, Goto, BuildPCs, get_loop_id_for_session
  <2> QED  BY <1>0, <2>1, LoopSet DEF ConnectionsMove
<1> QED
  BY <1>3, <1>4, <1>5, <1>6, <1>7, <1>8, <1>9, <1>10, <1>11 DEF CallStep

(* What the end of a connection changes.                                    *)
LEMMA DisconnectMovesConnections ==
  ASSUME TypeInv, NEW i \in Slots, Disconnect(i)
  PROVE  /\ UNCHANGED <<poolVars, store, loops, callVars>>
         /\ drops' \in 0..MaxDrops
         /\ conns' \in [Slots -> Connection]
         /\ \A j \in Slots :
              /\ conns'[j].session = conns[j].session
              /\ conns'[j].loop = conns[j].loop
              /\ conns'[j].up => conns[j].up
<1>1. conns \in [Slots -> Connection] /\ drops \in 0..MaxDrops
  BY DEF TypeInv, TypeOK, Connection
<1>2. ASSUME NEW b \in BOOLEAN, b = FALSE, conns' = [conns EXCEPT ![i].up = b]
      PROVE  /\ conns' \in [Slots -> Connection]
             /\ conns'[i].session = conns[i].session
             /\ conns'[i].loop = conns[i].loop
             /\ ~conns'[i].up
             /\ \A j \in Slots \ {i} : conns'[j] = conns[j]
  BY <1>1, <1>2, UpSet
<1>3. /\ conns' \in [Slots -> Connection]
      /\ conns'[i].session = conns[i].session
      /\ conns'[i].loop = conns[i].loop
      /\ ~conns'[i].up
      /\ \A j \in Slots \ {i} : conns'[j] = conns[j]
  BY <1>2 DEF Disconnect
<1>4. UNCHANGED <<poolVars, store, loops, callVars>> /\ drops' \in 0..MaxDrops
  BY <1>1, PoolAssumption DEF Disconnect
<1> QED  BY <1>3, <1>4

(* The types of all but the connections.                                    *)
OtherTypes ==
  /\ serial \in BOOLEAN
  /\ active \in [Sessions -> 0..MaxSlots]
  /\ idle \in 0..PoolSize
  /\ idleCount = idle
  /\ nextSlot \in 1..(MaxSlots + 1)
  /\ store \in [Sessions -> Nat]
  /\ loops \in Nat
  /\ pc \in [Calls -> PCs]
  /\ op \in [Calls -> Ops \cup {"none"}]
  /\ session \in [Calls -> Sessions \cup {NoSession}]
  /\ held \in [Calls -> 0..MaxSlots]
  /\ victims \in [Calls -> SUBSET Slots]
  /\ after \in [Calls -> {"return", "pull", "fail"}]
  /\ result \in [Calls -> {"none", "ok", "exhausted", "failed", "dropped"}]
  /\ drops \in 0..MaxDrops

LEMMA TypeParts ==
  /\ TypeOK /\ Gauge <=> OtherTypes /\ conns \in [Slots -> Connection]
  /\ (TypeOK /\ Gauge)' <=> OtherTypes' /\ conns' \in [Slots -> Connection]
BY DEF TypeOK, Gauge, OtherTypes, PCs, Connection

LEMMA TypeInductive == TypeInv /\ [Next]_vars => TypeInv'
<1> SUFFICES ASSUME TypeInv, [Next]_vars PROVE TypeInv'
  OBVIOUS
<1> DEFINE I == OtherTypes /\ HoldsASlot /\ HasSession
<1>0. I
  BY TypeParts DEF TypeInv
<1> USE PoolAssumption DEF OtherTypes, HoldsASlot, HasSession, Slots, BuildPCs, PCs
<1>1. ASSUME NEW c \in Calls, CallStep(c), UNCHANGED serial PROVE I'
  <2>1. CASE Start(c)
    BY <1>0, <1>1, <2>1 DEF Start, Goto, poolVars, worldVars
  <2>2. CASE Look(c)
    BY <1>0, <1>1, <2>2 DEF Look, Goto, poolVars, worldVars
  <2>3. CASE Check(c)
    BY <1>0, <1>1, <2>3 DEF Check, Goto, Return, poolVars, worldVars
  <2>4. CASE Pull(c)
    BY <1>0, <1>1, <2>4 DEF Pull, Goto, Return
  <2>5. CASE LoopIdFor(c)
    BY <1>0, <1>1, <2>5 DEF LoopIdFor, Goto, get_loop_id_for_session, poolVars, worldVars
  <2>6. CASE Dial(c)
    BY <1>0, <1>1, <2>6 DEF Dial, Goto, Return, poolVars
  <2>7. CASE Resume(c)
    BY <1>0, <1>1, <2>7 DEF Resume, Goto, poolVars
  <2>8. CASE Redial(c)
    BY <1>0, <1>1, <2>8 DEF Redial, Goto, poolVars
  <2>9. CASE Bootstrap(c)
    BY <1>0, <1>1, <2>9 DEF Bootstrap, Goto, set_loop_id, poolVars
  <2>10. CASE Publish(c)
    BY <1>0, <1>1, <2>10 DEF Publish, Goto, Return, worldVars
  <2>11. CASE Remove(c)
    BY <1>0, <1>1, <2>11 DEF Remove, Goto, Finish, Resumed, worldVars
  <2>12. CASE Close(c)
    BY <1>0, <1>1, <2>12 DEF Close, Goto, poolVars
  <2>13. CASE Refill(c)
    BY <1>0, <1>1, <2>13 DEF Refill, Goto, Finish, Resumed, worldVars
  <2>14. CASE Drain(c)
    BY <1>0, <1>1, <2>14 DEF Drain, Goto, Return, worldVars
  <2>15. CASE Abandon(c)
    BY <1>0, <1>1, <2>15 DEF Abandon, Goto, Return, poolVars
  <2> QED  BY <1>1, <2>1, <2>2, <2>3, <2>4, <2>5, <2>6, <2>7, <2>8, <2>9, <2>10, <2>11, <2>12, <2>13, <2>14, <2>15 DEF CallStep
<1>2. ASSUME NEW i \in Slots, Disconnect(i), UNCHANGED serial PROVE I'
  BY <1>0, <1>2, DisconnectMovesConnections DEF poolVars, callVars
<1>3. CASE UNCHANGED vars
  BY <1>0, <1>3, TypeParts DEF TypeInv, vars, poolVars, worldVars, callVars
<1>4. CASE AllReturned
  BY <1>3, <1>4 DEF AllReturned
<1>5. ASSUME I', conns' \in [Slots -> Connection] PROVE TypeInv'
  BY <1>5, TypeParts DEF TypeInv
<1> HIDE DEF I
<1>6. ASSUME NEW c \in Calls, CallStep(c), UNCHANGED serial PROVE TypeInv'
  <2>1. conns' \in [Slots -> Connection]
    BY <1>6, CallMovesConnections DEF ConnectionsMove
  <2> QED  BY <1>1, <1>5, <1>6, <2>1
<1>7. ASSUME NEW i \in Slots, Disconnect(i), UNCHANGED serial PROVE TypeInv'
  <2>1. conns' \in [Slots -> Connection]
    BY <1>7, DisconnectMovesConnections
  <2> QED  BY <1>2, <1>5, <1>7, <2>1
<1> QED  BY <1>3, <1>4, <1>6, <1>7 DEF Next

LEMMA TypeStarts == Init => TypeInv
<1> SUFFICES ASSUME Init PROVE TypeInv
  OBVIOUS
<1>1. conns \in [Slots -> Connection]
  BY DEF Init, Connection
<1>2. OtherTypes
  BY PoolAssumption DEF Init, OtherTypes, Slots, PCs
<1>3. HoldsASlot /\ HasSession
  BY DEF Init, HoldsASlot, HasSession, BuildPCs
<1> QED  BY <1>1, <1>2, <1>3, TypeParts DEF TypeInv

LEMMA TypeAlways == Spec => []TypeInv
BY TypeStarts, TypeInductive, PTL DEF Spec

(* Type correctness: every table of the pool holds what it is declared to   *)
(* hold, and no slot id beyond those handed out is ever used to index one.  *)
THEOREM TypeCorrect == Spec => []TypeOK
<1>1. TypeInv => TypeOK
  BY DEF TypeInv
<1> QED  BY <1>1, TypeAlways, PTL

-----------------------------------------------------------------------------
(* A step that at most takes slots out of places, and opens at most the     *)
(* connection that a call builds.                                           *)
Quiet ==
  /\ nextSlot' = nextSlot
  /\ \A i \in Slots :
       /\ conns'[i].session = conns[i].session
       /\ conns'[i].up =>
            conns[i].up \/ \E c \in Calls : pc[c] \in BuildPCs /\ held[c] = i
  /\ \A c \in Calls :
       pc'[c] \in BuildPCs =>
         pc[c] \in BuildPCs /\ held'[c] = held[c] /\ session'[c] = session[c]
  /\ \A s \in Sessions : active'[s] \in {active[s], 0}
  /\ \A c \in Calls :
       /\ victims'[c] \subseteq victims[c]
       /\ Shut(c)' \subseteq Shut(c)
       /\ Shut(c)' # {} => session'[c] = session[c]

(* The parts of PlaceInv that say where a slot is.                          *)
Places == OnlyHandedOut /\ BearsItsSession /\ BuiltByOne /\ TakenByOne

(* What PlaceInv takes from the types.                                      *)
LEMMA TypeFacts ==
  ASSUME TypeInv
  PROVE  /\ nextSlot \in Nat \ {0}
         /\ \A s \in Sessions : active[s] \in Nat
         /\ \A s \in Sessions : active[s] # 0 => active[s] \in Slots
         /\ \A c \in Calls : pc[c] \in BuildPCs => held[c] \in Slots
         /\ \A c \in Calls : victims[c] \subseteq Slots
         /\ Slots \subseteq Nat \ {0}
         /\ pc \in [Calls -> PCs]
         /\ op \in [Calls -> Ops \cup {"none"}]
         /\ session \in [Calls -> Sessions \cup {NoSession}]
         /\ held \in [Calls -> 0..MaxSlots]
         /\ active \in [Sessions -> 0..MaxSlots]
         /\ victims \in [Calls -> SUBSET Slots]
BY PoolAssumption DEF TypeInv, TypeOK, HoldsASlot, Slots, PCs, BuildPCs

LEMMA QuietKeepsPlaces ==
  ASSUME TypeInv, Places, Quiet PROVE Places'
<1> USE TypeFacts DEF Places, Quiet
<1>1. OnlyHandedOut'
  BY DEF OnlyHandedOut
<1>2. BearsItsSession'
  <2>1. \A c \in Calls : pc'[c] \in BuildPCs => conns'[held'[c]].session = session'[c]
    BY DEF BearsItsSession
  <2>2. \A s \in Sessions : active'[s] # 0 => conns'[active'[s]].session = s
    BY DEF BearsItsSession
  <2>3. \A c \in Calls : \A i \in Shut(c)' : i \in Slots /\ conns'[i].session = session'[c]
    BY DEF BearsItsSession, Shut
  <2> QED  BY <2>1, <2>2, <2>3 DEF BearsItsSession
<1>3. BuiltByOne'
  BY DEF BuiltByOne
<1>4. TakenByOne'
  <2> SUFFICES ASSUME NEW c \in Calls, NEW i \in Shut(c)'
               PROVE  /\ \A s \in Sessions : active'[s] # i
                      /\ \A d \in Calls : i \in Shut(d)' => d = c
    BY DEF TakenByOne
  <2>1. i \in Shut(c) /\ i \in Slots
    BY DEF Shut
  <2> QED  BY <2>1 DEF TakenByOne
<1> QED  BY <1>1, <1>2, <1>3, <1>4

(* The steps of a call that are quiet.                                      *)
LEMMA MostStepsAreQuiet ==
  ASSUME TypeInv, OneToClose, NEW c \in Calls, CallStep(c),
         ~Pull(c), ~Publish(c), ~Remove(c)
  PROVE  Quiet
<1>0. ConnectionsMove(c)
  BY CallMovesConnections
<1>1. \A i \in Slots :
        /\ pc[c] # "pull" => conns'[i].session = conns[i].session
        /\ conns'[i].up =>
             conns[i].up \/ \E d \in Calls : pc[d] \in BuildPCs /\ held[d] = i
  BY <1>0 DEF ConnectionsMove, BuildPCs
<1> DEFINE Rest ==
      /\ pc[c] # "pull"
      /\ nextSlot' = nextSlot
      /\ \A d \in Calls :
           pc'[d] \in BuildPCs =>
             pc[d] \in BuildPCs /\ held'[d] = held[d] /\ session'[d] = session[d]
      /\ \A s \in Sessions : active'[s] \in {active[s], 0}
      /\ \A d \in Calls :
           /\ victims'[d] \subseteq victims[d]
           /\ Shut(d)' \subseteq Shut(d)
           /\ Shut(d)' # {} => session'[d] = session[d]
<1>2. Rest => Quiet
  BY <1>1 DEF Quiet
<1> USE TypeFacts DEF OneToClose, Shut, BuildPCs
<1>3. ASSUME Start(c) PROVE Rest
  <2>1. PICK o \in Ops, s \in Sessions :
          /\ op' = [op EXCEPT ![c] = o]
          /\ session' = [session EXCEPT ![c] = s]
          /\ Goto(c, "start", IF o = "acquire" THEN "look" ELSE "remove")
    BY <1>3 DEF Start
  <2>2. pc[c] = "start" /\ op[c] # "stop" => victims[c] = {}
    OBVIOUS
  <2>3. victims' = victims /\ nextSlot' = nextSlot /\ active' = active /\ held' = held
    BY <1>3 DEF Start, poolVars
  <2>4. \A d \in Calls \ {c} :
          pc'[d] = pc[d] /\ op'[d] = op[d] /\ session'[d] = session[d]
    BY <2>1 DEF Goto
  <2>5. pc[c] = "start" /\ pc'[c] \in {"look", "remove"}
    BY <2>1 DEF Goto
  <2> QED  BY <2>2, <2>3, <2>4, <2>5
<1>4. ASSUME Look(c) PROVE Rest
  BY <1>4 DEF Look, Goto, poolVars, worldVars
<1>5. ASSUME Check(c) PROVE Rest
  BY <1>5 DEF Check, Goto, Return, poolVars, worldVars
<1>6. ASSUME LoopIdFor(c) PROVE Rest
  BY <1>6 DEF LoopIdFor, Goto, poolVars, worldVars
<1>7. ASSUME Dial(c) PROVE Rest
  BY <1>7 DEF Dial, Goto, Return, poolVars
<1>8. ASSUME Resume(c) PROVE Rest
  BY <1>8 DEF Resume, Goto, poolVars
<1>9. ASSUME Redial(c) PROVE Rest
  BY <1>9 DEF Redial, Goto, poolVars
<1>10. ASSUME Bootstrap(c) PROVE Rest
  BY <1>10 DEF Bootstrap, Goto, poolVars
<1>11. ASSUME Close(c) PROVE Rest
  BY <1>11 DEF Close, Goto, poolVars
<1>12. ASSUME Refill(c) PROVE Rest
  BY <1>12 DEF Refill, Goto, Resumed
<1>13. ASSUME Drain(c) PROVE Rest
  BY <1>13 DEF Drain, Goto, Return
<1>14. ASSUME Abandon(c) PROVE Rest
  BY <1>14 DEF Abandon, Goto, Return, poolVars
<1> HIDE DEF Rest
<1> QED
  BY <1>2, <1>3, <1>4, <1>5, <1>6, <1>7, <1>8, <1>9, <1>10, <1>11, <1>12, <1>13, <1>14 DEF CallStep

(* A pulled slot is new, and so in no other place.                          *)
LEMMA PullKeepsPlaces ==
  ASSUME TypeInv, Places, OneToClose, NEW c \in Calls, CallStep(c), Pull(c)
  PROVE  Places'
<1>0. ConnectionsMove(c)
  BY CallMovesConnections
<1> USE TypeFacts
<1>1. CASE idle = 0
  <2>1. Quiet
    BY <1>0, <1>1 DEF Pull, Goto, Return, Quiet, ConnectionsMove, Shut, BuildPCs
  <2> QED  BY <2>1, QuietKeepsPlaces
<1>2. CASE idle > 0
  <2> USE DEF Places
  <2>1. /\ pc[c] = "pull" /\ pc' = [pc EXCEPT ![c] = "stored"]
        /\ nextSlot <= MaxSlots /\ nextSlot' = nextSlot + 1
        /\ held' = [held EXCEPT ![c] = nextSlot]
        /\ UNCHANGED <<active, op, session, victims>>
        /\ conns' = [conns EXCEPT ![nextSlot].session = session[c]]
    BY <1>2, PoolAssumption DEF Pull, Goto, TypeInv, TypeOK
  <2>0. session[c] \in Sessions /\ nextSlot \in Slots
    BY <2>1, PoolAssumption DEF TypeInv, HasSession, Slots
  <2>2. /\ \A d \in Calls : Shut(d)' = Shut(d)
        /\ \A d \in Calls : Shut(d) \subseteq victims[d]
        /\ \A d \in Calls \ {c} :
             /\ pc'[d] = pc[d] /\ held'[d] = held[d]
        /\ pc'[c] \in BuildPCs /\ pc[c] \notin BuildPCs /\ held'[c] = nextSlot
    BY <2>1 DEF Shut, BuildPCs
  <2>3. /\ conns'[nextSlot].session = session[c]
        /\ \A i \in Slots \ {nextSlot} : conns'[i] = conns[i]
        /\ conns'[nextSlot].up = conns[nextSlot].up
    <3>1. conns \in [Slots -> Connection]
      BY DEF TypeInv, TypeOK, Connection
    <3> QED  BY <2>0, <2>1, <3>1, SessionSet
  <2>4. /\ \A d \in Calls : pc[d] \in BuildPCs => held[d] # nextSlot
        /\ \A s \in Sessions : active[s] # nextSlot
        /\ \A d \in Calls : nextSlot \notin Shut(d)
    BY <2>2 DEF OnlyHandedOut
  <2> USE <2>0, <2>1, <2>2, <2>4
  <2>5. OnlyHandedOut'
    BY <2>3 DEF OnlyHandedOut
  <2>6. BearsItsSession'
    BY <2>3 DEF BearsItsSession
  <2>7. BuiltByOne'
    BY DEF BuiltByOne
  <2>8. TakenByOne'
    BY DEF TakenByOne
  <2> QED  BY <2>5, <2>6, <2>7, <2>8
<1> QED  BY <1>1, <1>2 DEF Pull

(* Publishing moves a slot from the call that built it to the table.        *)
LEMMA PublishKeepsPlaces ==
  ASSUME TypeInv, Places, NEW c \in Calls, Publish(c)
  PROVE  Places'
<1> USE TypeFacts DEF Places
<1>1. /\ pc[c] = "publish" /\ pc' = [pc EXCEPT ![c] = "done"]
      /\ session[c] \in Sessions
      /\ active' = [active EXCEPT ![session[c]] = held[c]]
      /\ UNCHANGED <<nextSlot, conns, op, session, held, victims>>
  BY DEF Publish, Return, Goto, worldVars, TypeInv, HasSession
<1>2. /\ \A d \in Calls : Shut(d)' \subseteq Shut(d)
      /\ \A d \in Calls : Shut(d) \subseteq Slots
      /\ \A d \in Calls : pc'[d] \in BuildPCs => pc[d] \in BuildPCs /\ d # c
      /\ pc[c] \in BuildPCs
  BY <1>1 DEF Shut, BuildPCs
<1>3. /\ active'[session[c]] = held[c]
      /\ \A s \in Sessions \ {session[c]} : active'[s] = active[s]
  BY <1>1
<1> USE <1>1, <1>2, <1>3
<1>4. OnlyHandedOut'
  BY DEF OnlyHandedOut
<1>5. BearsItsSession'
  BY DEF BearsItsSession
<1>6. BuiltByOne'
  BY DEF BuiltByOne
<1>7. TakenByOne'
  BY DEF TakenByOne, BuiltByOne
<1> QED  BY <1>4, <1>5, <1>6, <1>7

(* Removing moves slots from the table to the call that closes them.        *)
LEMMA RemoveKeepsPlaces ==
  ASSUME TypeInv, Places, OneToClose, NEW c \in Calls, Remove(c)
  PROVE  Places'
<1> USE TypeFacts DEF Places
<1> DEFINE ss == IF op[c] = "stop" THEN Sessions ELSE {session[c]}
           taken == {active[s] : s \in ss} \ {0}
<1>1. /\ pc[c] = "remove" /\ pc'[c] \notin BuildPCs
      /\ \A d \in Calls \ {c} : pc'[d] = pc[d]
      /\ active' = [s \in Sessions |-> IF s \in ss THEN 0 ELSE active[s]]
      /\ victims' = [victims EXCEPT ![c] = taken]
      /\ UNCHANGED <<nextSlot, conns, op, session, held>>
  BY DEF Remove, Goto, Resumed, worldVars, BuildPCs
<1>2. ss \subseteq Sessions
  BY <1>1 DEF TypeInv, HasSession
<1>3. \A i \in taken : i \in Slots /\ \E s \in ss : active[s] = i /\ s \in Sessions
  BY <1>2
<1>4. op[c] # "stop" => \A i \in taken : i = active[session[c]] /\ session[c] \in Sessions
  BY <1>2
<1>5. \A s \in Sessions :
        /\ active'[s] \in {active[s], 0}
        /\ active'[s] \notin taken
  <2>1. SUFFICES ASSUME NEW s \in Sessions, active'[s] \in taken PROVE FALSE
    BY <1>1
  <2>2. s \notin ss /\ active'[s] = active[s] /\ active[s] # 0
    BY <1>1, <2>1
  <2>3. PICK t \in ss : active[t] = active[s] /\ t \in Sessions
    BY <1>3, <2>1, <2>2
  <2>4. t = s
    BY <2>2, <2>3 DEF BearsItsSession
  <2> QED  BY <2>2, <2>4
<1>6. /\ \A d \in Calls \ {c} : Shut(d)' = Shut(d) /\ victims'[d] = victims[d]
      /\ Shut(c)' \subseteq taken /\ victims'[c] = taken
      /\ op[c] = "stop" => Shut(c)' = {}
      /\ \A d \in Calls : Shut(d) \subseteq Slots
      /\ \A d \in Calls : pc'[d] \in BuildPCs => d # c /\ pc[d] \in BuildPCs
  BY <1>1 DEF Shut, BuildPCs
<1> HIDE DEF ss, taken
<1>7. OnlyHandedOut'
  <2>1. \A i \in taken : i < nextSlot
    BY <1>3 DEF OnlyHandedOut
  <2> QED  BY <1>1, <1>5, <1>6, <2>1 DEF OnlyHandedOut
<1>8. BearsItsSession'
  <2>1. \A i \in Shut(c)' : conns[i].session = session[c]
    BY <1>3, <1>4, <1>6 DEF BearsItsSession
  <2> QED  BY <1>1, <1>5, <1>6, <2>1 DEF BearsItsSession
<1>9. BuiltByOne'
  <2>1. \A d \in Calls : pc[d] \in BuildPCs => held[d] \notin taken
    BY <1>3 DEF BuiltByOne
  <2> QED  BY <1>1, <1>5, <1>6, <2>1 DEF BuiltByOne
<1>10. TakenByOne'
  <2>1. \A d \in Calls : \A i \in Shut(d) : i \notin taken
    BY <1>3 DEF TakenByOne
  <2> QED  BY <1>1, <1>5, <1>6, <2>1 DEF TakenByOne
<1> QED  BY <1>7, <1>8, <1>9, <1>10

(* A step of a call leaves the other calls where they are.                  *)
LEMMA OthersStay ==
  ASSUME TypeInv, NEW c \in Calls, CallStep(c), NEW d \in Calls, d # c
  PROVE  /\ pc'[d] = pc[d] /\ op'[d] = op[d] /\ session'[d] = session[d]
         /\ held'[d] = held[d] /\ victims'[d] = victims[d]
         /\ after'[d] = after[d] /\ result'[d] = result[d]
<1> USE TypeFacts
<1>0. after \in [Calls -> {"return", "pull", "fail"}]
      /\ result \in [Calls -> {"none", "ok", "exhausted", "failed", "dropped"}]
  BY DEF TypeInv, TypeOK
<1>1. CASE Start(c) \/ Look(c) \/ Check(c) \/ Pull(c) \/ LoopIdFor(c)
  BY <1>0, <1>1 DEF Start, Look, Check, Pull, LoopIdFor, Goto, Return
<1>2. CASE Dial(c) \/ Resume(c) \/ Redial(c) \/ Bootstrap(c) \/ Publish(c)
  BY <1>0, <1>2 DEF Dial, Resume, Redial, Bootstrap, Publish, Goto, Return
<1>3. CASE Remove(c)
  BY <1>0, <1>3 DEF Remove, Goto, Finish
<1>4. CASE Close(c) \/ Refill(c)
  BY <1>0, <1>4 DEF Close, Refill, Goto, Finish
<1>5. CASE Drain(c) \/ Abandon(c)
  BY <1>0, <1>5 DEF Drain, Abandon, Goto, Return
<1> QED  BY <1>1, <1>2, <1>3, <1>4, <1>5 DEF CallStep

LEMMA OneToCloseInductive ==
  ASSUME TypeInv, PlaceInv, NEW c \in Calls, CallStep(c) PROVE OneToClose'
<1> USE TypeFacts DEF PlaceInv, BuildPCs
<1>0. ConnectionsMove(c)
  BY CallMovesConnections
<1> DEFINE Good(d) ==
      /\ op[d] # "stop" =>
           /\ pc[d] \in {"close", "refill"} => \E i \in Slots : victims[d] = {i}
           /\ pc[d] \notin {"close", "refill", "done"} => victims[d] = {}
           /\ pc[d] # "drain"
      /\ pc[d] = "refill" => \A i \in victims[d] : ~conns[i].up
      /\ pc[d] \in {"start", "refill"} => op[d] # "stop"
(* The other calls are where they were, and no connection that one of them  *)
(* closes is opened.                                                        *)
<1>1. ASSUME NEW d \in Calls, d # c PROVE Good(d)'
  <2>1. pc'[d] = pc[d] /\ op'[d] = op[d] /\ victims'[d] = victims[d]
    BY OthersStay, <1>1
  <2>2. ASSUME pc[d] = "refill", NEW i \in victims[d] PROVE ~conns'[i].up
    <3>1. i \in Shut(d) /\ ~conns[i].up /\ i \in Slots
      BY <2>2 DEF OneToClose, Shut
    <3>2. ~(pc[c] \in BuildPCs /\ i = held[c])
      BY <3>1 DEF BuiltByOne
    <3> QED  BY <1>0, <3>1, <3>2 DEF ConnectionsMove
  <2> QED  BY <2>1, <2>2 DEF OneToClose
<1>2. ASSUME Start(c) PROVE Good(c)'
  BY <1>2 DEF OneToClose, Start, Goto, poolVars, worldVars
<1>3. ASSUME Look(c) PROVE Good(c)'
  BY <1>3 DEF OneToClose, Look, Goto, poolVars, worldVars
<1>4. ASSUME Check(c) PROVE Good(c)'
  BY <1>4 DEF OneToClose, Check, Goto, Return, poolVars, worldVars
<1>5. ASSUME Pull(c) PROVE Good(c)'
  BY <1>5 DEF OneToClose, Pull, Goto, Return
<1>6. ASSUME LoopIdFor(c) PROVE Good(c)'
  BY <1>6 DEF OneToClose, LoopIdFor, Goto, poolVars, worldVars
<1>7. ASSUME Dial(c) PROVE Good(c)'
  BY <1>7 DEF OneToClose, Dial, Goto, Return, poolVars
<1>8. ASSUME Resume(c) PROVE Good(c)'
  BY <1>8 DEF OneToClose, Resume, Goto, poolVars
<1>9. ASSUME Redial(c) PROVE Good(c)'
  BY <1>9 DEF OneToClose, Redial, Goto, poolVars
<1>10. ASSUME Bootstrap(c) PROVE Good(c)'
  BY <1>10 DEF OneToClose, Bootstrap, Goto, poolVars
<1>11. ASSUME Publish(c) PROVE Good(c)'
  BY <1>11 DEF OneToClose, Publish, Goto, Return, worldVars
<1>12. ASSUME Remove(c) PROVE Good(c)'
  <2> DEFINE ss == IF op[c] = "stop" THEN Sessions ELSE {session[c]}
             taken == {active[s] : s \in ss} \ {0}
  <2>1. /\ victims'[c] = taken
        /\ UNCHANGED <<op, conns>>
        /\ \/ taken # {} /\ pc'[c] = "close"
           \/ pc'[c] = "drain" /\ op[c] = "stop"
           \/ taken = {} /\ pc'[c] \in {"pull", "done"}
    BY <1>12 DEF Remove, Goto, Resumed, worldVars
  <2>2. op[c] # "stop" => taken = {} \/ taken = {active[session[c]]}
    OBVIOUS
  <2>3. taken \subseteq Slots
    <3>1. session[c] \in Sessions
      BY <1>12 DEF Remove, TypeInv, HasSession
    <3> QED  BY <3>1
  <2> HIDE DEF taken
  <2>4. op[c] # "stop" /\ taken # {} => \E i \in Slots : taken = {i}
    BY <2>2, <2>3
  <2> QED  BY <2>1, <2>4
<1>13. ASSUME Close(c) PROVE Good(c)'
  <2>1. PICK i \in victims[c] :
          /\ conns' = [conns EXCEPT ![i].up = FALSE]
          /\ victims' = [victims EXCEPT ![c] =
                            IF op[c] = "stop" THEN @ \ {i} ELSE @]
    BY <1>13 DEF Close
  <2>2. /\ pc[c] = "close" /\ op' = op
        /\ op[c] # "stop" => pc'[c] = "refill"
        /\ op[c] = "stop" => pc'[c] \in {"drain", "close"}
    BY <1>13 DEF Close, Goto
  <2>3. op[c] # "stop" => victims'[c] = {i} /\ i \in Slots
    BY <2>1, <2>2 DEF OneToClose
  <2>4. i \in Slots => ~conns'[i].up
    <3>1. conns \in [Slots -> Connection]
      BY DEF TypeInv, TypeOK, Connection
    <3> QED  BY <2>1, <3>1, UpSet
  <2> QED  BY <2>2, <2>3, <2>4
<1>14. ASSUME Refill(c) PROVE Good(c)'
  BY <1>14 DEF OneToClose, Refill, Goto, Resumed
<1>15. ASSUME Drain(c) PROVE Good(c)'
  BY <1>15 DEF OneToClose, Drain, Goto, Return
<1>16. ASSUME Abandon(c) PROVE Good(c)'
  BY <1>16 DEF OneToClose, Abandon, Goto, Return, poolVars
<1> HIDE DEF Good
<1>17. Good(c)'
  BY <1>2, <1>3, <1>4, <1>5, <1>6, <1>7, <1>8, <1>9, <1>10, <1>11, <1>12, <1>13, <1>14, <1>15, <1>16 DEF CallStep
<1> QED  BY <1>1, <1>17 DEF OneToClose, Good

LEMMA PlaceInductive == TypeInv /\ PlaceInv /\ [Next]_vars => PlaceInv'
<1> SUFFICES ASSUME TypeInv, PlaceInv, [Next]_vars PROVE PlaceInv'
  OBVIOUS
<1>0. /\ PlaceInv <=> Places /\ OneToClose
      /\ PlaceInv' <=> Places' /\ OneToClose'
  BY DEF PlaceInv, Places
<1>1. ASSUME NEW c \in Calls, CallStep(c) PROVE PlaceInv'
  <2>1. OneToClose'
    BY <1>1, OneToCloseInductive
  <2>2. CASE Pull(c)
    BY <1>0, <1>1, <2>1, <2>2, PullKeepsPlaces
  <2>3. CASE Publish(c)
    BY <1>0, <2>1, <2>3, PublishKeepsPlaces
  <2>4. CASE Remove(c)
    BY <1>0, <2>1, <2>4, RemoveKeepsPlaces
  <2>5. CASE ~Pull(c) /\ ~Publish(c) /\ ~Remove(c)
    BY <1>0, <1>1, <2>1, <2>5, MostStepsAreQuiet, QuietKeepsPlaces
  <2> QED  BY <2>2, <2>3, <2>4, <2>5
<1>2. ASSUME NEW i \in Slots, Disconnect(i) PROVE PlaceInv'
  <2>1. UNCHANGED <<poolVars, callVars>>
    BY <1>2, DisconnectMovesConnections
  <2>2. \A j \in Slots :
          /\ conns'[j].session = conns[j].session
          /\ conns'[j].up => conns[j].up
    BY <1>2, DisconnectMovesConnections
  <2>3. Quiet
    BY <2>1, <2>2 DEF Quiet, poolVars, callVars, Shut
  <2>4. OneToClose'
    BY <1>0, <2>1, <2>2, TypeFacts DEF OneToClose, poolVars, callVars
  <2> QED  BY <1>0, <2>3, <2>4, QuietKeepsPlaces
<1>3. CASE UNCHANGED vars
  <2>1. UNCHANGED <<poolVars, callVars, conns>>
    BY <1>3 DEF vars, worldVars
  <2>2. Quiet
    BY <2>1 DEF Quiet, poolVars, callVars, Shut
  <2>3. OneToClose'
    BY <1>0, <2>1 DEF OneToClose, poolVars, callVars
  <2> QED  BY <1>0, <2>2, <2>3, QuietKeepsPlaces
<1> QED  BY <1>1, <1>2, <1>3 DEF Next, AllReturned

LEMMA PlaceStarts == Init => PlaceInv
<1> SUFFICES ASSUME Init PROVE PlaceInv
  OBVIOUS
<1>1. \A c \in Calls : pc[c] = "start" /\ op[c] = "none" /\ victims[c] = {}
  BY DEF Init
<1>2. \A i \in Slots : ~conns[i].up
  BY DEF Init
<1>3. nextSlot = 1 /\ \A s \in Sessions : active[s] = 0
  BY DEF Init
<1> QED
  BY <1>1, <1>2, <1>3
     DEF PlaceInv, OnlyHandedOut, BearsItsSession, BuiltByOne, TakenByOne,
         OneToClose, Shut, BuildPCs

LEMMA PlaceAlways == Spec => []PlaceInv
BY TypeAlways, PlaceStarts, PlaceInductive, PTL DEF Spec

-----------------------------------------------------------------------------
(* The slots in use, which ConnectionsBounded counts.                       *)
InUse == Up \cup Building \cup Active \cup Closing

Occupied(i) ==
  \/ conns[i].up
  \/ \E c \in Calls : pc[c] \in BuildPCs /\ held[c] = i
  \/ \E s \in Sessions : active[s] = i
  \/ \E c \in Calls : i \in Shut(c)

InUseIsOccupied ==
  InUse \subseteq Slots /\ \A i \in Slots : i \in InUse <=> Occupied(i)

LEMMA WhatIsInUse == TypeInv => InUseIsOccupied
<1> SUFFICES ASSUME TypeInv PROVE InUseIsOccupied
  OBVIOUS
<1>1. \A i : i \in Closing <=> \E c \in Calls : i \in Shut(c)
  BY DEF Closing, Shut
<1>2. \A i : i \in Building <=> \E c \in Calls : pc[c] \in BuildPCs /\ held[c] = i
  BY DEF Building
<1>3. \A i \in Slots : i \in Active <=> \E s \in Sessions : active[s] = i
  BY TypeFacts DEF Active
<1>4. \A i \in Slots : i \in Up <=> conns[i].up
  BY DEF Up
<1>5. InUse \subseteq Slots
  <2>1. Closing \subseteq Slots
    BY <1>1, TypeFacts DEF Shut
  <2>2. Building \subseteq Slots
    BY <1>2, TypeFacts
  <2>3. Active \subseteq Slots
    BY TypeFacts DEF Active
  <2> QED  BY <2>1, <2>2, <2>3 DEF InUse, Up
<1> QED
  BY <1>1, <1>2, <1>3, <1>4, <1>5 DEF InUse, InUseIsOccupied, Occupied

LEMMA WhatIsInUseNext == TypeInv' => InUseIsOccupied'
BY WhatIsInUse, PTL

(* What the slots that are handed out or idle add up to.                    *)
Bounded == Cardinality(InUse) + idle <= PoolSize

LEMMA SlotsFinite ==
  /\ IsFiniteSet(Slots)
  /\ \A S : S \subseteq Slots => IsFiniteSet(S) /\ Cardinality(S) \in Nat
  /\ \A S, T : S \subseteq T /\ T \subseteq Slots => Cardinality(S) <= Cardinality(T)
<1>1. IsFiniteSet(Slots)
  BY PoolAssumption, FS_Interval DEF Slots
<1>2. \A S : S \subseteq Slots => IsFiniteSet(S)
  BY <1>1, FS_Subset
<1> QED  BY <1>1, <1>2, FS_Subset, FS_CardinalityType

(* A step that puts no slot in use and none into the channel.               *)
LEMMA LessInUse ==
  ASSUME TypeInv, TypeInv', Bounded, InUse' \subseteq InUse, idle' <= idle
  PROVE  Bounded'
<1>1. /\ InUse \subseteq Slots /\ idle \in Nat /\ idle' \in Nat /\ PoolSize \in Nat
  BY WhatIsInUse, PoolAssumption DEF InUseIsOccupied, TypeInv, TypeOK
<1>2. Cardinality(InUse') <= Cardinality(InUse)
  BY <1>1, SlotsFinite
<1>3. Cardinality(InUse) \in Nat /\ Cardinality(InUse') \in Nat
  BY <1>1, SlotsFinite
<1> QED  BY <1>1, <1>2, <1>3 DEF Bounded

LEMMA QuietUsesLess ==
  ASSUME TypeInv, TypeInv', Quiet PROVE InUse' \subseteq InUse
<1>1. \A i \in Slots : Occupied(i)' => Occupied(i)
  BY TypeFacts DEF Quiet, Occupied
<1> QED  BY <1>1, WhatIsInUse, WhatIsInUseNext DEF InUseIsOccupied

LEMMA BoundedInductive ==
  TypeInv /\ TypeInv' /\ PlaceInv /\ Bounded /\ [Next]_vars => Bounded'
<1> SUFFICES ASSUME TypeInv, TypeInv', PlaceInv, Bounded, [Next]_vars
             PROVE  Bounded'
  OBVIOUS
<1>0. /\ InUseIsOccupied /\ InUseIsOccupied'
      /\ idle \in Nat /\ idle' \in Nat /\ PoolSize \in Nat
  BY WhatIsInUse, WhatIsInUseNext, PoolAssumption DEF TypeInv, TypeOK
<1>1. ASSUME NEW c \in Calls, CallStep(c) PROVE Bounded'
  <2>1. CASE Pull(c)
    <3>1. CASE idle = 0
      <4>1. UNCHANGED <<active, idle, conns, op, victims>>
        BY <1>0, <2>1, <3>1 DEF Pull
      <4>2. \A d \in Calls : /\ pc'[d] \in BuildPCs => pc[d] \in BuildPCs
                             /\ held'[d] = held[d]
                             /\ Shut(d)' \subseteq Shut(d)
        BY <2>1, <3>1, <1>0, TypeFacts DEF Pull, Return, Goto, Shut, BuildPCs
      <4>3. InUse' \subseteq InUse
        BY <1>0, <4>1, <4>2 DEF InUseIsOccupied, Occupied
      <4> QED  BY <1>0, <4>1, <4>3, LessInUse
    <3>2. CASE idle > 0
      <4>1. /\ UNCHANGED <<active, op, victims>> /\ idle' = idle - 1
            /\ nextSlot <= MaxSlots
            /\ pc' = [pc EXCEPT ![c] = "stored"]
            /\ held' = [held EXCEPT ![c] = nextSlot] /\ pc[c] = "pull"
        BY <1>0, <2>1, <3>2 DEF Pull, Goto
      <4>2. \A i \in Slots : conns'[i].up = conns[i].up
        BY <1>1, <4>1, CallMovesConnections DEF ConnectionsMove
      <4>3. \A d \in Calls :
              /\ Shut(d)' = Shut(d)
              /\ d # c => pc'[d] = pc[d] /\ held'[d] = held[d]
              /\ held'[c] = nextSlot
        BY <4>1, TypeFacts DEF Shut
      <4>4. \A i \in InUse' : i \in InUse \/ i = nextSlot
        BY <1>0, <4>1, <4>2, <4>3 DEF InUseIsOccupied, Occupied
      <4>5. nextSlot \in Slots
        BY <4>1, TypeFacts, PoolAssumption DEF Slots
      <4>6. /\ InUse' \subseteq InUse \cup {nextSlot}
            /\ InUse \cup {nextSlot} \subseteq Slots
        BY <1>0, <4>4, <4>5 DEF InUseIsOccupied
      <4>7. /\ Cardinality(InUse') <= Cardinality(InUse \cup {nextSlot})
            /\ Cardinality(InUse \cup {nextSlot}) \in Nat
            /\ Cardinality(InUse') \in Nat
            /\ Cardinality(InUse) \in Nat /\ IsFiniteSet(InUse)
        BY <1>0, <4>6, SlotsFinite DEF InUseIsOccupied
      <4>8. Cardinality(InUse \cup {nextSlot}) <= Cardinality(InUse) + 1
        <5>1. Cardinality(InUse \cup {nextSlot}) =
                IF nextSlot \in InUse THEN Cardinality(InUse)
                                      ELSE Cardinality(InUse) + 1
          BY <4>7, FS_AddElement
        <5> QED  BY <4>7, <5>1
      <4> QED  BY <1>0, <4>1, <4>7, <4>8 DEF Bounded
    <3> QED  BY <1>0, <3>1, <3>2
  <2>2. CASE Publish(c)
    <3>1. /\ UNCHANGED <<conns, op, victims, held, idle>>
          /\ pc[c] = "publish" /\ pc' = [pc EXCEPT ![c] = "done"]
          /\ active' = [active EXCEPT ![session[c]] = held[c]]
      BY <2>2 DEF Publish, Return, Goto, worldVars
    <3>2. /\ \A d \in Calls : /\ Shut(d)' \subseteq Shut(d)
                              /\ pc'[d] \in BuildPCs => pc[d] \in BuildPCs
          /\ \A s \in Sessions : active'[s] \in {active[s], held[c]}
          /\ pc[c] \in BuildPCs
      BY <3>1, TypeFacts DEF Shut, BuildPCs
    <3>3. InUse' \subseteq InUse
      BY <1>0, <3>1, <3>2 DEF InUseIsOccupied, Occupied
    <3> QED  BY <1>0, <3>1, <3>3, LessInUse
  <2>3. CASE Remove(c)
    <3> DEFINE ss == IF op[c] = "stop" THEN Sessions ELSE {session[c]}
               taken == {active[s] : s \in ss} \ {0}
    <3>1. /\ UNCHANGED <<conns, op, held, idle>>
          /\ active' = [s \in Sessions |-> IF s \in ss THEN 0 ELSE active[s]]
          /\ victims' = [victims EXCEPT ![c] = taken]
          /\ pc[c] = "remove" /\ pc'[c] \notin BuildPCs
          /\ \A d \in Calls \ {c} : pc'[d] = pc[d]
      BY <2>3, TypeFacts DEF Remove, Goto, Resumed, worldVars, BuildPCs
    <3>2. ss \subseteq Sessions
      BY <3>1 DEF TypeInv, HasSession
    <3>3. \A i \in taken : \E s \in Sessions : active[s] = i
      BY <3>2
    <3> HIDE DEF taken
    <3>4. /\ \A d \in Calls \ {c} : Shut(d)' = Shut(d)
          /\ Shut(c)' \subseteq taken
          /\ \A d \in Calls : pc'[d] \in BuildPCs => pc[d] \in BuildPCs
          /\ \A s \in Sessions : active'[s] \in {active[s], 0}
      BY <3>1, TypeFacts DEF Shut
    <3> HIDE DEF ss
    <3>5. \A i \in Slots : Occupied(i)' => Occupied(i)
      BY <3>1, <3>3, <3>4, TypeFacts DEF Occupied
    <3>6. InUse' \subseteq InUse
      BY <1>0, <3>5 DEF InUseIsOccupied
    <3> QED  BY <1>0, <3>1, <3>6, LessInUse
  <2>4. CASE ~Pull(c) /\ ~Publish(c) /\ ~Remove(c)
    <3>1. Quiet
      BY <1>1, <2>4, MostStepsAreQuiet DEF PlaceInv
    <3>2. InUse' \subseteq InUse
      BY <3>1, QuietUsesLess
    <3>3. CASE idle' <= idle
      BY <3>2, <3>3, LessInUse
(* A slot comes back into the channel as its connection goes out of use.    *)
    <3>4. CASE Refill(c) /\ idle' = idle + 1
      <4>1. /\ pc[c] = "refill" /\ UNCHANGED <<conns, active, op, held>>
            /\ victims' = [victims EXCEPT ![c] = {}]
            /\ pc'[c] \notin BuildPCs
        BY <3>4, TypeFacts DEF Refill, Goto, Resumed, worldVars, BuildPCs
      <4>2. PICK i \in Slots : victims[c] = {i}
        BY <4>1 DEF PlaceInv, OneToClose
      <4>3. i \in Shut(c)
        BY <4>1, <4>2 DEF Shut, PlaceInv, OneToClose
      <4>4. ~Occupied(i)'
        <5>1. ~conns[i].up
          BY <4>1, <4>2 DEF PlaceInv, OneToClose
        <5>2. \A d \in Calls : pc[d] \in BuildPCs => held[d] # i
          BY <4>3 DEF PlaceInv, BuiltByOne
        <5>3. /\ \A s \in Sessions : active[s] # i
              /\ \A d \in Calls \ {c} : i \notin Shut(d)
          BY <4>3 DEF PlaceInv, TakenByOne
        <5>4. Shut(c)' = {}
          BY <4>1, TypeFacts DEF Shut
        <5>5. \A d \in Calls : /\ pc'[d] \in BuildPCs => pc[d] \in BuildPCs
                               /\ Shut(d)' \subseteq Shut(d)
          BY <3>1 DEF Quiet
        <5> QED  BY <4>1, <5>1, <5>2, <5>3, <5>4, <5>5 DEF Occupied
      <4>5. i \in InUse /\ i \notin InUse'
        BY <1>0, <4>3, <4>4 DEF InUseIsOccupied, Occupied
      <4>6. InUse' \subseteq InUse \ {i} /\ InUse \ {i} \subseteq Slots
        BY <1>0, <3>2, <4>5 DEF InUseIsOccupied
      <4>7. /\ Cardinality(InUse') <= Cardinality(InUse \ {i})
            /\ Cardinality(InUse') \in Nat /\ Cardinality(InUse \ {i}) \in Nat
            /\ Cardinality(InUse) \in Nat /\ IsFiniteSet(InUse)
        BY <1>0, <4>6, SlotsFinite DEF InUseIsOccupied
      <4>8. Cardinality(InUse \ {i}) = Cardinality(InUse) - 1
        BY <4>5, <4>7, FS_RemoveElement
      <4> QED  BY <1>0, <3>4, <4>7, <4>8 DEF Bounded
    <3>5. idle' <= idle \/ (Refill(c) /\ idle' = idle + 1)
      BY <1>0, <1>1, <2>4
         DEF CallStep, Start, Look, Check, LoopIdFor, Dial, Resume, Redial,
             Bootstrap, Close, Refill, Drain, Abandon, poolVars
    <3> QED  BY <3>3, <3>4, <3>5
  <2> QED  BY <2>1, <2>2, <2>3, <2>4
<1>2. ASSUME NEW i \in Slots, Disconnect(i) PROVE Bounded'
  <2>1. /\ UNCHANGED <<poolVars, callVars>>
        /\ \A j \in Slots : conns'[j].up => conns[j].up
    BY <1>2, DisconnectMovesConnections
  <2>2. InUse' \subseteq InUse
    BY <1>0, <2>1 DEF InUseIsOccupied, Occupied, poolVars, callVars, Shut
  <2> QED  BY <1>0, <2>1, <2>2, LessInUse DEF poolVars
<1>3. CASE UNCHANGED vars
  <2>1. UNCHANGED <<poolVars, callVars, conns>>
    BY <1>3 DEF vars, worldVars
  <2>2. InUse' \subseteq InUse
    BY <1>0, <2>1 DEF InUseIsOccupied, Occupied, poolVars, callVars, Shut
  <2> QED  BY <1>0, <2>1, <2>2, LessInUse DEF poolVars
<1> QED  BY <1>1, <1>2, <1>3 DEF Next, AllReturned

LEMMA BoundedStarts == Init => Bounded
<1> SUFFICES ASSUME Init PROVE Bounded
  OBVIOUS
<1>1. TypeInv /\ PlaceInv
  BY TypeStarts, PlaceStarts
<1>2. /\ \A c \in Calls : pc[c] = "start" /\ victims[c] = {}
      /\ \A i \in Slots : ~conns[i].up
      /\ \A s \in Sessions : active[s] = 0
      /\ idle = PoolSize
  BY DEF Init
<1>3. InUse = {}
  BY <1>1, <1>2, WhatIsInUse, TypeFacts
     DEF InUseIsOccupied, Occupied, Shut, BuildPCs
<1> QED  BY <1>2, <1>3, FS_EmptySet, PoolAssumption DEF Bounded

(* The open connections, those being built or torn down, and the idle slots *)
(* never add up to more than the pool size, whatever acquires, releases,    *)
(* stops, failures and dropped futures run together.                        *)
THEOREM PoolIsBounded == Spec => []ConnectionsBounded
<1>1. Spec => []Bounded
  BY TypeAlways, PlaceAlways, BoundedStarts, BoundedInductive, PTL DEF Spec
<1>2. Bounded => ConnectionsBounded
  BY DEF Bounded, InUse, ConnectionsBounded
<1> QED  BY <1>1, <1>2, PTL

-----------------------------------------------------------------------------
(* One call per session at a time.                                          *)

LEMMA SerialFacts ==
  ASSUME TypeInv
  PROVE  /\ after \in [Calls -> {"return", "pull", "fail"}]
         /\ result \in [Calls -> {"none", "ok", "exhausted", "failed", "dropped"}]
         /\ store \in [Sessions -> Nat]
         /\ conns \in [Slots -> Connection]
         /\ loops \in Nat
         /\ \A c \in Calls : pc[c] # "start" => session[c] \in Sessions
BY DEF TypeInv, TypeOK, HasSession, Connection

(* The stop is not among the operations, and a call starts when its session *)
(* has no other.                                                            *)
LEMMA OneCallStep ==
  ASSUME TypeInv, serial, OneCallPerSession, NEW c \in Calls, CallStep(c)
  PROVE  OneCallPerSession'
<1> USE TypeFacts DEF OneCallPerSession, Running
<1>1. CASE Start(c)
  <2>1. PICK o \in Ops, s \in Sessions :
          /\ o # "stop" /\ \A d \in Calls : Running(d) => session[d] # s
          /\ op' = [op EXCEPT ![c] = o]
          /\ session' = [session EXCEPT ![c] = s]
          /\ Goto(c, "start", IF o = "acquire" THEN "look" ELSE "remove")
    BY <1>1 DEF Start
  <2>2. pc[c] = "start" /\ op'[c] = o /\ session'[c] = s
    BY <2>1 DEF Goto
  <2>3. \A d \in Calls \ {c} :
          pc'[d] = pc[d] /\ op'[d] = op[d] /\ session'[d] = session[d]
    BY <2>1 DEF Goto
  <2> QED  BY <2>1, <2>2, <2>3
<1>2. CASE ~Start(c)
  <2>1. op' = op /\ session' = session /\ pc[c] \notin {"start", "done"}
    BY <1>2
       DEF CallStep, Look, Check, Pull, LoopIdFor, Dial, Resume, Redial,
           Bootstrap, Publish, Remove, Close, Refill, Drain, Abandon, Goto,
           Return, BuildPCs
  <2>2. \A d \in Calls : Running(d)' => Running(d)
    BY <2>1, OthersStay
  <2> QED  BY <2>1, <2>2
<1> QED  BY <1>1, <1>2

(* What a step of call c leaves true of call c.                             *)
LEMMA OwnCallStep ==
  ASSUME TypeInv, PlaceInv, InSerial, NEW c \in Calls, CallStep(c)
  PROVE  /\ after'[c] = "fail" => pc'[c] \in {"remove", "done"}
         /\ result'[c] # "none" => pc'[c] = "done"
         /\ \/ pc'[c] \in BuildPCs \cup {"pull", "close", "refill"}
            \/ pc'[c] = "remove" /\ after'[c] = "fail"
            => active'[session'[c]] = 0
<1> DEFINE Good ==
      /\ after'[c] = "fail" => pc'[c] \in {"remove", "done"}
      /\ result'[c] # "none" => pc'[c] = "done"
      /\ \/ pc'[c] \in BuildPCs \cup {"pull", "close", "refill"}
         \/ pc'[c] = "remove" /\ after'[c] = "fail"
         => active'[session'[c]] = 0
<1> USE TypeFacts, SerialFacts DEF InSerial, OneCallPerSession, FailsLate,
        TableIsClear, BuildPCs
<1>1. ASSUME Start(c) PROVE Good
  BY <1>1 DEF Start, Goto, poolVars, worldVars
<1>2. ASSUME Look(c) PROVE Good
  BY <1>2 DEF Look, Goto, poolVars, worldVars
<1>3. ASSUME Check(c) PROVE Good
  BY <1>3 DEF Check, Goto, Return, poolVars, worldVars
<1>4. ASSUME Pull(c) PROVE Good
  BY <1>4 DEF Pull, Goto, Return
<1>5. ASSUME LoopIdFor(c) PROVE Good
  BY <1>5 DEF LoopIdFor, Goto, poolVars, worldVars
<1>6. ASSUME Dial(c) PROVE Good
  BY <1>6 DEF Dial, Goto, Return, poolVars
<1>7. ASSUME Resume(c) PROVE Good
  BY <1>7 DEF Resume, Goto, poolVars
<1>8. ASSUME Redial(c) PROVE Good
  BY <1>8 DEF Redial, Goto, poolVars
<1>9. ASSUME Bootstrap(c) PROVE Good
  BY <1>9 DEF Bootstrap, Goto, poolVars
<1>10. ASSUME Publish(c) PROVE Good
  BY <1>10 DEF Publish, Goto, Return, worldVars
<1>11. ASSUME Remove(c) PROVE Good
  BY <1>11 DEF Remove, Goto, Finish, Resumed, worldVars
<1>12. ASSUME Close(c) PROVE Good
  BY <1>12 DEF Close, Goto, poolVars
<1>13. ASSUME Refill(c) PROVE Good
  BY <1>13 DEF Refill, Goto, Finish, Resumed
<1>14. ASSUME Drain(c) PROVE Good
  BY <1>14 DEF Drain, Goto, Return
<1>15. ASSUME Abandon(c) PROVE Good
  BY <1>15 DEF Abandon, Goto, Return, poolVars
<1> HIDE DEF Good
<1>16. Good
  BY <1>1, <1>2, <1>3, <1>4, <1>5, <1>6, <1>7, <1>8, <1>9, <1>10, <1>11, <1>12, <1>13, <1>14, <1>15 DEF CallStep
<1> QED  BY <1>16 DEF Good

(* What a step of call c does to the table and to the store, which the      *)
(* calls of the other sessions read.                                        *)
LEMMA OwnSessionOnly ==
  ASSUME TypeInv, InSerial, NEW c \in Calls, CallStep(c)
  PROVE  \A s \in Sessions :
           /\ \/ active'[s] = active[s]
              \/ active'[s] = 0
              \/ /\ pc[c] = "publish" /\ s = session[c]
                 /\ active'[s] = held[c] /\ UNCHANGED <<conns, store>>
           /\ store'[s] = store[s] \/ (pc[c] = "boot" /\ s = session[c])
<1> USE TypeFacts, SerialFacts
<1>1. CASE Start(c) \/ Look(c) \/ Check(c) \/ Pull(c) \/ LoopIdFor(c)
  BY <1>1 DEF Start, Look, Check, Pull, LoopIdFor, poolVars, worldVars
<1>2. CASE Dial(c) \/ Resume(c) \/ Redial(c) \/ Close(c)
  BY <1>2 DEF Dial, Resume, Redial, Close, poolVars
<1>3. CASE Bootstrap(c)
  BY <1>3 DEF Bootstrap, Goto, set_loop_id, poolVars
<1>4. CASE Publish(c)
  BY <1>4 DEF Publish, Return, Goto, worldVars
<1>5. CASE Remove(c)
  BY <1>5 DEF Remove, worldVars
<1>6. CASE Refill(c) \/ Drain(c) \/ Abandon(c)
  BY <1>6 DEF Refill, Drain, Abandon, worldVars, poolVars
<1> QED  BY <1>1, <1>2, <1>3, <1>4, <1>5, <1>6 DEF CallStep

(* What a call is about to publish is attached to the stored loop, which it *)
(* has just read or written.                                                *)
LEMMA PublishesStoredStep ==
  ASSUME TypeInv, PlaceInv, InSerial, NEW c \in Calls, CallStep(c)
  PROVE  PublishesStored'
<1> SUFFICES ASSUME NEW d \in Calls, pc'[d] \in {"publish", "resume"}
             PROVE  conns'[held'[d]].loop = store'[session'[d]]
  BY DEF PublishesStored
<1> USE TypeFacts, SerialFacts
<1>0. ConnectionsMove(c)
  BY CallMovesConnections
<1>1. CASE d # c
  <2>1. /\ pc[d] \in {"publish", "resume"}
        /\ held'[d] = held[d] /\ session'[d] = session[d]
    BY <1>1, OthersStay
  <2>2. conns[held[d]].loop = store[session[d]] /\ held[d] \in Slots
    BY <2>1 DEF InSerial, PublishesStored, BuildPCs
  <2>3. conns'[held[d]].loop = conns[held[d]].loop
    <3>1. pc[c] \in BuildPCs => held[c] # held[d]
      BY <1>1, <2>1 DEF PlaceInv, BuiltByOne, BuildPCs
    <3> QED  BY <1>0, <2>2, <3>1 DEF ConnectionsMove, BuildPCs
  <2>4. store'[session[d]] = store[session[d]]
    <3>1. pc[c] = "boot" => session[c] # session[d]
      BY <1>1, <2>1 DEF InSerial, OneCallPerSession, Running
    <3>2. session[d] \in Sessions
      BY <2>1
    <3> QED  BY <3>1, <3>2, OwnSessionOnly
  <2> QED  BY <2>1, <2>2, <2>3, <2>4
<1>2. CASE d = c
  <2>1. CASE LoopIdFor(c)
    <3>1. /\ pc[c] = "stored" /\ held' = held /\ session' = session /\ store' = store
          /\ conns' = [conns EXCEPT ![held[c]].loop = store[session[c]]]
      BY <1>2, <2>1 DEF LoopIdFor, Goto, get_loop_id_for_session
    <3>2. held[c] \in Slots /\ conns[held[c]] \in Connection
      BY <3>1 DEF BuildPCs
    <3>3. conns'[held[c]].loop = store[session[c]]
      BY <3>1, <3>2 DEF Connection
    <3> QED  BY <1>2, <3>1, <3>3
  <2>2. CASE Bootstrap(c)
    <3>1. /\ pc[c] = "boot" /\ held' = held /\ session' = session
          /\ store' = [store EXCEPT ![session[c]] = loops + 1]
          /\ conns' = [conns EXCEPT ![held[c]].loop = loops + 1]
      BY <1>2, <2>2 DEF Bootstrap, Goto, set_loop_id
    <3>2. held[c] \in Slots /\ conns[held[c]] \in Connection /\ session[c] \in Sessions
      BY <3>1 DEF BuildPCs
    <3>3. conns'[held[c]].loop = loops + 1
      BY <3>1, <3>2 DEF Connection
    <3>4. store'[session[c]] = loops + 1
      BY <3>1, <3>2
    <3> QED  BY <1>2, <3>1, <3>3, <3>4
  <2>3. CASE Start(c) \/ Look(c) \/ Check(c) \/ Pull(c)
    BY <1>2, <2>3 DEF Start, Look, Check, Pull, Goto, Return
  <2>4. CASE Dial(c) \/ Redial(c) \/ Publish(c) \/ Remove(c)
    BY <1>2, <2>4 DEF Dial, Redial, Publish, Remove, Goto, Return, Resumed
  <2>5. CASE Close(c) \/ Refill(c) \/ Drain(c) \/ Abandon(c)
    BY <1>2, <2>5 DEF Close, Refill, Drain, Abandon, Goto, Return, Resumed, BuildPCs
  <2>6. CASE Resume(c)
    <3>1. /\ pc[c] = "resume" /\ held' = held /\ session' = session /\ store' = store
      BY <1>2, <2>6 DEF Resume, Goto
    <3>2. held[c] \in Slots /\ conns[held[c]].loop = store[session[c]]
      BY <3>1 DEF BuildPCs, InSerial, PublishesStored
    <3>3. conns'[held[c]].loop = conns[held[c]].loop
      BY <1>0, <3>1, <3>2 DEF ConnectionsMove
    <3> QED  BY <1>2, <3>1, <3>2, <3>3
  <2> QED  BY <2>1, <2>2, <2>3, <2>4, <2>5, <2>6 DEF CallStep
<1> QED  BY <1>1, <1>2

LEMMA SerialInductive ==
  TypeInv /\ PlaceInv /\ SerialInv /\ [Next]_vars => SerialInv'
<1> SUFFICES ASSUME TypeInv, PlaceInv, InSerial, serial, [Next]_vars
             PROVE  InSerial'
  <2>1. [Next]_vars => serial' = serial
    BY DEF Next, vars
  <2>2. [Next]_vars /\ serial' => serial
    BY <2>1, Zenon
  <2> QED  BY <2>2 DEF SerialInv
<1>1. ASSUME NEW c \in Calls, CallStep(c) PROVE InSerial'
  <2>1. OneCallPerSession'
    BY <1>1, OneCallStep DEF InSerial
  <2>2. FailsLate'
    BY <1>1, OwnCallStep, OthersStay DEF InSerial, FailsLate
  <2>3. TableIsClear'
    <3>1. ASSUME NEW d \in Calls, d # c,
                 \/ pc'[d] \in BuildPCs \cup {"pull", "close", "refill"}
                 \/ pc'[d] = "remove" /\ after'[d] = "fail"
          PROVE  active'[session'[d]] = 0
      <4>1. pc'[d] = pc[d] /\ after'[d] = after[d] /\ session'[d] = session[d]
        BY <1>1, <3>1, OthersStay
      <4>2. active[session[d]] = 0
        BY <3>1, <4>1 DEF InSerial, TableIsClear
      <4>3. Running(d) /\ session[d] \in Sessions
        BY <3>1, <4>1, SerialFacts DEF Running, BuildPCs
      <4>4. pc[c] = "publish" => session[c] # session[d]
        BY <3>1, <4>3 DEF InSerial, OneCallPerSession, Running
      <4> QED  BY <1>1, <4>1, <4>2, <4>3, <4>4, OwnSessionOnly
    <3> QED  BY <1>1, <3>1, OwnCallStep DEF TableIsClear
  <2>4. PublishesStored'
    BY <1>1, PublishesStoredStep
  <2> QED  BY <2>1, <2>2, <2>3, <2>4 DEF InSerial
<1>2. ASSUME NEW i \in Slots, Disconnect(i) PROVE InSerial'
  <2>1. /\ UNCHANGED <<poolVars, store, callVars>>
        /\ \A j \in Slots : conns'[j].loop = conns[j].loop
    BY <1>2, DisconnectMovesConnections
  <2>2. OneCallPerSession' /\ FailsLate' /\ TableIsClear'
    BY <2>1
       DEF InSerial, OneCallPerSession, FailsLate, TableIsClear, Running,
           poolVars, callVars
  <2>3. PublishesStored'
    BY <2>1, TypeFacts DEF InSerial, PublishesStored, BuildPCs, callVars
  <2> QED  BY <2>2, <2>3 DEF InSerial
<1>3. CASE UNCHANGED vars
  BY <1>3
     DEF InSerial, OneCallPerSession, FailsLate, TableIsClear,
         PublishesStored, Running, vars, poolVars, worldVars, callVars
<1> QED  BY <1>1, <1>2, <1>3 DEF Next, AllReturned

LEMMA SerialStarts == Init => SerialInv
BY DEF Init, SerialInv, InSerial, OneCallPerSession, FailsLate, TableIsClear,
       PublishesStored, Running, BuildPCs

LEMMA SerialAlways == Spec => []SerialInv
BY TypeAlways, PlaceAlways, SerialStarts, SerialInductive, PTL DEF Spec

Agrees ==
  serial => \A s \in Sessions : active[s] # 0 => conns[active[s]].loop = store[s]

LEMMA AgreesInductive ==
  TypeInv /\ PlaceInv /\ SerialInv /\ Agrees /\ [Next]_vars => Agrees'
<1> SUFFICES ASSUME TypeInv, PlaceInv, InSerial, Agrees, serial, [Next]_vars,
                    NEW s \in Sessions, active'[s] # 0
             PROVE  conns'[active'[s]].loop = store'[s]
  <2>1. [Next]_vars => serial' = serial
    BY DEF Next, vars
  <2>2. [Next]_vars /\ serial' => serial
    BY <2>1, Zenon
  <2> QED  BY <2>2 DEF SerialInv, Agrees
<1> USE TypeFacts DEF Agrees
<1>1. ASSUME NEW c \in Calls, CallStep(c)
      PROVE  conns'[active'[s]].loop = store'[s]
  <2>0. ConnectionsMove(c)
    BY <1>1, CallMovesConnections
  <2>1. CASE active'[s] = active[s]
    <3>1. active[s] \in Slots /\ conns[active[s]].loop = store[s]
      BY <2>1
    <3>2. conns'[active[s]].loop = conns[active[s]].loop
      BY <2>0, <3>1 DEF ConnectionsMove, PlaceInv, BuiltByOne, BuildPCs
    <3>3. ~(pc[c] = "boot" /\ s = session[c])
      BY <3>1 DEF InSerial, TableIsClear, BuildPCs, Slots
    <3>4. store'[s] = store[s]
      BY <1>1, <3>3, OwnSessionOnly
    <3> QED  BY <2>1, <3>1, <3>2, <3>4
  <2>2. CASE /\ pc[c] = "publish" /\ s = session[c]
             /\ active'[s] = held[c] /\ UNCHANGED <<conns, store>>
    BY <2>2 DEF InSerial, PublishesStored
  <2> QED  BY <1>1, <2>1, <2>2, OwnSessionOnly
<1>2. ASSUME NEW i \in Slots, Disconnect(i)
      PROVE  conns'[active'[s]].loop = store'[s]
  <2>1. /\ UNCHANGED <<poolVars, store>>
        /\ \A j \in Slots : conns'[j].loop = conns[j].loop
    BY <1>2, DisconnectMovesConnections
  <2> QED  BY <2>1 DEF poolVars
<1>3. CASE UNCHANGED vars
  BY <1>3 DEF vars, poolVars, worldVars
<1> QED  BY <1>1, <1>2, <1>3 DEF Next, AllReturned

(* With one call per session at a time, a connection in the table speaks    *)
(* for the loop that the store has for its session: what a later acquire    *)
(* resumes is what the session used last.                                   *)
THEOREM TableAgreesWithStore == Spec => []StoreAgrees
<1>1. Init => Agrees
  BY DEF Init, Agrees
<1>2. Agrees => StoreAgrees
  BY DEF Agrees, StoreAgrees
<1> QED
  BY <1>1, <1>2, TypeAlways, PlaceAlways, SerialAlways, AgreesInductive, PTL
     DEF Spec

-----------------------------------------------------------------------------
(* A slot that a table or a call has.                                       *)
Placed(i) ==
  \/ \E c \in Calls : pc[c] \in BuildPCs /\ held[c] = i
  \/ \E s \in Sessions : active[s] = i
  \/ \E c \in Calls : i \in Shut(c)

LeftBy(c, i) == Failing(c) /\ (held[c] = i \/ i \in victims[c])

(* An open connection that nobody has was left by a call that failed.       *)
OnlyFailuresLeave ==
  serial => \A i \in Slots :
              conns[i].up => Placed(i) \/ \E c \in Calls : LeftBy(c, i)

(* Where a step of call c takes the open connections that it had, and those *)
(* of the table.                                                            *)
LEMMA OwnPlaces ==
  ASSUME TypeInv, PlaceInv, InSerial, NEW c \in Calls, CallStep(c),
         NEW i \in Slots, conns'[i].up
  PROVE  /\ pc[c] \in BuildPCs /\ held[c] = i
            => \/ pc'[c] \in BuildPCs /\ held'[c] = i
               \/ session[c] \in Sessions /\ active'[session[c]] = i
               \/ LeftBy(c, i)'
         /\ i \in Shut(c) => i \in Shut(c)' \/ LeftBy(c, i)'
         /\ \A s \in Sessions : active[s] = i => active'[s] = i \/ i \in Shut(c)'
         /\ LeftBy(c, i) => LeftBy(c, i)'
<1> DEFINE Good ==
      /\ pc[c] \in BuildPCs /\ held[c] = i
         => \/ pc'[c] \in BuildPCs /\ held'[c] = i
            \/ session[c] \in Sessions /\ active'[session[c]] = i
            \/ LeftBy(c, i)'
      /\ i \in Shut(c) => i \in Shut(c)' \/ LeftBy(c, i)'
      /\ \A s \in Sessions : active[s] = i => active'[s] = i \/ i \in Shut(c)'
      /\ LeftBy(c, i) => LeftBy(c, i)'
<1>0. /\ op[c] # "stop" /\ i # 0
      /\ pc[c] \notin {"close", "refill", "done"} => victims[c] = {}
      /\ pc[c] = "refill" => \A j \in victims[c] : ~conns[j].up
      /\ after[c] = "fail" => pc[c] \in {"remove", "done"}
      /\ result[c] # "none" => pc[c] = "done"
      /\ \/ pc[c] \in BuildPCs \cup {"pull", "close", "refill"}
         \/ pc[c] = "remove" /\ after[c] = "fail"
         => active[session[c]] = 0
  BY TypeFacts
     DEF InSerial, OneCallPerSession, FailsLate, TableIsClear, PlaceInv,
         OneToClose
<1> USE <1>0, TypeFacts, SerialFacts DEF Shut, LeftBy, Failing, BuildPCs
<1>1. ASSUME Start(c) PROVE Good
  BY <1>1 DEF Start, Goto, poolVars, worldVars
<1>2. ASSUME Look(c) PROVE Good
  BY <1>2 DEF Look, Goto, poolVars, worldVars
<1>3. ASSUME Check(c) PROVE Good
  BY <1>3 DEF Check, Goto, Return, poolVars, worldVars
<1>4. ASSUME Pull(c) PROVE Good
  BY <1>4 DEF Pull, Goto, Return
<1>5. ASSUME LoopIdFor(c) PROVE Good
  BY <1>5 DEF LoopIdFor, Goto, poolVars, worldVars
<1>6. ASSUME Dial(c) PROVE Good
  BY <1>6 DEF Dial, Goto, Return, poolVars
<1>7. ASSUME Resume(c) PROVE Good
  BY <1>7 DEF Resume, Goto, poolVars
<1>8. ASSUME Redial(c) PROVE Good
  BY <1>8 DEF Redial, Goto, poolVars
<1>9. ASSUME Bootstrap(c) PROVE Good
  BY <1>9 DEF Bootstrap, Goto, poolVars
<1>10. ASSUME Publish(c) PROVE Good
  BY <1>10 DEF Publish, Goto, Return, worldVars
<1>11. ASSUME Remove(c) PROVE Good
  BY <1>11 DEF Remove, Goto, Finish, Resumed, worldVars
<1>12. ASSUME Close(c) PROVE Good
  BY <1>12 DEF Close, Goto, poolVars
<1>13. ASSUME Refill(c) PROVE Good
  BY <1>13 DEF Refill, Goto, Finish, Resumed, worldVars
<1>14. ASSUME Drain(c) PROVE Good
  BY <1>14 DEF Drain, Goto, Return
<1>15. ASSUME Abandon(c) PROVE Good
  BY <1>15 DEF Abandon, Goto, Return, poolVars
<1> HIDE DEF Good
<1>16. Good
  BY <1>1, <1>2, <1>3, <1>4, <1>5, <1>6, <1>7, <1>8, <1>9, <1>10, <1>11, <1>12, <1>13, <1>14, <1>15 DEF CallStep
<1> QED  BY <1>16 DEF Good

LEMMA OnlyFailuresLeaveInductive ==
  TypeInv /\ PlaceInv /\ SerialInv /\ OnlyFailuresLeave /\ [Next]_vars
    => OnlyFailuresLeave'
<1> SUFFICES ASSUME TypeInv, PlaceInv, InSerial, OnlyFailuresLeave, serial,
                    [Next]_vars, NEW i \in Slots, conns'[i].up
             PROVE  Placed(i)' \/ \E c \in Calls : LeftBy(c, i)'
  <2>1. [Next]_vars => serial' = serial
    BY DEF Next, vars
  <2>2. [Next]_vars /\ serial' => serial
    BY <2>1, Zenon
  <2> QED  BY <2>2 DEF SerialInv, OnlyFailuresLeave
<1>1. ASSUME NEW c \in Calls, CallStep(c)
      PROVE  Placed(i)' \/ \E d \in Calls : LeftBy(d, i)'
  <2>1. Placed(i) \/ \E d \in Calls : LeftBy(d, i)
    <3>1. conns[i].up \/ (pc[c] \in BuildPCs /\ held[c] = i)
      BY <1>1, CallMovesConnections DEF ConnectionsMove, BuildPCs
    <3> QED  BY <3>1 DEF OnlyFailuresLeave, Placed
  <2>2. ASSUME NEW d \in Calls, LeftBy(d, i) PROVE LeftBy(d, i)'
    <3>1. CASE d = c
      BY <1>1, <2>2, <3>1, OwnPlaces
    <3>2. CASE d # c
      BY <1>1, <2>2, <3>2, OthersStay DEF LeftBy, Failing
    <3> QED  BY <3>1, <3>2
  <2>3. ASSUME NEW d \in Calls, pc[d] \in BuildPCs, held[d] = i
        PROVE  Placed(i)' \/ LeftBy(d, i)'
    <3>1. CASE d = c
      BY <1>1, <2>3, <3>1, OwnPlaces DEF Placed
    <3>2. CASE d # c
      BY <1>1, <2>3, <3>2, OthersStay DEF Placed
    <3> QED  BY <3>1, <3>2
  <2>4. ASSUME NEW d \in Calls, i \in Shut(d)
        PROVE  Placed(i)' \/ LeftBy(d, i)'
    <3>1. CASE d = c
      BY <1>1, <2>4, <3>1, OwnPlaces DEF Placed
    <3>2. CASE d # c
      BY <1>1, <2>4, <3>2, OthersStay DEF Placed, Shut
    <3> QED  BY <3>1, <3>2
  <2>5. ASSUME NEW s \in Sessions, active[s] = i PROVE Placed(i)'
    BY <1>1, <2>5, OwnPlaces DEF Placed
  <2> QED  BY <2>1, <2>2, <2>3, <2>4, <2>5 DEF Placed
<1>2. ASSUME NEW j \in Slots, Disconnect(j)
      PROVE  Placed(i)' \/ \E c \in Calls : LeftBy(c, i)'
  <2>1. UNCHANGED <<poolVars, callVars>> /\ (conns'[i].up => conns[i].up)
    BY <1>2, DisconnectMovesConnections
  <2> QED
    BY <2>1
       DEF OnlyFailuresLeave, Placed, LeftBy, Failing, Shut, poolVars, callVars
<1>3. CASE UNCHANGED vars
  BY <1>3
     DEF OnlyFailuresLeave, Placed, LeftBy, Failing, Shut, vars, poolVars,
         worldVars, callVars
<1> QED  BY <1>1, <1>2, <1>3 DEF Next, AllReturned

(* With one call per session at a time, a session has one connection in the *)
(* table, under construction or being torn down, and an open connection     *)
(* besides these was left by a call that failed or was dropped.             *)
THEOREM SessionHasOneConnection == Spec => []OneConnectionPerSession
<1>1. Init => OnlyFailuresLeave
  BY DEF Init, OnlyFailuresLeave
<1>2. TypeInv /\ PlaceInv /\ SerialInv /\ OnlyFailuresLeave
        => OneConnectionPerSession
  <2> SUFFICES ASSUME TypeInv, PlaceInv, InSerial, OnlyFailuresLeave, serial
               PROVE  OneConnectionPerSession
    BY DEF SerialInv, OneConnectionPerSession
  <2> DEFINE managed == Building \cup Active \cup Closing
  <2>1. \A i \in managed : i \in Slots /\ Placed(i)
    <3>1. \A i \in Building : i \in Slots /\ Placed(i)
      BY TypeFacts DEF Building, Placed
    <3>2. \A i \in Active : i \in Slots /\ Placed(i)
      BY TypeFacts DEF Active, Placed
    <3>3. \A i \in Closing : i \in Slots /\ Placed(i)
      BY TypeFacts DEF Closing, Placed, Shut
    <3> QED  BY <3>1, <3>2, <3>3
  <2>2. \A i \in Slots : Placed(i) => i \in managed
    <3> SUFFICES ASSUME NEW i \in Slots, Placed(i) PROVE i \in managed
      OBVIOUS
    <3>1. CASE \E c \in Calls : pc[c] \in BuildPCs /\ held[c] = i
      BY <3>1 DEF Building
    <3>2. CASE \E s \in Sessions : active[s] = i
      BY <3>2, TypeFacts DEF Active
    <3>3. CASE \E c \in Calls : i \in Shut(c)
      BY <3>3 DEF Closing, Shut
    <3> QED  BY <3>1, <3>2, <3>3 DEF Placed
(* A call that has a slot has its session's, which is not in the table.     *)
  <2> DEFINE Has(c, i) == (pc[c] \in BuildPCs /\ held[c] = i) \/ i \in Shut(c)
  <2>3. ASSUME NEW c \in Calls, NEW i \in Slots, Has(c, i)
        PROVE  /\ conns[i].session = session[c] /\ session[c] \in Sessions
               /\ Running(c) /\ active[session[c]] = 0
               /\ \A j \in Slots : Has(c, j) => j = i
    <3>1. /\ i \in Shut(c) => pc[c] \in {"close", "refill"} /\ victims[c] = {i}
          /\ \A j : j \in Shut(c) => pc[c] \in {"close", "refill"} /\ j \in victims[c]
      BY DEF PlaceInv, OneToClose, Shut
    <3>2. pc[c] \in BuildPCs \cup {"close", "refill"}
      BY <2>3, <3>1
    <3>3. Running(c) /\ active[session[c]] = 0 /\ session[c] \in Sessions
      BY <3>2, SerialFacts DEF Running, BuildPCs, InSerial, TableIsClear
    <3>4. conns[i].session = session[c]
      BY <2>3 DEF PlaceInv, BearsItsSession
    <3>5. \A j \in Slots : Has(c, j) => j = i
      BY <2>3, <3>1 DEF BuildPCs
    <3> QED  BY <3>3, <3>4, <3>5
  <2>4. \A s \in Sessions : active[s] # 0 => conns[active[s]].session = s
    BY DEF PlaceInv, BearsItsSession
  <2>5. ASSUME NEW i \in Slots, NEW j \in Slots, Placed(i), Placed(j),
               conns[i].session = conns[j].session
        PROVE  i = j
    <3> HIDE DEF Has
    <3>1. \A k \in Slots : Placed(k) => \/ \E c \in Calls : Has(c, k)
                                        \/ \E s \in Sessions : active[s] = k
      BY DEF Placed, Has
    <3>2. ASSUME NEW c \in Calls, NEW k \in Slots, Has(c, k),
                 NEW s \in Sessions, NEW l \in Slots, active[s] = l,
                 conns[k].session = conns[l].session
          PROVE  FALSE
      BY <2>3, <2>4, <3>2, TypeFacts
    <3>3. CASE \E s \in Sessions : active[s] = i
      <4>1. \E s \in Sessions : active[s] = j
        BY <2>5, <3>1, <3>2, <3>3
      <4> QED  BY <2>4, <2>5, <3>3, <4>1, TypeFacts
    <3>4. CASE \E c \in Calls : Has(c, i)
      <4>1. \E d \in Calls : Has(d, j)
        BY <2>5, <3>1, <3>2, <3>4
      <4>2. PICK c \in Calls, d \in Calls : Has(c, i) /\ Has(d, j)
        BY <3>4, <4>1
      <4>3. c = d
        BY <2>3, <2>5, <4>2 DEF InSerial, OneCallPerSession
      <4> QED  BY <2>3, <4>2, <4>3
    <3> QED  BY <2>5, <3>1, <3>3, <3>4
  <2>6. \A i \in Up \ managed :
          \E c \in Calls : Failing(c) /\ (held[c] = i \/ i \in victims[c])
    BY <2>2 DEF OnlyFailuresLeave, LeftBy, Up
  <2> HIDE DEF managed
  <2>7. \A i, j \in managed : conns[i].session = conns[j].session => i = j
    BY <2>1, <2>5
  <2> QED  BY <2>6, <2>7 DEF OneConnectionPerSession, managed
<1> QED
  BY <1>1, <1>2, TypeAlways, PlaceAlways, SerialAlways,
     OnlyFailuresLeaveInductive, PTL DEF Spec

-----------------------------------------------------------------------------
(* The calls that have a slot in their hands, or lost one.                  *)
Holds(c) == Failing(c) \/ pc[c] \in BuildPCs \cup {"close", "refill"}
Holders == {c \in Calls : Holds(c)}

(* Where the slots are, with one call per session at a time.                *)
Accounted ==
  serial => /\ IsFiniteSet(Holders)
            /\ PoolSize = idle + Cardinality(Active) + Cardinality(Holders)

(* What a step of call c does to what it holds: it trades a slot with the   *)
(* channel or with the table, one for one.                                  *)
LEMMA Trades ==
  ASSUME TypeInv, PlaceInv, InSerial, NEW c \in Calls, CallStep(c)
  PROVE  \/ (Holds(c)' <=> Holds(c)) /\ active' = active /\ idle' = idle
         \/ ~Holds(c) /\ Holds(c)' /\ active' = active /\ idle' = idle - 1
         \/ /\ Holds(c) /\ ~Holds(c)' /\ active' = active
            /\ idle' = IF idle < PoolSize THEN idle + 1 ELSE idle
         \/ /\ Holds(c) /\ ~Holds(c)' /\ idle' = idle /\ Publish(c)
         \/ /\ ~Holds(c) /\ Holds(c)' /\ idle' = idle /\ Remove(c)
            /\ active[session[c]] # 0
<1> DEFINE Good ==
      \/ (Holds(c)' <=> Holds(c)) /\ active' = active /\ idle' = idle
      \/ ~Holds(c) /\ Holds(c)' /\ active' = active /\ idle' = idle - 1
      \/ /\ Holds(c) /\ ~Holds(c)' /\ active' = active
         /\ idle' = IF idle < PoolSize THEN idle + 1 ELSE idle
      \/ /\ Holds(c) /\ ~Holds(c)' /\ idle' = idle /\ Publish(c)
      \/ /\ ~Holds(c) /\ Holds(c)' /\ idle' = idle /\ Remove(c)
         /\ active[session[c]] # 0
<1>0. /\ op[c] # "stop" /\ pc[c] # "drain"
      /\ after[c] = "fail" => pc[c] \in {"remove", "done"}
      /\ result[c] # "none" => pc[c] = "done"
      /\ pc[c] = "remove" /\ after[c] = "fail" => active[session[c]] = 0
  BY DEF InSerial, OneCallPerSession, FailsLate, TableIsClear, PlaceInv,
         OneToClose
<1> USE <1>0, TypeFacts, SerialFacts DEF Holds, Failing, BuildPCs
<1>1. ASSUME Start(c) PROVE Good
  BY <1>1 DEF Start, Goto, poolVars, worldVars
<1>2. ASSUME Look(c) PROVE Good
  BY <1>2 DEF Look, Goto, poolVars, worldVars
<1>3. ASSUME Check(c) PROVE Good
  BY <1>3 DEF Check, Goto, Return, poolVars, worldVars
<1>4. ASSUME Pull(c) PROVE Good
  BY <1>4 DEF Pull, Goto, Return
<1>5. ASSUME LoopIdFor(c) PROVE Good
  BY <1>5 DEF LoopIdFor, Goto, poolVars, worldVars
<1>6. ASSUME Dial(c) PROVE Good
  BY <1>6 DEF Dial, Goto, Return, poolVars
<1>7. ASSUME Resume(c) PROVE Good
  BY <1>7 DEF Resume, Goto, poolVars
<1>8. ASSUME Redial(c) PROVE Good
  BY <1>8 DEF Redial, Goto, poolVars
<1>9. ASSUME Bootstrap(c) PROVE Good
  BY <1>9 DEF Bootstrap, Goto, poolVars
<1>10. ASSUME Publish(c) PROVE Good
  BY <1>10 DEF Publish, Goto, Return, worldVars
<1>11. ASSUME Remove(c) PROVE Good
  BY <1>11 DEF Remove, Goto, Finish, Resumed, worldVars
<1>12. ASSUME Close(c) PROVE Good
  BY <1>12 DEF Close, Goto, poolVars
<1>13. ASSUME Refill(c) PROVE Good
  BY <1>13 DEF Refill, Goto, Finish, Resumed, worldVars
<1>14. ASSUME Drain(c) PROVE Good
  BY <1>14 DEF Drain, Goto, Return
<1>15. ASSUME Abandon(c) PROVE Good
  BY <1>15 DEF Abandon, Goto, Return, poolVars
<1> HIDE DEF Good
<1>16. Good
  BY <1>1, <1>2, <1>3, <1>4, <1>5, <1>6, <1>7, <1>8, <1>9, <1>10, <1>11, <1>12, <1>13, <1>14, <1>15 DEF CallStep
<1> QED  BY <1>16 DEF Good

LEMMA ActiveFinite ==
  ASSUME TypeInv PROVE Active \subseteq Slots
BY TypeFacts DEF Active

LEMMA AccountedInductive ==
  TypeInv /\ TypeInv' /\ PlaceInv /\ SerialInv /\ Accounted /\ [Next]_vars
    => Accounted'
<1> SUFFICES ASSUME TypeInv, TypeInv', PlaceInv, InSerial, Accounted, serial,
                    [Next]_vars
             PROVE  /\ IsFiniteSet(Holders')
                    /\ PoolSize = idle' + Cardinality(Active') + Cardinality(Holders')
  <2>1. [Next]_vars => serial' = serial
    BY DEF Next, vars
  <2>2. [Next]_vars /\ serial' => serial
    BY <2>1, Zenon
  <2> QED  BY <2>2 DEF SerialInv, Accounted
<1>0. /\ idle \in Nat /\ idle' \in Nat /\ PoolSize \in Nat
      /\ IsFiniteSet(Holders) /\ Cardinality(Holders) \in Nat
      /\ IsFiniteSet(Active) /\ Cardinality(Active) \in Nat
      /\ PoolSize = idle + Cardinality(Active) + Cardinality(Holders)
  <2>1. idle \in Nat /\ idle' \in Nat /\ PoolSize \in Nat
    BY PoolAssumption DEF TypeInv, TypeOK
  <2>2. /\ IsFiniteSet(Holders)
        /\ PoolSize = idle + Cardinality(Active) + Cardinality(Holders)
    BY DEF Accounted
  <2>3. Cardinality(Holders) \in Nat
    BY <2>2, FS_CardinalityType
  <2>4. IsFiniteSet(Active) /\ Cardinality(Active) \in Nat
    BY SlotsFinite, ActiveFinite
  <2> QED  BY <2>1, <2>2, <2>3, <2>4
<1>1. ASSUME NEW c \in Calls, CallStep(c)
      PROVE  /\ IsFiniteSet(Holders')
             /\ PoolSize = idle' + Cardinality(Active') + Cardinality(Holders')
  <2>1. \A d \in Calls \ {c} : Holds(d)' <=> Holds(d)
    BY <1>1, OthersStay DEF Holds, Failing
  <2>2. ASSUME Holds(c)' <=> Holds(c) PROVE Holders' = Holders
    BY <2>1, <2>2 DEF Holders
  <2>3. ASSUME ~Holds(c), Holds(c)'
        PROVE  /\ IsFiniteSet(Holders')
               /\ Cardinality(Holders') = Cardinality(Holders) + 1
    <3>1. Holders' = Holders \cup {c} /\ c \notin Holders
      BY <2>1, <2>3 DEF Holders
    <3> QED  BY <1>0, <3>1, FS_AddElement
  <2>4. ASSUME Holds(c), ~Holds(c)'
        PROVE  /\ IsFiniteSet(Holders')
               /\ Cardinality(Holders') = Cardinality(Holders) - 1
               /\ Cardinality(Holders') \in Nat
    <3>1. Holders' = Holders \ {c} /\ c \in Holders
      BY <2>1, <2>4 DEF Holders
    <3>2. IsFiniteSet(Holders') /\ Cardinality(Holders') = Cardinality(Holders) - 1
      BY <1>0, <3>1, FS_RemoveElement
    <3> QED  BY <3>2, FS_CardinalityType
  <2>5. active' = active => Active' = Active
    BY DEF Active
  <2>6. CASE (Holds(c)' <=> Holds(c)) /\ active' = active /\ idle' = idle
    BY <1>0, <2>2, <2>5, <2>6
  <2>7. CASE ~Holds(c) /\ Holds(c)' /\ active' = active /\ idle' = idle - 1
    BY <1>0, <2>3, <2>5, <2>7
  <2>8. CASE /\ Holds(c) /\ ~Holds(c)' /\ active' = active
             /\ idle' = IF idle < PoolSize THEN idle + 1 ELSE idle
    BY <1>0, <2>4, <2>5, <2>8
(* What is published leaves the hands of the call for the table.            *)
  <2>9. CASE Holds(c) /\ ~Holds(c)' /\ idle' = idle /\ Publish(c)
    <3>1. /\ pc[c] = "publish" /\ session[c] \in Sessions
          /\ active' = [active EXCEPT ![session[c]] = held[c]]
      BY <2>9, SerialFacts DEF Publish, Return, Goto
    <3>2. /\ active[session[c]] = 0
          /\ held[c] \in Slots /\ held[c] # 0
          /\ \A s \in Sessions : active[s] # held[c]
      BY <3>1, TypeFacts
         DEF InSerial, TableIsClear, PlaceInv, BuiltByOne, BuildPCs
    <3>3. Active' = Active \cup {held[c]} /\ held[c] \notin Active
      <4>1. active'[session[c]] = held[c]
        BY <3>1, TypeFacts
      <4>2. \A s \in Sessions \ {session[c]} : active'[s] = active[s]
        BY <3>1, TypeFacts
      <4> QED  BY <3>1, <3>2, <4>1, <4>2 DEF Active
    <3>4. Cardinality(Active') = Cardinality(Active) + 1
      BY <1>0, <3>3, FS_AddElement
    <3> QED  BY <1>0, <2>4, <2>9, <3>4
(* What is removed goes from the table into the hands of the call.          *)
  <2>10. CASE /\ ~Holds(c) /\ Holds(c)' /\ idle' = idle /\ Remove(c)
              /\ active[session[c]] # 0
    <3>1. op[c] # "stop" /\ session[c] \in Sessions
      BY <2>10, SerialFacts DEF Remove, InSerial, OneCallPerSession
    <3>2. active' = [s \in Sessions |-> IF s \in {session[c]} THEN 0 ELSE active[s]]
      BY <2>10, <3>1 DEF Remove
    <3>3. \A s \in Sessions : active[s] = active[session[c]] => s = session[c]
      BY <2>10, <3>1 DEF PlaceInv, BearsItsSession
    <3>4. Active' = Active \ {active[session[c]]}
      <4>1. active'[session[c]] = 0
        BY <3>1, <3>2
      <4>2. \A s \in Sessions \ {session[c]} : active'[s] = active[s]
        BY <3>2
      <4> QED  BY <2>10, <3>1, <3>3, <4>1, <4>2 DEF Active
    <3>5. active[session[c]] \in Active
      BY <2>10, <3>1 DEF Active
    <3>6. Cardinality(Active') = Cardinality(Active) - 1
      BY <1>0, <3>4, <3>5, FS_RemoveElement
    <3> QED  BY <1>0, <2>3, <2>10, <3>6
  <2> QED  BY <1>1, <2>6, <2>7, <2>8, <2>9, <2>10, Trades
<1>2. ASSUME NEW i \in Slots, Disconnect(i)
      PROVE  Holders' = Holders /\ Active' = Active /\ idle' = idle
  <2>1. UNCHANGED <<poolVars, callVars>>
    BY <1>2, DisconnectMovesConnections
  <2> QED
    BY <2>1 DEF Holders, Holds, Failing, Active, poolVars, callVars
<1>3. CASE UNCHANGED vars
  <2>1. Holders' = Holders /\ Active' = Active /\ idle' = idle
    BY <1>3 DEF Holders, Holds, Failing, Active, vars, poolVars, callVars
  <2> QED  BY <1>0, <2>1
<1> QED  BY <1>0, <1>1, <1>2, <1>3 DEF Next, AllReturned

(* With one call per session at a time, the idle slots, the entries of the  *)
(* table and the calls that hold or lost a slot add up to the pool size:    *)
(* slots are lost only by the calls named, one by each.  The gauge of       *)
(* stats() is the number of idle slots, however the calls interleave.       *)
THEOREM SlotsAddUp == Spec => []SlotsAccounted
<1>1. Init => Accounted
  <2> SUFFICES ASSUME Init PROVE Accounted
    OBVIOUS
  <2>1. Holders = {} /\ Active = {} /\ idle = PoolSize
    BY DEF Init, Holders, Holds, Failing, Active, BuildPCs
  <2> QED  BY <2>1, FS_EmptySet, PoolAssumption DEF Accounted
<1>2. TypeInv /\ Accounted => SlotsAccounted
  BY DEF TypeInv, Gauge, Accounted, SlotsAccounted, Holders, Holds
<1> QED
  BY <1>1, <1>2, TypeAlways, PlaceAlways, SerialAlways, AccountedInductive, PTL
     DEF Spec
=============================================================================
