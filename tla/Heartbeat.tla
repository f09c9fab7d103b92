------------------------------- MODULE Heartbeat -------------------------------
(***************************************************************************)
(* Whether the daemon is alive: HeartbeatTracker (src/src/heartbeat.rs),    *)
(* the pingers that Client::connect starts and the pongs that route_inbound *)
(* notes (src/src/client.rs).                                               *)
(*                                                                         *)
(* Time passes in ticks of 5 seconds, the least period of a pinger.  The    *)
(* grace period is 4 ticks, the default threshold 3.  No tick passes while  *)
(* a pinger, an answer or a poll of wait_for_alive is due.                  *)
(***************************************************************************)
EXTENDS Naturals, Sequences, SequencesExt

CONSTANTS
  Intervals,       \* heartbeat_interval_ms of an acknowledgement; 0 is none
  Thresholds,      \* alive thresholds, the default one among them
  Timeouts,        \* of wait_for_alive; 0 is the default
  Delay,           \* a daemon that is well answers a ping within it
  MaxConnections,  \* bound on the connections made
  Horizon          \* ages beyond it are not told apart

Grace == 4
DefaultThreshold == 3
DefaultTimeout == 6

VARIABLES
  link,       \* is_connection_alive
  interval,   \* that of the acknowledgement of the last connection, 0 before
  pingers,    \* the pinger tasks: period, and ticks left to sleep
  tracking,   \* there is a tracker
  threshold,  \* its alive_threshold
  age,        \* ticks since its start_time
  silent,     \* ticks since its last heartbeat, or its start
  waiting,    \* the wait_for_alive under way, if any: ticks to its deadline
  well,       \* the daemon answers
  due,        \* when pongs under way will have arrived
  healthy,    \* ticks for which the link was up and the daemon well
  quiet,      \* ticks since the daemon fell silent
  made        \* connections made so far

trackerVars == <<tracking, threshold, age, silent, waiting>>
netVars == <<link, interval, pingers, made>>
daemonVars == <<well, due, healthy, quiet>>
vars == <<netVars, trackerVars, daemonVars>>

Ages == 0..Horizon
Older(t) == IF t = Horizon THEN t ELSE t + 1

NotWaiting == Horizon + 1
PeriodOf(i) == IF i = 0 THEN 1 ELSE i
Periods == {PeriodOf(i) : i \in Intervals}

TypeOK ==
  /\ link \in BOOLEAN
  /\ interval \in Intervals
  /\ \A n \in 1..Len(pingers) :
       pingers[n].period \in Periods /\ pingers[n].left \in 0..pingers[n].period
  /\ tracking \in BOOLEAN
  /\ threshold \in Thresholds
  /\ age \in Ages
  /\ silent \in Ages /\ silent <= age
  /\ waiting \in 0..NotWaiting
  /\ well \in BOOLEAN
  /\ due \subseteq 0..Delay
  /\ healthy \in Ages
  /\ quiet \in Ages
  /\ made \in 0..MaxConnections

Init ==
  /\ link = FALSE
  /\ interval = 0
  /\ pingers = <<>>
  /\ tracking = FALSE
  /\ threshold = DefaultThreshold
  /\ age = 0
  /\ silent = 0
  /\ waiting = NotWaiting
  /\ well = TRUE
  /\ due = {}
  /\ healthy = 0
  /\ quiet = 0
  /\ made = 0

-----------------------------------------------------------------------------
(* Connections, pings and pongs.                                            *)

(* connect dials.  The tracker is left alone, and so are the pingers of     *)
(* earlier connections, which may sleep through the change.                 *)
dial ==
  /\ ~link
  /\ made < MaxConnections
  /\ made' = made + 1
  /\ link' = TRUE
  /\ interval' = 0
  /\ healthy' = 0
  /\ UNCHANGED <<pingers, trackerVars, well, due, quiet>>

NewPinger(i) == [period |-> PeriodOf(i), left |-> PeriodOf(i)]

(* Mutant of acknowledge: a pinger is started unless there is one.          *)
AcknowledgeOnePinger(i) ==
  /\ link
  /\ interval = 0
  /\ i > 0
  /\ interval' = i
  /\ healthy' = 0
  /\ pingers' = IF pingers = <<>> THEN <<NewPinger(i)>> ELSE pingers
  /\ UNCHANGED <<link, made, trackerVars, well, due, quiet>>

(* The acknowledgement that connect waits for starts a pinger.  One that    *)
(* has no interval, or never comes, leaves the link up without.             *)
acknowledge(i) ==
  /\ link
  /\ interval = 0
  /\ i > 0
  /\ interval' = i
  /\ healthy' = 0
  /\ pingers' = Append(pingers, NewPinger(i))
  /\ UNCHANGED <<link, made, trackerVars, well, due, quiet>>

Disconnect ==
  /\ link
  /\ link' = FALSE
  /\ due' = {}
  /\ healthy' = 0
  /\ UNCHANGED <<interval, pingers, made, trackerVars, well, quiet>>

(* A pinger that wakes up on a dead connection ends.                        *)
Ping(n) ==
  /\ pingers[n].left = 0
  /\ pingers' = IF link THEN [pingers EXCEPT ![n].left = pingers[n].period]
                        ELSE RemoveAt(pingers, n)
  /\ due' = IF link /\ well THEN due \cup {Delay} ELSE due
  /\ UNCHANGED <<link, interval, made, trackerVars, well, healthy, quiet>>

Heard == silent' = IF tracking THEN 0 ELSE silent

(* route_inbound notes a pong.                                              *)
note_pong ==
  /\ \E d \in due : due' = due \ {d}
  /\ Heard
  /\ UNCHANGED <<netVars, tracking, threshold, age, waiting, well, healthy,
                 quiet>>

(* A frame whose namespace or type mentions heartbeat.                      *)
update ==
  /\ link
  /\ well
  /\ Heard
  /\ UNCHANGED <<netVars, tracking, threshold, age, waiting, daemonVars>>

-----------------------------------------------------------------------------
(* The tracker.                                                             *)

TrackerOnly == UNCHANGED <<netVars, daemonVars>>

(* A new tracker takes the place of the current one.                        *)
enable_heartbeat_tracking(t) ==
  /\ tracking' = TRUE
  /\ threshold' = t
  /\ age' = 0
  /\ silent' = 0
  /\ waiting' = NotWaiting
  /\ TrackerOnly

disable_heartbeat_tracking ==
  /\ tracking
  /\ tracking' = FALSE
  /\ age' = 0
  /\ silent' = 0
  /\ waiting' = NotWaiting
  /\ threshold' = DefaultThreshold
  /\ TrackerOnly

set_alive_threshold(t) ==
  /\ tracking
  /\ threshold' = t
  /\ UNCHANGED <<tracking, age, silent, waiting>>
  /\ TrackerOnly

reset ==
  /\ tracking
  /\ age' = 0
  /\ silent' = 0
  /\ UNCHANGED <<tracking, threshold, waiting>>
  /\ TrackerOnly

(* Mutant of get_health: the grace period starts anew with every heartbeat. *)
AliveInGrace == silent < threshold \/ silent < Grace

get_health == silent < threshold \/ age < Grace

is_daemon_alive == tracking => get_health

wait_for_alive(timeout) ==
  /\ tracking
  /\ waiting = NotWaiting
  /\ waiting' = IF timeout = 0 THEN DefaultTimeout ELSE timeout
  /\ UNCHANGED <<tracking, threshold, age, silent>>
  /\ TrackerOnly

(* It polls every second, and answers at the latest at its deadline.        *)
PollDue == waiting # NotWaiting /\ (get_health \/ waiting = 0)

Poll ==
  /\ PollDue
  /\ waiting' = NotWaiting
  /\ UNCHANGED <<tracking, threshold, age, silent>>
  /\ TrackerOnly

-----------------------------------------------------------------------------
(* The daemon may hang, with or without the answers it owes, and recover.   *)

Hang ==
  /\ well
  /\ well' = FALSE
  /\ due' \in SUBSET due
  /\ healthy' = 0
  /\ quiet' = 0
  /\ UNCHANGED <<netVars, trackerVars>>

Recover ==
  /\ ~well
  /\ well' = TRUE
  /\ due' \in {due, IF link THEN due \cup {Delay} ELSE due}
  /\ quiet' = 0
  /\ UNCHANGED <<netVars, trackerVars, healthy>>

Tick ==
  /\ 0 \notin due
  /\ \A n \in 1..Len(pingers) : pingers[n].left # 0
  /\ ~PollDue
  /\ due' = {d - 1 : d \in due}
  /\ pingers' = [n \in 1..Len(pingers) |->
                   [pingers[n] EXCEPT !.left = pingers[n].left - 1]]
  /\ age' = IF tracking THEN Older(age) ELSE age
  /\ silent' = IF tracking THEN Older(silent) ELSE silent
  /\ waiting' = IF waiting = NotWaiting THEN waiting ELSE waiting - 1
  /\ healthy' = IF link /\ well THEN Older(healthy) ELSE healthy
  /\ quiet' = IF well THEN quiet ELSE Older(quiet)
  /\ UNCHANGED <<link, interval, made, tracking, threshold, well>>

Next ==
  \/ dial
  \/ \E i \in Intervals : acknowledge(i)
  \/ Disconnect
  \/ \E n \in 1..Len(pingers) : Ping(n)
  \/ note_pong
  \/ update
  \/ \E t \in Thresholds : enable_heartbeat_tracking(t) \/ set_alive_threshold(t)
  \/ disable_heartbeat_tracking
  \/ reset
  \/ \E t \in Timeouts : wait_for_alive(t)
  \/ Poll
  \/ Hang
  \/ Recover
  \/ Tick

-----------------------------------------------------------------------------
(* Properties.                                                              *)

(* A daemon that is well is not reported dead once the connection has had   *)
(* the time for a ping and its answer, over reconnects, changes of the      *)
(* tracker and of its threshold, if the threshold allows for both.          *)
NoFalseAlarm ==
  /\ interval > 0
  /\ PeriodOf(interval) + Delay < threshold
  /\ healthy > PeriodOf(interval) + Delay
  => is_daemon_alive

(* A daemon that has fallen silent is reported dead, past the threshold,    *)
(* the answers under way and the grace period of the tracker, once the      *)
(* tracker itself is older than its threshold.                              *)
SilenceIsNoticed ==
  /\ tracking /\ ~well
  /\ quiet >= threshold + Delay
  /\ age >= threshold /\ age >= Grace
  => ~is_daemon_alive

=============================================================================
