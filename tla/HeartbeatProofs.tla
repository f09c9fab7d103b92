---------------------------- MODULE HeartbeatProofs ----------------------------
(***************************************************************************)
(* Theorems about Heartbeat as an instance of it is composed in             *)
(* MCInboundQueue, for every set of intervals, thresholds and timeouts,     *)
(* every delay of the daemon's answers and every horizon.                   *)
(***************************************************************************)
EXTENDS MCInboundQueue, InboundQueueProofs

Pinger == [period : Beat!Periods, left : Nat]

BeatType == Beat!TypeOK /\ pingers \in Seq(Pinger)

(* Only a connection to a daemon that is well counts as healthy.            *)
HealthyIsUp == healthy > 0 => link /\ well

(* What a pinger promises that sleeps for left, with the pongs of D under   *)
(* way: it is to ping, or a pong arrives, early enough for the last         *)
(* heartbeat, or for the time that all has been well when there was none    *)
(* since.                                                                   *)
Promises(left, D, s, h, p) ==
  \/ s + left <= p
  \/ h + left <= p
  \/ \E d \in D : s + d <= p + Delay
  \/ \E d \in D : h + d <= p + Delay

(* The connection has a pinger of its own period.                           *)
HasPinger ==
  link /\ interval > 0 =>
    \E n \in 1..Len(pingers) : pingers[n].period = Beat!PeriodOf(interval)

(* Such a pinger keeps the tracker of a daemon that is well informed.       *)
Serves(P, n, D, s, h, p) ==
  /\ n \in 1..Len(P)
  /\ P[n].period = p
  /\ Promises(P[n].left, D, s, h, p)

PingerServes ==
  link /\ interval > 0 /\ tracking /\ well =>
    \E n : Serves(pingers, n, due, silent, healthy, Beat!PeriodOf(interval))

(* A daemon that is not well answers what it was asked before, if at all.   *)
(* Since then the tracker has heard nothing, unless it is younger.          *)
SilenceCounts ==
  ~well =>
    /\ \A d \in due : d + quiet <= Delay
    /\ tracking => silent >= age \/ silent + Delay >= quiet

BeatInv == BeatType /\ HealthyIsUp /\ HasPinger /\ PingerServes /\ SilenceCounts

-----------------------------------------------------------------------------
(* Types.                                                                   *)

LEMMA Constants ==
  /\ Intervals \subseteq Nat /\ Thresholds \subseteq Nat
  /\ Horizon \in Nat /\ Delay \in Nat /\ MaxConnections \in Nat
  /\ Beat!Periods \subseteq Nat \ {0}
  /\ \A i \in Intervals : Beat!PeriodOf(i) \in Beat!Periods
BY BeatAssumption DEF Beat!Periods, Beat!PeriodOf

LEMMA OlderType ==
  ASSUME NEW t \in Beat!Ages
  PROVE  /\ Beat!Older(t) \in Beat!Ages
         /\ t <= Beat!Older(t) /\ Beat!Older(t) <= t + 1
         /\ \A u \in Beat!Ages : u <= t => Beat!Older(u) <= Beat!Older(t)
BY Constants DEF Beat!Ages, Beat!Older

LEMMA RemovedPinger ==
  ASSUME NEW s \in Seq(Pinger), NEW n \in 1..Len(s)
  PROVE  /\ Beat!RemoveAt(s, n) \in Seq(Pinger)
         /\ \A m \in 1..Len(Beat!RemoveAt(s, n)) :
              \E k \in 1..Len(s) : Beat!RemoveAt(s, n)[m] = s[k]
<1>1. Beat!RemoveAt(s, n) = RemoveAt(s, n)
  BY DEF Beat!RemoveAt, RemoveAt
<1>2. /\ RemoveAt(s, n) \in Seq(Pinger)
      /\ Len(RemoveAt(s, n)) = Len(s) - 1
      /\ \A j \in 1..(Len(s) - 1) :
           RemoveAt(s, n)[j] = IF j < n THEN s[j] ELSE s[j + 1]
  BY RemoveAtType, RemoveAtProperties
<1>3. \A j \in 1..(Len(s) - 1) : j \in 1..Len(s) /\ j + 1 \in 1..Len(s)
  OBVIOUS
<1> QED  BY <1>1, <1>2, <1>3

(* The type invariant in three parts.                                       *)
PingersTyped ==
  /\ pingers \in Seq(Pinger)
  /\ \A n \in 1..Len(pingers) : pingers[n].left <= pingers[n].period

FlagsTyped == link \in BOOLEAN /\ tracking \in BOOLEAN /\ well \in BOOLEAN

NumbersTyped ==
  /\ interval \in Intervals
  /\ threshold \in Thresholds
  /\ age \in Beat!Ages
  /\ silent \in Beat!Ages /\ silent <= age
  /\ waiting \in 0..Beat!NotWaiting
  /\ due \subseteq 0..Delay
  /\ healthy \in Beat!Ages
  /\ quiet \in Beat!Ages
  /\ made \in 0..MaxConnections

LEMMA BeatTypeParts ==
  /\ BeatType <=> PingersTyped /\ FlagsTyped /\ NumbersTyped
  /\ BeatType' <=> PingersTyped' /\ FlagsTyped' /\ NumbersTyped'
<1>1. ASSUME NEW s \in Seq(Pinger)
      PROVE  (\A n \in 1..Len(s) :
                s[n].period \in Beat!Periods /\ s[n].left \in 0..s[n].period)
             <=> (\A n \in 1..Len(s) : s[n].left <= s[n].period)
  <2>1. \A n \in 1..Len(s) : s[n] \in Pinger
    OBVIOUS
  <2>2. \A x \in Pinger : /\ x.period \in Beat!Periods /\ x.period \in Nat
                         /\ x.left \in Nat
    BY Constants DEF Pinger
  <2>3. \A l, p \in Nat : l \in 0..p <=> l <= p
    OBVIOUS
  <2> QED  BY <2>1, <2>2, <2>3
<1>2. /\ BeatType <=> Beat!TypeOK /\ pingers \in Seq(Pinger)
      /\ BeatType' <=> Beat!TypeOK' /\ pingers' \in Seq(Pinger)
  BY DEF BeatType
<1> QED
  BY <1>1, <1>2 DEF Beat!TypeOK, PingersTyped, FlagsTyped, NumbersTyped

LEMMA PingersStep ==
  ASSUME BeatType, Beat!Next PROVE PingersTyped'
<1>0. PingersTyped
  BY BeatTypeParts
<1>1. ASSUME NEW i \in Intervals, Beat!acknowledge(i) PROVE PingersTyped'
  <2> DEFINE p == Beat!NewPinger(i)
  <2>1. p \in Pinger /\ p.left <= p.period
    <3>1. p = [period |-> Beat!PeriodOf(i), left |-> Beat!PeriodOf(i)]
      BY DEF Beat!NewPinger
    <3>2. Beat!PeriodOf(i) \in Beat!Periods /\ Beat!PeriodOf(i) \in Nat
      BY Constants
    <3> HIDE DEF p
    <3> QED  BY <3>1, <3>2 DEF Pinger
  <2> HIDE DEF p
  <2>2. pingers' = Append(pingers, p)
    BY <1>1 DEF Beat!acknowledge, p
  <2> QED  BY <1>0, <2>1, <2>2 DEF PingersTyped
<1>2. ASSUME NEW n \in 1..Len(pingers), Beat!Ping(n) PROVE PingersTyped'
  <2>1. CASE pingers' = [pingers EXCEPT ![n].left = pingers[n].period]
    <3> DEFINE q == [pingers[n] EXCEPT !.left = pingers[n].period]
    <3>1. pingers[n] \in Pinger
      BY <1>0 DEF PingersTyped
    <3>2. q \in Pinger /\ q.left <= q.period
      BY <3>1, Constants DEF Pinger
    <3>3. pingers' = [pingers EXCEPT ![n] = q]
      BY <1>0, <2>1 DEF PingersTyped
    <3> HIDE DEF q
    <3> QED  BY <1>0, <3>2, <3>3 DEF PingersTyped
  <2>2. CASE pingers' = Beat!RemoveAt(pingers, n)
    BY <1>0, <2>2, RemovedPinger DEF PingersTyped
  <2> QED  BY <1>2, <2>1, <2>2 DEF Beat!Ping
<1>3. CASE Beat!Tick
  <2>1. \A n \in 1..Len(pingers) : pingers[n] \in Pinger /\ pingers[n].left # 0
    BY <1>0, <1>3 DEF Beat!Tick, PingersTyped
  <2> DEFINE q(n) == [pingers[n] EXCEPT !.left = pingers[n].left - 1]
  <2>2. \A n \in 1..Len(pingers) : q(n) \in Pinger /\ q(n).left <= q(n).period
    <3> SUFFICES ASSUME NEW n \in 1..Len(pingers)
                 PROVE  q(n) \in Pinger /\ q(n).left <= q(n).period
      OBVIOUS
    <3>1. /\ pingers[n].period \in Beat!Periods /\ pingers[n].period \in Nat
          /\ pingers[n].left \in Nat \ {0}
          /\ pingers[n].left <= pingers[n].period
          /\ pingers[n] = [period |-> pingers[n].period, left |-> pingers[n].left]
      BY <1>0, <2>1, Constants DEF PingersTyped, Pinger
    <3>2. q(n) = [period |-> pingers[n].period, left |-> pingers[n].left - 1]
      BY <3>1
    <3>3. pingers[n].left - 1 \in Nat /\ pingers[n].left - 1 <= pingers[n].period
      BY <3>1
    <3> QED  BY <3>1, <3>2, <3>3 DEF Pinger
  <2>3. pingers' = [n \in 1..Len(pingers) |-> q(n)]
    BY <1>3 DEF Beat!Tick
  <2> HIDE DEF q
  <2>4. Len(pingers) \in Nat
    BY <1>0 DEF PingersTyped
  <2>5. pingers' \in Seq(Pinger) /\ Len(pingers') = Len(pingers)
    BY <2>2, <2>3, <2>4
  <2> QED  BY <2>2, <2>3, <2>5 DEF PingersTyped
<1>4. CASE UNCHANGED pingers
  BY <1>0, <1>4 DEF PingersTyped
<1> QED
  BY <1>1, <1>2, <1>3, <1>4
     DEF Beat!Next, Beat!dial, Beat!Disconnect, Beat!note_pong, Beat!update,
         Beat!enable_heartbeat_tracking, Beat!set_alive_threshold,
         Beat!disable_heartbeat_tracking, Beat!reset, Beat!wait_for_alive,
         Beat!Poll, Beat!Hang, Beat!Recover, Beat!TrackerOnly, Beat!netVars

LEMMA FlagsStep ==
  ASSUME FlagsTyped, Beat!Next PROVE FlagsTyped'
<1>1. /\ link' \in {link, TRUE, FALSE}
      /\ tracking' \in {tracking, TRUE, FALSE}
      /\ well' \in {well, TRUE, FALSE}
  <2> USE DEF Beat!trackerVars, Beat!netVars, Beat!daemonVars, Beat!TrackerOnly
  <2>0. CASE Beat!dial
    BY <2>0 DEF Beat!dial
  <2>1. ASSUME NEW i \in Intervals, Beat!acknowledge(i) PROVE <1>1!:
    BY <2>1 DEF Beat!acknowledge
  <2>2. CASE Beat!Disconnect
    BY <2>2 DEF Beat!Disconnect
  <2>3. ASSUME NEW n \in 1..Len(pingers), Beat!Ping(n) PROVE <1>1!:
    BY <2>3 DEF Beat!Ping
  <2>4. CASE Beat!note_pong \/ Beat!update
    BY <2>4 DEF Beat!note_pong, Beat!update
  <2>5. ASSUME NEW t \in Thresholds,
               Beat!enable_heartbeat_tracking(t) \/ Beat!set_alive_threshold(t)
        PROVE  <1>1!:
    BY <2>5 DEF Beat!enable_heartbeat_tracking, Beat!set_alive_threshold
  <2>6. CASE Beat!disable_heartbeat_tracking \/ Beat!reset
    BY <2>6 DEF Beat!disable_heartbeat_tracking, Beat!reset
  <2>7. ASSUME NEW t \in Timeouts, Beat!wait_for_alive(t) PROVE <1>1!:
    BY <2>7 DEF Beat!wait_for_alive
  <2>8. CASE Beat!Poll \/ Beat!Tick
    BY <2>8 DEF Beat!Poll, Beat!Tick
  <2>9. CASE Beat!Hang \/ Beat!Recover
    BY <2>9 DEF Beat!Hang, Beat!Recover
  <2> QED
    BY <2>0, <2>1, <2>2, <2>3, <2>4, <2>5, <2>6, <2>7, <2>8, <2>9 DEF Beat!Next
<1> QED  BY <1>1 DEF FlagsTyped

LEMMA NumbersStep ==
  ASSUME BeatType, Beat!Next PROVE NumbersTyped'
<1>0. NumbersTyped
  BY BeatTypeParts
<1>a. /\ 0 \in Beat!Ages /\ 0 \in 0..MaxConnections
      /\ Beat!NotWaiting \in 0..Beat!NotWaiting
      /\ Beat!DefaultThreshold \in Thresholds
  BY BeatAssumption DEF Beat!Ages, Beat!NotWaiting
<1>b. /\ \A S \in SUBSET (0..Delay) : S \cup {Delay} \subseteq 0..Delay
      /\ \A S \in SUBSET (0..Delay) : \A d : S \ {d} \subseteq 0..Delay
  <2>1. Delay \in 0..Delay
    BY Constants
  <2> QED  BY <2>1
<1> USE <1>0, <1>a
    DEF NumbersTyped, Beat!trackerVars, Beat!netVars, Beat!daemonVars,
        Beat!TrackerOnly
<1>d. CASE Beat!dial
  <2>1. 0 \in Intervals /\ made + 1 \in 0..MaxConnections
    BY <1>d, Constants, BeatAssumption DEF Beat!dial
  <2> QED  BY <1>d, <2>1 DEF Beat!dial
<1>1. ASSUME NEW i \in Intervals, Beat!acknowledge(i) PROVE NumbersTyped'
  BY <1>1 DEF Beat!acknowledge
<1>2. CASE Beat!Disconnect
  BY <1>2 DEF Beat!Disconnect
<1>3. ASSUME NEW n \in 1..Len(pingers), Beat!Ping(n) PROVE NumbersTyped'
  BY <1>3, <1>b DEF Beat!Ping
<1>c. ASSUME Beat!Heard
      PROVE  silent' \in Beat!Ages /\ silent' <= age
  <2>1. silent' \in {0, silent}
    BY <1>c DEF Beat!Heard
  <2> QED  BY <2>1 DEF Beat!Ages
<1>4. CASE Beat!note_pong
  <2>1. due' \subseteq due
    BY <1>4 DEF Beat!note_pong
  <2>2. due' \subseteq 0..Delay
    BY <2>1
  <2> QED  BY <1>4, <1>c, <2>2 DEF Beat!note_pong
<1>5. CASE Beat!update
  BY <1>5, <1>c DEF Beat!update
<1>6. ASSUME NEW t \in Thresholds, Beat!enable_heartbeat_tracking(t)
      PROVE  NumbersTyped'
  BY <1>6, 0 <= 0 DEF Beat!enable_heartbeat_tracking
<1>7. ASSUME NEW t \in Thresholds, Beat!set_alive_threshold(t)
      PROVE  NumbersTyped'
  BY <1>7 DEF Beat!set_alive_threshold
<1>8. CASE Beat!disable_heartbeat_tracking
  BY <1>8, 0 <= 0 DEF Beat!disable_heartbeat_tracking
<1>9. CASE Beat!reset
  BY <1>9, 0 <= 0 DEF Beat!reset
<1>10. ASSUME NEW t \in Timeouts, Beat!wait_for_alive(t) PROVE NumbersTyped'
  <2>1. waiting' \in 0..Beat!NotWaiting
    BY <1>10, BeatAssumption
       DEF Beat!wait_for_alive, Beat!DefaultTimeout, Beat!NotWaiting
  <2> QED  BY <1>10, <2>1 DEF Beat!wait_for_alive
<1>11. CASE Beat!Poll
  BY <1>11 DEF Beat!Poll
<1>12. CASE Beat!Hang
  <2>1. due' \subseteq 0..Delay
    BY <1>12 DEF Beat!Hang
  <2> QED  BY <1>12, <2>1 DEF Beat!Hang
<1>13. CASE Beat!Recover
  <2>1. due' = due \/ due' = due \cup {Delay}
    BY <1>13 DEF Beat!Recover
  <2>2. due' \subseteq 0..Delay
    BY <2>1, <1>b
  <2> QED  BY <1>13, <2>2 DEF Beat!Recover
<1>14. CASE Beat!Tick
  <2>1. /\ age' \in Beat!Ages /\ silent' \in Beat!Ages /\ silent' <= age'
        /\ healthy' \in Beat!Ages /\ quiet' \in Beat!Ages
    BY <1>14, OlderType DEF Beat!Tick
  <2>2. due' \subseteq 0..Delay
    <3>1. 0 \notin due /\ due' = {d - 1 : d \in due}
      BY <1>14 DEF Beat!Tick
    <3>2. \A d \in 0..Delay : d # 0 => d - 1 \in 0..Delay
      BY Constants
    <3> QED  BY <3>1, <3>2
  <2>3. waiting' \in 0..Beat!NotWaiting
    <3>1. /\ ~Beat!PollDue
          /\ waiting' = IF waiting = Beat!NotWaiting THEN waiting ELSE waiting - 1
      BY <1>14 DEF Beat!Tick
    <3>2. waiting # Beat!NotWaiting => waiting # 0
      BY <3>1 DEF Beat!PollDue
    <3>3. waiting \in Nat /\ waiting <= Beat!NotWaiting /\ Beat!NotWaiting \in Nat
      BY Constants DEF Beat!NotWaiting
    <3> QED  BY <3>1, <3>2, <3>3
  <2> QED  BY <1>14, <2>1, <2>2, <2>3 DEF Beat!Tick
<1> QED
  BY <1>1, <1>2, <1>3, <1>4, <1>5, <1>6, <1>7, <1>8, <1>9, <1>10, <1>11,
     <1>12, <1>13, <1>14, <1>d DEF Beat!Next

LEMMA BeatTypeStep ==
  ASSUME BeatType, Beat!Next PROVE BeatType'
<1>1. FlagsTyped'
  BY FlagsStep, BeatTypeParts
<1> QED  BY <1>1, PingersStep, NumbersStep, BeatTypeParts

-----------------------------------------------------------------------------
(* The daemon that is well is known to be.                                  *)

LEMMA HealthyStep ==
  ASSUME BeatType, HealthyIsUp, Beat!Next PROVE HealthyIsUp'
<1>1. healthy \in Nat
  BY BeatTypeParts, Constants DEF NumbersTyped, Beat!Ages
<1> USE <1>1
    DEF HealthyIsUp, Beat!trackerVars, Beat!netVars, Beat!daemonVars,
        Beat!TrackerOnly
<1>2. CASE healthy' = 0
  BY <1>2
<1>3. CASE UNCHANGED <<healthy, link, well>>
  BY <1>3
<1>4. CASE Beat!Tick
  <2>1. CASE link /\ well
    BY <1>4, <2>1 DEF Beat!Tick
  <2>2. CASE ~(link /\ well)
    <3>1. healthy' = healthy /\ link' = link /\ well' = well
      BY <1>4, <2>2 DEF Beat!Tick
    <3> QED  BY <3>1
  <2> QED  BY <2>1, <2>2
<1>5. CASE Beat!Recover
  <2>1. healthy = 0
    BY <1>5 DEF Beat!Recover
  <2> QED  BY <1>5, <2>1 DEF Beat!Recover
<1> QED
  BY <1>2, <1>3, <1>4, <1>5
     DEF Beat!Next, Beat!dial, Beat!acknowledge, Beat!Disconnect, Beat!Ping,
         Beat!note_pong, Beat!update, Beat!enable_heartbeat_tracking,
         Beat!set_alive_threshold, Beat!disable_heartbeat_tracking, Beat!reset,
         Beat!wait_for_alive, Beat!Poll, Beat!Hang

LEMMA PromiseKept ==
  ASSUME NEW s \in Nat, NEW h \in Nat, NEW left \in Nat, NEW p \in Nat,
         NEW D \in SUBSET Nat, Promises(left, D, s, h, p),
         NEW s2 \in Nat, NEW h2 \in Nat, s2 <= s + 1, h2 <= h + 1,
         left # 0, 0 \notin D
  PROVE  Promises(left - 1, {d - 1 : d \in D}, s2, h2, p)
<1> USE Constants DEF Promises
<1>1. CASE s + left <= p
  BY <1>1
<1>2. CASE h + left <= p
  BY <1>2
<1>3. ASSUME NEW d \in D, s + d <= p + Delay
      PROVE  \E e \in {x - 1 : x \in D} : s2 + e <= p + Delay
  <2>1. s2 + (d - 1) <= p + Delay
    BY <1>3
  <2> QED  BY <2>1
<1>4. ASSUME NEW d \in D, h + d <= p + Delay
      PROVE  \E e \in {x - 1 : x \in D} : h2 + e <= p + Delay
  <2>1. h2 + (d - 1) <= p + Delay
    BY <1>4
  <2> QED  BY <2>1
<1> QED  BY <1>1, <1>2, <1>3, <1>4

(* The state that a step starts from, for the steps of the pingers.         *)
LEMMA PingerFacts ==
  ASSUME BeatType
  PROVE  /\ pingers \in Seq(Pinger)
         /\ \A n \in 1..Len(pingers) : /\ pingers[n].left <= pingers[n].period
                                       /\ pingers[n].left \in Nat
         /\ Beat!PeriodOf(interval) \in Nat \ {0} /\ interval \in Nat
         /\ silent \in Nat /\ healthy \in Nat /\ due \in SUBSET Nat
<1>1. PingersTyped /\ NumbersTyped
  BY BeatTypeParts
<1>2. \A n \in 1..Len(pingers) : pingers[n] \in Pinger
  BY <1>1 DEF PingersTyped
<1>3. 0..Delay \subseteq Nat /\ 0..Horizon \subseteq Nat
  BY Constants
<1> QED
  BY <1>1, <1>2, <1>3, Constants
     DEF PingersTyped, NumbersTyped, Pinger, Beat!Ages

LEMMA HasPingerStep ==
  ASSUME BeatType, HasPinger, Beat!Next PROVE HasPinger'
<1> DEFINE Good == \A n \in 1..Len(pingers) :
                     \E m \in 1..Len(pingers') :
                       pingers'[m].period = pingers[n].period
<1>1. ASSUME interval' = interval, link' => link, ~link' \/ Good
      PROVE  HasPinger'
  BY <1>1 DEF HasPinger, Beat!PeriodOf
<1>a. CASE Beat!dial
  BY <1>a DEF Beat!dial, HasPinger
<1>2. ASSUME NEW i \in Intervals, Beat!acknowledge(i) PROVE HasPinger'
  <2>1. pingers' = Append(pingers, Beat!NewPinger(i)) /\ interval' = i
    BY <1>2 DEF Beat!acknowledge
  <2>2. /\ Len(pingers) + 1 \in 1..Len(pingers')
        /\ pingers'[Len(pingers) + 1] = Beat!NewPinger(i)
    BY <2>1, PingerFacts
  <2>3. pingers'[Len(pingers) + 1].period = Beat!PeriodOf(i)
    BY <2>2 DEF Beat!NewPinger
  <2> QED  BY <2>1, <2>2, <2>3 DEF HasPinger, Beat!PeriodOf
<1>3. ASSUME NEW n \in 1..Len(pingers), Beat!Ping(n) PROVE HasPinger'
  <2>1. CASE ~link
    BY <1>3, <2>1 DEF Beat!Ping, HasPinger
  <2>2. CASE link
    <3>1. pingers' = [pingers EXCEPT ![n].left = pingers[n].period]
      BY <1>3, <2>2 DEF Beat!Ping
    <3>2. /\ Len(pingers') = Len(pingers)
          /\ \A m \in 1..Len(pingers) : pingers'[m].period = pingers[m].period
      <4>1. \A m \in 1..Len(pingers) : pingers[m] \in Pinger
        BY PingerFacts
      <4> QED  BY <3>1, <4>1, PingerFacts DEF Pinger
    <3>3. interval' = interval /\ link' = link
      BY <1>3 DEF Beat!Ping
    <3> QED  BY <1>1, <3>2, <3>3
  <2> QED  BY <2>1, <2>2
<1>4. CASE Beat!Tick
  <2>1. /\ Len(pingers') = Len(pingers)
        /\ \A m \in 1..Len(pingers) : pingers'[m].period = pingers[m].period
    <3>1. \A m \in 1..Len(pingers) : pingers[m] \in Pinger
      BY PingerFacts
    <3>2. Len(pingers) \in Nat
      BY PingerFacts
    <3>3. pingers' = [n \in 1..Len(pingers) |->
                   [pingers[n] EXCEPT !.left = pingers[n].left - 1]]
      BY <1>4 DEF Beat!Tick
    <3>4. \A x \in Pinger : \A l : [x EXCEPT !.left = l].period = x.period
      BY DEF Pinger
    <3>5. \A m \in 1..Len(pingers) : pingers'[m].period = pingers[m].period
      BY <3>1, <3>3, <3>4
    <3> QED  BY <3>2, <3>3, <3>5
  <2>2. interval' = interval /\ link' = link
    BY <1>4 DEF Beat!Tick
  <2> QED  BY <1>1, <2>1, <2>2
<1>5. CASE Beat!Disconnect
  BY <1>5 DEF Beat!Disconnect, HasPinger
<1>6. CASE UNCHANGED <<link, interval, pingers>>
  BY <1>1, <1>6
<1> QED
  BY <1>a, <1>2, <1>3, <1>4, <1>5, <1>6
     DEF Beat!Next, Beat!note_pong, Beat!update, Beat!netVars,
         Beat!enable_heartbeat_tracking, Beat!set_alive_threshold,
         Beat!disable_heartbeat_tracking, Beat!reset, Beat!TrackerOnly,
         Beat!wait_for_alive, Beat!Poll, Beat!Hang, Beat!Recover

LEMMA PingerServesStep ==
  ASSUME BeatType, HealthyIsUp, HasPinger, PingerServes, Beat!Next
  PROVE  PingerServes'
<1> DEFINE p == Beat!PeriodOf(interval)
<1>t. BeatType' /\ HasPinger'
  BY BeatTypeStep, HasPingerStep
<1>f. /\ pingers' \in Seq(Pinger)
      /\ \A n \in 1..Len(pingers') : /\ pingers'[n].left <= pingers'[n].period
                                     /\ pingers'[n].left \in Nat
      /\ Beat!PeriodOf(interval') \in Nat \ {0}
      /\ silent' \in Nat /\ healthy' \in Nat
  <2>1. PingersTyped' /\ NumbersTyped'
    BY <1>t, BeatTypeParts
  <2>2. \A n \in 1..Len(pingers') : pingers'[n] \in Pinger
    BY <2>1 DEF PingersTyped
  <2>3. 0..Horizon \subseteq Nat
    BY Constants
  <2> QED
    BY <2>1, <2>2, <2>3, Constants
       DEF PingersTyped, NumbersTyped, Pinger, Beat!Ages
<1>1. ASSUME silent' = 0 \/ healthy' = 0 PROVE PingerServes'
  <2> SUFFICES ASSUME link', interval' > 0
               PROVE  \E n : Serves(pingers', n, due', silent', healthy',
                                    Beat!PeriodOf(interval'))
    BY DEF PingerServes, Beat!PeriodOf, Serves, Promises
  <2>1. PICK n \in 1..Len(pingers') :
          pingers'[n].period = Beat!PeriodOf(interval')
    BY <1>t DEF HasPinger, Beat!PeriodOf
  <2>2. Promises(pingers'[n].left, due', silent', healthy',
                 Beat!PeriodOf(interval'))
    BY <1>1, <1>f, <2>1 DEF Promises
  <2> QED  BY <2>1, <2>2 DEF Serves
<1>2. ASSUME ~(link' /\ tracking' /\ well') PROVE PingerServes'
  BY <1>2 DEF PingerServes
<1>3. ASSUME UNCHANGED <<link, interval, tracking, well>>,
             link /\ interval > 0 /\ tracking /\ well =>
               \A n : Serves(pingers, n, due, silent, healthy, p) =>
                        Serves(pingers', n, due', silent', healthy', p)
      PROVE  PingerServes'
  BY <1>3 DEF PingerServes, Serves, Promises, Beat!PeriodOf
<1> HIDE DEF p
<1>4. ASSUME NEW n \in 1..Len(pingers), Beat!Ping(n) PROVE PingerServes'
  <2>1. ASSUME link, well,
               NEW m, Serves(pingers, m, due, silent, healthy, p)
        PROVE  Serves(pingers', m, due', silent', healthy', p)
    <3>1. /\ pingers' = [pingers EXCEPT ![n].left = pingers[n].period]
          /\ due' = due \cup {Delay} /\ silent' = silent /\ healthy' = healthy
          /\ pingers[n].left = 0
      BY <1>4, <2>1
         DEF Beat!Ping, Beat!trackerVars
    <3>2. /\ pingers \in Seq(Pinger) /\ m \in 1..Len(pingers)
          /\ pingers[n] \in Pinger /\ pingers[m] \in Pinger
      BY <2>1, PingerFacts DEF Serves
    <3>3. /\ Len(pingers') = Len(pingers)
          /\ pingers'[m].period = pingers[m].period
          /\ m # n => pingers'[m] = pingers[m]
      BY <3>1, <3>2 DEF Pinger
    <3>4. CASE m # n
      BY <2>1, <3>1, <3>3, <3>4 DEF Serves, Promises
    <3>5. CASE m = n
      <4>1. /\ silent \in Nat /\ healthy \in Nat /\ due \in SUBSET Nat
            /\ p \in Nat /\ Delay \in Nat
        BY PingerFacts, Constants DEF p
      <4>2. Promises(0, due, silent, healthy, p)
        BY <2>1, <3>1, <3>5 DEF Serves
      <4>3. Promises(pingers'[m].left, due', silent', healthy', p)
        <5>0. Delay \in due'
          BY <3>1
        <5>1. silent <= p => silent + Delay <= p + Delay
          BY <4>1
        <5>2. healthy <= p => healthy + Delay <= p + Delay
          BY <4>1
        <5>3. due \subseteq due'
          BY <3>1
        <5>4. /\ silent + 0 <= p => silent <= p
              /\ healthy + 0 <= p => healthy <= p
          BY <4>1
        <5> QED  BY <3>1, <4>2, <5>0, <5>1, <5>2, <5>3, <5>4 DEF Promises
      <4> QED  BY <2>1, <3>3, <4>3 DEF Serves
    <3> QED  BY <3>4, <3>5
  <2>2. UNCHANGED <<link, interval, tracking, well>>
    BY <1>4 DEF Beat!Ping, Beat!trackerVars
  <2> QED  BY <1>3, <2>1, <2>2
<1>5. CASE Beat!Tick
  <2>1. ASSUME NEW m, Serves(pingers, m, due, silent, healthy, p)
        PROVE  Serves(pingers', m, due', silent', healthy', p)
    <3>1. /\ pingers \in Seq(Pinger) /\ Len(pingers) \in Nat
          /\ m \in 1..Len(pingers) /\ pingers[m] \in Pinger
          /\ pingers[m].left \in Nat
          /\ silent \in Nat /\ healthy \in Nat /\ due \in SUBSET Nat
          /\ p \in Nat /\ Delay \in Nat
      BY <2>1, PingerFacts, Constants DEF Serves, p
    <3>2. /\ pingers' = [n \in 1..Len(pingers) |->
                          [pingers[n] EXCEPT !.left = pingers[n].left - 1]]
          /\ due' = {d - 1 : d \in due} /\ 0 \notin due /\ pingers[m].left # 0
      BY <1>5, <3>1 DEF Beat!Tick
    <3>3. silent' <= silent + 1 /\ healthy' <= healthy + 1
      <4>1. silent \in Beat!Ages /\ healthy \in Beat!Ages
        BY BeatTypeParts DEF NumbersTyped
      <4>2. silent' \in {silent, Beat!Older(silent)}
        BY <1>5 DEF Beat!Tick
      <4>3. healthy' \in {healthy, Beat!Older(healthy)}
        BY <1>5 DEF Beat!Tick
      <4> QED  BY <3>1, <4>1, <4>2, <4>3, OlderType
    <3>4. /\ Len(pingers') = Len(pingers)
          /\ pingers'[m].period = pingers[m].period
          /\ pingers'[m].left = pingers[m].left - 1
      <4>1. \A x \in Pinger : \A l : /\ [x EXCEPT !.left = l].period = x.period
                                     /\ [x EXCEPT !.left = l].left = l
        BY DEF Pinger
      <4>2. pingers'[m] = [pingers[m] EXCEPT !.left = pingers[m].left - 1]
        BY <3>1, <3>2
      <4>3. Len(pingers') = Len(pingers)
        BY <3>1, <3>2
      <4> QED  BY <3>1, <4>1, <4>2, <4>3
    <3>5. Promises(pingers[m].left - 1, {d - 1 : d \in due}, silent', healthy', p)
      BY <1>f, <2>1, <3>1, <3>2, <3>3, PromiseKept DEF Serves
    <3> QED  BY <2>1, <3>2, <3>4, <3>5 DEF Serves
  <2>2. UNCHANGED <<link, interval, tracking, well>>
    BY <1>5 DEF Beat!Tick
  <2> QED  BY <1>3, <2>1, <2>2
<1>6. ASSUME UNCHANGED <<link, interval, pingers, tracking, well, due, silent,
                         healthy>>
      PROVE  PingerServes'
  BY <1>3, <1>6
<1> USE DEF Beat!trackerVars, Beat!netVars, Beat!daemonVars, Beat!TrackerOnly
<1>a. CASE Beat!dial
  BY <1>1, <1>a DEF Beat!dial
<1>7. ASSUME NEW i \in Intervals, Beat!acknowledge(i) PROVE PingerServes'
  BY <1>1, <1>7 DEF Beat!acknowledge
<1>8. CASE Beat!Disconnect
  BY <1>2, <1>8 DEF Beat!Disconnect
<1>9. CASE Beat!note_pong
  <2>1. CASE tracking
    BY <1>1, <1>9, <2>1 DEF Beat!note_pong, Beat!Heard
  <2>2. CASE ~tracking
    BY <1>2, <1>9, <2>2 DEF Beat!note_pong
  <2> QED  BY <2>1, <2>2
<1>10. CASE Beat!update
  <2>1. CASE tracking
    BY <1>1, <1>10, <2>1 DEF Beat!update, Beat!Heard
  <2>2. CASE ~tracking
    BY <1>2, <1>10, <2>2 DEF Beat!update
  <2> QED  BY <2>1, <2>2
<1>11. ASSUME NEW t, Beat!enable_heartbeat_tracking(t) PROVE PingerServes'
  BY <1>1, <1>11 DEF Beat!enable_heartbeat_tracking
<1>12. CASE Beat!disable_heartbeat_tracking
  BY <1>1, <1>12 DEF Beat!disable_heartbeat_tracking
<1>13. CASE Beat!reset
  BY <1>1, <1>13 DEF Beat!reset
<1>14. ASSUME NEW t, Beat!set_alive_threshold(t) PROVE PingerServes'
  BY <1>6, <1>14 DEF Beat!set_alive_threshold
<1>15. ASSUME NEW t, Beat!wait_for_alive(t) PROVE PingerServes'
  BY <1>6, <1>15 DEF Beat!wait_for_alive
<1>16. CASE Beat!Poll
  BY <1>6, <1>16 DEF Beat!Poll
<1>17. CASE Beat!Hang
  BY <1>2, <1>17 DEF Beat!Hang
<1>18. CASE Beat!Recover
  <2>1. ~well /\ healthy' = healthy
    BY <1>18 DEF Beat!Recover
  <2>2. healthy = 0
    BY <2>1, PingerFacts DEF HealthyIsUp
  <2> QED  BY <1>1, <2>1, <2>2
<1> QED
  BY <1>4, <1>5, <1>7, <1>8, <1>9, <1>10, <1>11, <1>12, <1>13, <1>14, <1>15,
     <1>16, <1>17, <1>18, <1>a DEF Beat!Next

LEMMA SilenceCountsStep ==
  ASSUME BeatType, SilenceCounts, Beat!Next PROVE SilenceCounts'
<1>0. /\ Delay \in Nat /\ Horizon \in Nat
      /\ age \in 0..Horizon /\ silent \in 0..Horizon /\ quiet \in 0..Horizon
      /\ due \in SUBSET (0..Delay)
  BY BeatTypeParts, Constants DEF NumbersTyped, Beat!Ages
<1> DEFINE Old == tracking => silent >= age \/ silent + Delay >= quiet
           Owed == \A d \in due : d + quiet <= Delay
<1>1. ASSUME well' PROVE SilenceCounts'
  BY <1>1 DEF SilenceCounts
<1>2. ASSUME ~well, Owed', Old' PROVE SilenceCounts'
  BY <1>2 DEF SilenceCounts
<1>3. ASSUME ~well PROVE Owed /\ Old
  BY <1>3 DEF SilenceCounts
<1>4. ASSUME well' = well, due' \subseteq due, quiet' = quiet,
             UNCHANGED <<tracking, silent, age>>
      PROVE  SilenceCounts'
  BY <1>4 DEF SilenceCounts
<1>5. ASSUME UNCHANGED <<well, due, quiet>>, silent' = 0, age' = 0
      PROVE  SilenceCounts'
  BY <1>5 DEF SilenceCounts
<1> HIDE DEF Owed, Old
<1> USE DEF Beat!trackerVars, Beat!netVars, Beat!daemonVars, Beat!TrackerOnly
<1>a. CASE Beat!dial
  BY <1>4, <1>a DEF Beat!dial
<1>6. ASSUME NEW i \in Intervals, Beat!acknowledge(i) PROVE SilenceCounts'
  BY <1>4, <1>6 DEF Beat!acknowledge
<1>7. CASE Beat!Disconnect
  BY <1>4, <1>7 DEF Beat!Disconnect
<1>8. ASSUME NEW n \in 1..Len(pingers), Beat!Ping(n) PROVE SilenceCounts'
  <2>1. CASE well
    BY <1>1, <1>8, <2>1 DEF Beat!Ping
  <2>2. CASE ~well
    BY <1>4, <1>8, <2>2 DEF Beat!Ping
  <2> QED  BY <2>1, <2>2
<1>9. CASE Beat!note_pong
  <2>1. PICK d \in due : due' = due \ {d}
    BY <1>9 DEF Beat!note_pong
  <2>2. /\ UNCHANGED <<well, quiet, tracking, age>>
        /\ tracking => silent' = 0
    BY <1>9 DEF Beat!note_pong, Beat!Heard
  <2>3. CASE well
    BY <1>1, <2>2, <2>3
  <2>4. CASE ~well
    <3>1. d + quiet <= Delay /\ d \in Nat
      BY <1>0, <1>3, <2>4, <2>1 DEF Owed
    <3>2. 0 + Delay >= quiet
      BY <1>0, <3>1
    <3>3. Old'
      BY <2>2, <3>2 DEF Old
    <3>4. Owed'
      BY <1>3, <2>4, <2>1, <2>2 DEF Owed
    <3> QED  BY <1>2, <2>4, <3>3, <3>4
  <2> QED  BY <2>3, <2>4
<1>10. CASE Beat!update
  BY <1>1, <1>10 DEF Beat!update
<1>11. ASSUME NEW t, Beat!enable_heartbeat_tracking(t) PROVE SilenceCounts'
  BY <1>5, <1>11 DEF Beat!enable_heartbeat_tracking
<1>12. CASE Beat!disable_heartbeat_tracking
  BY <1>5, <1>12 DEF Beat!disable_heartbeat_tracking
<1>13. CASE Beat!reset
  BY <1>5, <1>13 DEF Beat!reset
<1>14. ASSUME NEW t, Beat!set_alive_threshold(t) PROVE SilenceCounts'
  BY <1>4, <1>14 DEF Beat!set_alive_threshold
<1>15. ASSUME NEW t, Beat!wait_for_alive(t) PROVE SilenceCounts'
  BY <1>4, <1>15 DEF Beat!wait_for_alive
<1>16. CASE Beat!Poll
  BY <1>4, <1>16 DEF Beat!Poll
<1>17. CASE Beat!Hang
  <2>1. /\ due' \in SUBSET due /\ quiet' = 0 /\ silent' = silent
    BY <1>17 DEF Beat!Hang
  <2>2. \A d \in due' : d + quiet' <= Delay
    BY <1>0, <2>1
  <2>3. silent' + Delay >= quiet'
    BY <1>0, <2>1
  <2> QED  BY <2>2, <2>3 DEF SilenceCounts
<1>18. CASE Beat!Recover
  BY <1>1, <1>18 DEF Beat!Recover
<1>19. CASE Beat!Tick
  <2>1. CASE well
    BY <1>1, <1>19, <2>1 DEF Beat!Tick
  <2>2. CASE ~well
    <3>1. /\ due' = {d - 1 : d \in due}
          /\ quiet' = Beat!Older(quiet) /\ tracking' = tracking
      BY <1>19, <2>2 DEF Beat!Tick
    <3>2. tracking => age' = Beat!Older(age) /\ silent' = Beat!Older(silent)
      BY <1>19 DEF Beat!Tick
    <3>3. \A d \in due : (d - 1) + quiet' <= Delay
      <4>1. \A d \in due : d + quiet <= Delay /\ d \in Nat
        BY <1>0, <1>3, <2>2 DEF Owed
      <4> QED  BY <1>0, <3>1, <4>1 DEF Beat!Older
    <3>4. Owed'
      BY <3>1, <3>3 DEF Owed
    <3>5. ASSUME tracking PROVE silent' >= age' \/ silent' + Delay >= quiet'
      <4>1. silent >= age \/ silent + Delay >= quiet
        BY <1>3, <2>2, <3>5 DEF Old
      <4>2. /\ age' = Beat!Older(age) /\ silent' = Beat!Older(silent)
            /\ quiet' = Beat!Older(quiet)
        BY <3>1, <3>2, <3>5
      <4> QED  BY <1>0, <4>1, <4>2 DEF Beat!Older
    <3>6. Old'
      BY <3>1, <3>5 DEF Old
    <3> QED  BY <1>2, <2>2, <3>4, <3>6
  <2> QED  BY <2>1, <2>2
<1> QED
  BY <1>6, <1>7, <1>8, <1>9, <1>10, <1>11, <1>12, <1>13, <1>14, <1>15,
     <1>16, <1>17, <1>18, <1>19, <1>a DEF Beat!Next

-----------------------------------------------------------------------------
(* The theorems, of the composition with the queue.                         *)

LEMMA InitBeat == Beat!Init => BeatInv
<1> SUFFICES ASSUME Beat!Init PROVE BeatInv
  OBVIOUS
<1> USE DEF Beat!Init
<1>1. PingersTyped /\ FlagsTyped
  <2>1. pingers \in Seq(Pinger) /\ Len(pingers) = 0
    OBVIOUS
  <2>2. link \in BOOLEAN /\ tracking \in BOOLEAN /\ well \in BOOLEAN
    OBVIOUS
  <2> QED  BY <2>1, <2>2 DEF PingersTyped, FlagsTyped
<1>2. NumbersTyped
  <2>1. /\ 0 \in Beat!Ages /\ 0 \in 0..MaxConnections
        /\ Beat!NotWaiting \in 0..Beat!NotWaiting
    BY Constants DEF Beat!Ages, Beat!NotWaiting
  <2> QED  BY <2>1, BeatAssumption DEF NumbersTyped
<1>3. HealthyIsUp /\ HasPinger /\ PingerServes /\ SilenceCounts
  BY DEF HealthyIsUp, HasPinger, PingerServes, SilenceCounts
<1> QED  BY <1>1, <1>2, <1>3, BeatTypeParts DEF BeatInv

LEMMA StepBeat == BeatInv /\ [MCNext]_<<vars, beatVars>> => BeatInv'
<1> SUFFICES ASSUME BeatInv, [MCNext]_<<vars, beatVars>> PROVE BeatInv'
  OBVIOUS
<1>1. CASE Beat!Next
  <2>1. BeatType /\ HealthyIsUp /\ HasPinger /\ PingerServes /\ SilenceCounts
    BY DEF BeatInv
  <2>2. BeatType' /\ HealthyIsUp' /\ HasPinger'
    BY <1>1, <2>1, BeatTypeStep, HealthyStep, HasPingerStep
  <2>3. PingerServes' /\ SilenceCounts'
    BY <1>1, <2>1, PingerServesStep, SilenceCountsStep
  <2> QED  BY <2>2, <2>3 DEF BeatInv
<1>2. CASE UNCHANGED beatVars
  <2>1. BeatType'
    <3>1. PingersTyped' /\ FlagsTyped' /\ NumbersTyped'
      BY <1>2, BeatTypeParts
         DEF BeatInv, beatVars, PingersTyped, FlagsTyped, NumbersTyped
    <3> QED  BY <3>1, BeatTypeParts
  <2>2. HealthyIsUp' /\ HasPinger' /\ PingerServes' /\ SilenceCounts'
    BY <1>2 DEF BeatInv, beatVars, HealthyIsUp, HasPinger, PingerServes,
                Serves, Promises, SilenceCounts
  <2> QED  BY <2>1, <2>2 DEF BeatInv
<1> QED
  BY <1>1, <1>2 DEF MCNext

LEMMA BeatInvHolds == MCSpec => []BeatInv
BY InitBeat, StepBeat, PTL DEF MCSpec, MCInit

(* The composition does to the queue what InboundQueue does, so that every  *)
(* theorem of InboundQueueProofs holds of it.                               *)
THEOREM QueueIsComposed == MCSpec => Spec
<1>1. MCInit => Init
  BY DEF MCInit
<1>2. [MCNext]_<<vars, beatVars>> => [Next]_vars
  BY DEF MCNext
<1> QED  BY <1>1, <1>2, PTL DEF MCSpec, Spec

(* The queue, the requests, the pingers and the tracker keep their types.   *)
THEOREM ComposedTypes == MCSpec => []MCTypeOK
<1>1. BeatInv => Beat!TypeOK
  BY DEF BeatInv, BeatType
<1> QED
  BY <1>1, BeatInvHolds, QueueIsComposed, TypeCorrect, PTL DEF MCTypeOK

(* A daemon that is well is not reported dead once the connection has had   *)
(* the time for a ping and its answer, whatever the threshold and however   *)
(* often the client reconnected, renewed or reset its tracker.              *)
THEOREM WellIsNotReportedDead == MCSpec => []NoFalseAlarm
<1>1. BeatInv => NoFalseAlarm
  <2> SUFFICES ASSUME BeatInv, interval > 0,
                      Beat!PeriodOf(interval) + Delay < threshold,
                      healthy > Beat!PeriodOf(interval) + Delay,
                      tracking
               PROVE  silent < threshold
    BY DEF NoFalseAlarm, Beat!NoFalseAlarm, Beat!is_daemon_alive, Beat!get_health
  <2> DEFINE p == Beat!PeriodOf(interval)
  <2>1. /\ p \in Nat /\ Delay \in Nat /\ silent \in Nat /\ healthy \in Nat
        /\ due \in SUBSET Nat /\ threshold \in Nat
        /\ \A n \in 1..Len(pingers) : pingers[n].left \in Nat
    BY PingerFacts, BeatTypeParts, Constants DEF BeatInv, NumbersTyped
  <2>2. link /\ well
    BY <2>1 DEF BeatInv, HealthyIsUp
  <2>3. PICK n : Serves(pingers, n, due, silent, healthy, p)
    BY <2>2 DEF BeatInv, PingerServes
  <2> HIDE DEF p
  <2>4. p + Delay < threshold /\ healthy > p + Delay
    BY DEF p
  <2>5. pingers[n].left \in Nat
    BY <2>1, <2>3 DEF Serves
  <2>6. silent <= p + Delay \/ healthy <= p + Delay
    <3>1. CASE silent + pingers[n].left <= p
      BY <2>1, <2>5, <3>1
    <3>2. CASE healthy + pingers[n].left <= p
      BY <2>1, <2>5, <3>2
    <3>3. ASSUME NEW d \in due, silent + d <= p + Delay
          PROVE  silent <= p + Delay
      BY <2>1, <3>3
    <3>4. ASSUME NEW d \in due, healthy + d <= p + Delay
          PROVE  healthy <= p + Delay
      BY <2>1, <3>4
    <3> QED  BY <2>3, <3>1, <3>2, <3>3, <3>4 DEF Serves, Promises
  <2> QED  BY <2>1, <2>4, <2>6
<1> QED  BY <1>1, BeatInvHolds, PTL

(* A daemon that has fallen silent is reported dead, once the threshold,    *)
(* the answers under way and the grace period of the tracker are past.      *)
THEOREM DeadIsReported == MCSpec => []SilenceIsNoticed
<1>1. BeatInv => SilenceIsNoticed
  <2> SUFFICES ASSUME BeatInv, tracking, ~well, quiet >= threshold + Delay,
                      age >= threshold, age >= Beat!Grace
               PROVE  ~(silent < threshold \/ age < Beat!Grace)
    BY DEF SilenceIsNoticed, Beat!SilenceIsNoticed, Beat!is_daemon_alive,
           Beat!get_health
  <2>1. silent >= age \/ silent + Delay >= quiet
    BY DEF BeatInv, SilenceCounts
  <2>2. /\ Delay \in Nat /\ silent \in Nat /\ age \in Nat /\ quiet \in Nat
        /\ threshold \in Nat
    <3>1. NumbersTyped
      BY BeatTypeParts DEF BeatInv
    <3>2. 0..Horizon \subseteq Nat
      BY Constants
    <3> QED  BY <3>1, <3>2, Constants DEF NumbersTyped, Beat!Ages
  <2> QED  BY <2>1, <2>2 DEF Beat!Grace
<1> QED  BY <1>1, BeatInvHolds, PTL
=============================================================================
