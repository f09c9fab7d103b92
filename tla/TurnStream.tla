------------------------------ MODULE TurnStream ------------------------------
(***************************************************************************)
(* Turns of one loop, and the frames of the daemon that reach them.  The    *)
(* same frames are read by run_turn (src/src/appkit/turn_runner.rs), after  *)
(* its settle-drain and with its arming, and by DaemonSession's             *)
(* iter_turn_chunks, after its peel.                                        *)
(*                                                                         *)
(* Turn n is the n-th input sent, and the daemon admits it as generation n. *)
(* A frame may take any time: frames of earlier turns arrive during later   *)
(* ones.  Those that arrive before a turn is sent are drained, and are left *)
(* out of the model.  A turn is sent when run_turn has left the one before: *)
(* the overlap that a cancel makes possible is the subject of TurnRunner.   *)
(***************************************************************************)
EXTENDS TurnBoundary, FiniteSets

CONSTANTS
  MaxTurns,      \* bound on the turns sent
  UntaggedKinds  \* kinds of frames this daemon sends without turn_id

ASSUME StreamAssumption ==
  /\ MaxTurns \in Nat
  /\ UntaggedKinds \subseteq Kinds

Turns == 1..MaxTurns

VARIABLES
  turn,       \* turns sent so far; the last one is the one being read
  phase,      \* what run_turn does: idle (no turn yet), reading, over
  armed,      \* run_turn has seen a frame that is not a stale turn end
  hasText,  \* run_turn has collected text
  boundary,   \* its TurnBoundary
  session,    \* DaemonSession reading the same turn
  peeling,    \* iter_turn_chunks has not begun, and will peel
  announced,  \* turns whose running frame arrived
  finished,   \* turns whose terminal frame arrived
  settled,    \* every earlier turn had finished when this one was sent
  by,         \* what ended the turn: how, and the turn of the frame
  own         \* how far the frames of the turn itself have come

clientVars == <<armed, hasText, boundary, session, peeling>>
vars == <<turn, phase, clientVars, announced, finished, settled, by, own>>

Frames == [kind : Kinds, turn : {NoTurn} \cup Turns]

(* How the boundary ends a turn: with text, or with nothing to show.        *)
ByBoundary == {"terminal", "empty"}

NotEnded == [how |-> "no", turn |-> NoTurn]

TypeOK ==
  /\ turn \in 0..MaxTurns
  /\ phase \in {"idle", "reading", "over"}
  /\ armed \in BOOLEAN
  /\ hasText \in BOOLEAN
  /\ boundary \in Readers(MaxTurns)
  /\ session \in Readers(MaxTurns)
  /\ peeling \in BOOLEAN
  /\ announced \subseteq Turns
  /\ finished \subseteq Turns
  /\ settled \in BOOLEAN
  /\ by \in [how : {"no", "deliverable", "failure", "timeout"} \cup ByBoundary,
             turn : 0..MaxTurns]
  /\ own \in {"nothing", "running", "progress", "terminal"}

Init ==
  /\ turn = 0
  /\ phase = "idle"
  /\ armed = FALSE
  /\ hasText = FALSE
  /\ boundary = NewReader
  /\ session = NewReader
  /\ peeling = FALSE
  /\ announced = {}
  /\ finished = {}
  /\ settled = TRUE
  /\ by = NotEnded
  /\ own = "nothing"

-----------------------------------------------------------------------------
(* The input goes out, and both clients start a turn with fresh state.      *)
SendTurn ==
  /\ phase # "reading"
  /\ turn < MaxTurns
  /\ turn' = turn + 1
  /\ phase' = "reading"
  /\ armed' = FALSE
  /\ hasText' = FALSE
  /\ boundary' = NewReader
  /\ session' = NewReader
  /\ peeling' = TRUE
  /\ settled' = (1..turn \subseteq finished)
  /\ by' = NotEnded
  /\ own' = "nothing"
  /\ UNCHANGED <<announced, finished>>

(* iter_turn_chunks begins: what was pending has been peeled.               *)
IterTurnChunks ==
  /\ peeling
  /\ peeling' = FALSE
  /\ UNCHANGED <<turn, phase, armed, hasText, boundary, session, announced,
                 finished, settled, by, own>>

(* The deadlines of run_turn, a cancel, or the end of the stream.           *)
GiveUp ==
  /\ phase = "reading"
  /\ phase' = "over"
  /\ by' = [how |-> "timeout", turn |-> NoTurn]
  /\ UNCHANGED <<turn, clientVars, announced, finished, settled, own>>

(* What the daemon can send: it announces an admitted turn first, perhaps   *)
(* more than once until a terminal frame of the turn.  A frame without      *)
(* turn_id is of the turn it belongs to, but does not say so.               *)
CanArrive(f) ==
  IF f.turn = NoTurn THEN f.kind \in UntaggedKinds /\ announced # {}
  ELSE CASE f.kind = "running" -> f.turn <= turn /\ f.turn \notin finished
         [] OTHER -> f.turn \in announced

TerminalKinds == {"end", "idle", "stopped"}

(* is_stale_turn_end_event, before the turn is armed.                       *)
StaleTurnEnd(f) == f.kind \in TerminalKinds

(* What one frame does to a turn that is being read, by the classifier and  *)
(* by the boundary: the first that ends it does.  The boundary completes a  *)
(* turn that has text, and fails an empty one.                              *)
Outcome(f) ==
  CASE f.kind \in {"error", "fault"} -> "failure"
    [] f.kind \in {"reply", "report"} -> "deliverable"
    [] f.kind \notin {"error", "fault", "reply", "report"}
         /\ feed_boundary(boundary, f).ended # "no" ->
         IF hasText THEN "terminal" ELSE "empty"
    [] OTHER -> "no"

RunTurnReads(f) ==
  IF phase # "reading" \/ (~armed /\ StaleTurnEnd(f))
    THEN UNCHANGED <<phase, armed, hasText, boundary, by>>
    ELSE /\ armed' = TRUE
         /\ boundary' = feed_boundary(boundary, f)
         /\ hasText' = (hasText \/ f.kind \in {"chunk", "reply", "report"})
         /\ phase' = IF Outcome(f) = "no" THEN "reading" ELSE "over"
         /\ by' = IF Outcome(f) = "no" THEN by
                  ELSE [how |-> Outcome(f), turn |-> f.turn]

(* Mutant of SessionReads: the peel takes running frames too.               *)
SessionReadsAfterPeel(f) ==
  session' = IF peeling /\ f.kind \in {"end", "running"}
               THEN session ELSE iter_turn_chunk(session, f)

(* A turn-scoped terminal that is pending when iter_turn_chunks begins is   *)
(* peeled; any other frame is read now or when it begins.                   *)
SessionReads(f) ==
  session' = IF peeling /\ f.kind = "end" THEN session
             ELSE iter_turn_chunk(session, f)

(* Progress of the turn's own frames, in the order that should end it.      *)
OwnAfter(f) ==
  CASE own = "nothing" /\ f.kind = "running" -> "running"
    [] own = "running" /\ f.kind \in {"step", "chunk", "reply"} -> "progress"
    [] own = "running" /\ f.kind = "stopped" -> "terminal"
    [] own = "progress" /\ f.kind \in {"idle", "stopped"} -> "terminal"
    [] OTHER -> own

Arrive(f) ==
  /\ turn > 0
  /\ CanArrive(f)
  /\ RunTurnReads(f)
  /\ SessionReads(f)
  /\ announced' = IF f.kind = "running" /\ f.turn # NoTurn
                    THEN announced \cup {f.turn} ELSE announced
  /\ finished' = IF f.kind \in TerminalKinds /\ f.turn # NoTurn
                   THEN finished \cup {f.turn} ELSE finished
  /\ own' = IF f.turn = turn THEN OwnAfter(f) ELSE own
  /\ UNCHANGED <<turn, peeling, settled>>

Next ==
  \/ SendTurn
  \/ IterTurnChunks
  \/ GiveUp
  \/ \E f \in Frames : Arrive(f)

Spec == Init /\ [][Next]_vars

-----------------------------------------------------------------------------
(* Properties.                                                              *)

(* Once a turn has read its own running frame, no frame of another turn,    *)
(* and none without a turn, makes its boundary end, be it to complete or to *)
(* fail it: whatever is late.                                               *)
OwnRunningShields ==
  [][by.how = "no" /\ by'.how \in ByBoundary /\ own # "nothing" =>
       by'.turn = turn]_vars

(* What ends a turn that follows finished turns is its own, it has timed    *)
(* out, or a reply, a report or an error came late and was taken for its    *)
(* own.  A terminal frame is not: leftover running, progress and terminal   *)
(* frames of finished turns neither complete nor fail the next one, in      *)
(* whatever order they arrive.                                              *)
LeftoverTerminalsAreHarmless ==
  settled /\ by.how \notin {"no", "timeout", "deliverable", "failure"} =>
    by.turn = turn

(* No turn misses its end: when running, progress and idle (or stopped) of  *)
(* the turn have been read in this order, both clients are out of it,       *)
(* whatever else arrived in between.                                        *)
TurnIsNotMissed ==
  own = "terminal" => phase = "over" /\ session.ended # "no"

(* The two turn-end contracts agree one way: DaemonSession does not end a   *)
(* turn that TurnRunner would still be reading, except on a cancellation    *)
(* notice, which TurnRunner does not read.                                  *)
SessionEndsNoEarlier ==
  session.ended # "no" /\ ~session.cancelled => phase = "over"

(* What the README says, and the code does not do: leftovers of an earlier  *)
(* turn cannot end the next one.                                            *)
LeftoversEndNothing ==
  by.how \in {"terminal", "deliverable"} => by.turn = turn

=============================================================================
