----------------------------- MODULE TurnBoundary -----------------------------
(***************************************************************************)
(* What ends a turn: the gates of src/src/turn_boundary.rs, and the two     *)
(* readers of a turn's frames that use them, TurnBoundary                   *)
(* (src/src/appkit/turn_boundary.rs, fed by the TurnRunner) and the loop of *)
(* DaemonSession::iter_turn_chunks (src/src/appkit/daemon_session.rs).      *)
(*                                                                         *)
(* All frames are of one loop.  A frame is its kind and its turn: the       *)
(* generation in its turn_id, or NoTurn.  Each reader is a record and a     *)
(* function from record and frame to record.                                *)
(***************************************************************************)
EXTENDS Naturals

NoTurn == 0

(* "end" is a turn-scoped stream.end or strange_loop.completed, "step" a    *)
(* progress custom, "chunk" a piece of text, "reply" a message of a         *)
(* deliverable phase, "noop" a message or update without content, "report"  *)
(* a custom deliverable, "fault" a soothe.error custom, "notice" the        *)
(* command_response that says a cancellation was requested, "error" an      *)
(* error envelope, "other" an event that is none of these.                  *)
StatusKinds == {"running", "idle", "stopped"}
EventKinds == {"end", "step", "chunk", "reply", "noop", "report", "fault",
               "other"}
Kinds == StatusKinds \cup EventKinds \cup {"notice", "error"}

(* The classifiers of stream_terminal.rs and chunk_filter.rs.               *)
is_turn_progress_chunk(f) == f.kind \in {"step", "chunk", "reply", "noop"}
should_drop_stream_chunk_early(f) == f.kind = "noop"

turn_ids_match(expected, candidate) ==
  expected # NoTurn /\ expected = candidate

(* Mutant of is_turn_terminal_allowed: the turn is not compared.            *)
TerminalOfAnyTurn(r, turn) == r.started /\ r.progress

is_turn_terminal_allowed(r, turn) ==
  r.started /\ r.progress /\ turn_ids_match(r.expected, turn)

(* An idle that names no turn ends only a cancelled one.                    *)
is_idle_terminal_allowed(r, turn) ==
  /\ r.started
  /\ r.expected # NoTurn
  /\ \/ turn = NoTurn /\ r.cancelled
     \/ turn = r.expected /\ (r.progress \/ r.cancelled)

is_stop_allowed(r, turn) ==
  r.started /\ (r.expected # NoTurn => turn_ids_match(r.expected, turn))

-----------------------------------------------------------------------------
(* A reader: whether it saw running, which turn it expects, whether it saw  *)
(* progress, whether it saw the cancellation notice, and how it ended.      *)

Readers(maxTurn) ==
  [started : BOOLEAN, expected : 0..maxTurn, progress : BOOLEAN,
   cancelled : BOOLEAN, ended : {"no", "terminal", "error"}]

NewReader ==
  [started |-> FALSE, expected |-> NoTurn, progress |-> FALSE,
   cancelled |-> FALSE, ended |-> "no"]

(* Mutants of SeeRunning: the next turn is expected; the last running frame *)
(* wins, whatever its turn.                                                 *)
SeeNextRunning(r, turn) ==
  [r EXCEPT !.started = TRUE, !.expected = turn + 1, !.progress = FALSE]

SeeLastRunning(r, turn) ==
  [r EXCEPT !.started = TRUE,
            !.expected = IF turn = NoTurn THEN @ ELSE turn,
            !.progress = @ /\ turn \in {r.expected, NoTurn}]

(* status=running binds the turn, or rebinds it to one that is not older;   *)
(* the progress of another turn is then forgotten.                          *)
SeeRunning(r, turn) ==
  IF turn # NoTurn /\ turn >= r.expected
    THEN [r EXCEPT !.started = TRUE, !.expected = turn,
                   !.progress = @ /\ r.expected \in {NoTurn, turn}]
    ELSE [r EXCEPT !.started = TRUE]

SeeProgress(r, f) ==
  [r EXCEPT !.progress = @ \/ is_turn_progress_chunk(f)]

Terminal(r, f) ==
  \/ f.kind = "end" /\ is_turn_terminal_allowed(r, f.turn)
  \/ f.kind = "idle" /\ is_idle_terminal_allowed(r, f.turn)
  \/ f.kind = "stopped" /\ is_stop_allowed(r, f.turn)

EndIf(r, cond) == IF cond THEN [r EXCEPT !.ended = "terminal"] ELSE r

(* Mutant of feed_boundary: nothing counts before status=running.           *)
FeedOnceStarted(b, f) ==
  CASE b.ended # "no" \/ ~(b.started \/ f.kind = "running") -> b
    [] b.ended = "no" /\ f.kind = "running" -> SeeRunning(b, f.turn)
    [] OTHER -> EndIf(SeeProgress(b, f), Terminal(b, f))

(* feed_boundary with feed_status_turn and feed_event_turn: whatever is not *)
(* a status or an event is ignored, and so is everything after the end.     *)
feed_boundary(b, f) ==
  CASE b.ended # "no" -> b
    [] b.ended = "no" /\ f.kind = "running" -> SeeRunning(b, f.turn)
    [] OTHER -> EndIf(SeeProgress(b, f), Terminal(b, f))

(* iter_turn_chunks once a turn is expected: status=running always passes,  *)
(* another status if its turn does not contradict, an event if its turn     *)
(* agrees.                                                                  *)
Passes(s, f) ==
  CASE f.kind \in {"running", "notice", "error"} -> TRUE
    [] f.kind \in {"idle", "stopped"} -> f.turn \in {NoTurn, s.expected}
    [] OTHER -> turn_ids_match(s.expected, f.turn)

iter_turn_chunk(s, f) ==
  CASE s.ended # "no" -> s
    [] s.ended = "no" /\ s.expected # NoTurn /\ ~Passes(s, f) -> s
    [] OTHER ->
       CASE f.kind = "error" -> [s EXCEPT !.ended = "error"]
         [] f.kind = "running" -> SeeRunning(s, f.turn)
         [] f.kind = "notice" -> [s EXCEPT !.cancelled = TRUE]
         [] f.kind \in EventKinds /\ should_drop_stream_chunk_early(f) -> s
         [] OTHER -> EndIf(SeeProgress(s, f), Terminal(s, f))

=============================================================================
