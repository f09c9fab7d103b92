------------------------------ MODULE Classifier ------------------------------
(***************************************************************************)
(* What EventClassifier makes of a frame (src/src/appkit/classifier.rs,     *)
(* with the progress lines of src/src/appkit/thinking_step.rs), as          *)
(* TurnRunner calls it: without a lifecycle gate.                           *)
(*                                                                         *)
(* A frame is its kind and its text, a sequence of pieces of which one is   *)
(* blank.  Kinds are the paths through the classifier; where the text is    *)
(* found in a frame, and how a progress line is worded, is left out.        *)
(***************************************************************************)
EXTENDS Naturals, Sequences

CONSTANTS
  Words,         \* pieces of text that are not blank
  Blank,         \* a piece of white space
  MinPieces,     \* min_deliverable_runes, counted in pieces
  IdleCompletes  \* treat_status_idle_as_complete, and gate_turn_end_signals
                 \* is off

Pieces == Words \cup {Blank}

(* "chunk" is any text that only continues the reply: a streamed piece, a   *)
(* narration or tool message, a delta, an output that is not final.  "ai"   *)
(* is an assistant message without phase, "reply" one of a deliverable      *)
(* phase, "report" a final output by its catalogue name, "namedReport" one  *)
(* that only matches by substring, "step" an allowlisted progress event,    *)
(* "fault" any error, "idle" and "end" the ends of a turn.                  *)
TextKinds == {"chunk", "ai", "reply", "report", "namedReport"}
Kinds == TextKinds \cup {"step", "fault", "idle", "end"}

Solid(t) == {i \in DOMAIN t : t[i] # Blank}

Trim(t) ==
  IF Solid(t) = {} THEN <<>>
  ELSE SubSeq(t, CHOOSE i \in Solid(t) : \A j \in Solid(t) : i <= j,
                 CHOOSE i \in Solid(t) : \A j \in Solid(t) : j <= i)

is_substantive_assistant_reply(t) == Len(Trim(t)) >= MinPieces

(* extract_thinking_step: the frame shows a progress line, and has no text. *)
thinking_step(f) == f.kind = "step"

Result(terminal, content, event) ==
  [terminal |-> terminal, content |-> content, event |-> event]

continue_result(t) == Result("continue", t, "none")
deliverable_result(t, event) == Result("deliverable", t, event)

(* process_chat_event: what an event does by itself, given the text so far. *)
classify(f, accumulated) ==
  CASE f.kind = "chunk" -> continue_result(f.text)
    [] f.kind = "ai" ->
         continue_result(IF Solid(f.text) = {} THEN f.text ELSE Trim(f.text))
    [] f.kind = "reply" ->
         IF is_substantive_assistant_reply(f.text)
           THEN deliverable_result(f.text, "phase")
           ELSE continue_result(f.text)
    [] f.kind = "report" -> deliverable_result(f.text, "report")
    [] f.kind = "namedReport" -> deliverable_result(f.text, "named")
    [] f.kind = "fault" -> Result("failed", <<>>, "none")
    [] f.kind = "idle" ->
         IF IdleCompletes /\ is_substantive_assistant_reply(accumulated)
           THEN deliverable_result(Trim(accumulated), "status.idle")
           ELSE continue_result(<<>>)
    [] OTHER -> continue_result(<<>>)

is_deliverable_completion_event(event) ==
  event \in {"phase", "report", "status.idle"}

NoText == [found |-> FALSE, text |-> <<>>]

(* Mutant of resolve_deliverable_final_content: nothing is trimmed.         *)
ResolveUntrimmed(r, accumulated) ==
  IF r.terminal = "deliverable" /\ is_deliverable_completion_event(r.event)
    THEN [found |-> TRUE, text |-> r.content]
    ELSE NoText

(* The final reply: the content of the event or, if that is blank, what was *)
(* accumulated.                                                             *)
resolve_deliverable_final_content(r, accumulated) ==
  CASE r.terminal # "deliverable"
         \/ ~is_deliverable_completion_event(r.event) -> NoText
    [] r.terminal = "deliverable" /\ is_deliverable_completion_event(r.event) ->
         IF Trim(r.content) # <<>>
           THEN [found |-> TRUE, text |-> Trim(r.content)]
         ELSE IF is_substantive_assistant_reply(accumulated)
           THEN [found |-> TRUE, text |-> Trim(accumulated)]
         ELSE NoText

=============================================================================
