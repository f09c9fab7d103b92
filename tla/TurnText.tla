------------------------------- MODULE TurnText -------------------------------
(***************************************************************************)
(* The text of a turn: how run_turn (src/src/appkit/turn_runner.rs)         *)
(* collects it, and how SseBroadcaster (src/src/appkit/broadcaster.rs)      *)
(* fans it out to the subscribers of the session.                           *)
(*                                                                         *)
(* A subscriber is modelled with the client behind its channel: it appends  *)
(* every delta to the text it shows, and clears it when the turn is         *)
(* reported over.  Which frames end a turn is the subject of TurnStream:    *)
(* here the boundary may end the turn on any frame that could.  A turn      *)
(* begins when the one before has returned: the overlap that a cancel makes *)
(* possible (src/src/appkit/query_gate.rs:81) is the subject of TurnRunner, *)
(* and the deltas of two turns that overlap are not told apart here.        *)
(***************************************************************************)
EXTENDS Classifier, SequencesExt

CONSTANTS
  Subs,          \* subscribers of the session
  ChannelSize,   \* capacity of a subscriber's channel
  MaxTurns,      \* bound on the turns
  MaxChunk,      \* bound on the pieces of a frame
  MaxText        \* bound on the pieces of a turn's text

VARIABLES
  stage,      \* run_turn: idle, reading, or (while the store saves) ending
              \* on a frame or giving up
  turns,      \* turns begun
  collected,  \* the text so far
  outcome,    \* the event that will report the turn over
  registered, \* subscribers in the table
  channel,    \* events in each subscriber's channel
  shows,      \* text each subscriber shows
  inStep,     \* subscribers that were there, and lost no event, since the
              \* previous turn was reported over
  style,      \* whether the daemon streams increments or the text so far
  sent,       \* the text the daemon has streamed
  exact       \* nothing but streamed chunks came, and no increment began
              \* with all the text before it

turnVars == <<stage, turns, collected, outcome>>
subVars == <<registered, channel, shows, inStep>>
daemonVars == <<style, sent, exact>>
textVars == <<turnVars, subVars, daemonVars>>

Texts == BoundedSeq(Pieces, MaxText)

Event(type, text) == [type |-> type, text |-> text]
Events == [type : {"delta", "thinking_step", "complete", "query_error"},
           text : Texts]

NotOver == Event("query_error", <<>>)

TypeOK ==
  /\ stage \in {"idle", "reading", "ending", "givingUp"}
  /\ turns \in 0..MaxTurns
  /\ collected \in Texts
  /\ outcome \in Events
  /\ registered \subseteq Subs
  /\ channel \in [Subs -> Seq(Events)]
  /\ \A s \in Subs : Len(channel[s]) <= ChannelSize
  /\ shows \in [Subs -> Seq(Pieces)]
  /\ inStep \subseteq Subs
  /\ style \in {"increments", "snapshots"}
  /\ sent \in Texts
  /\ exact \in BOOLEAN

Init ==
  /\ stage = "idle"
  /\ turns = 0
  /\ collected = <<>>
  /\ outcome = NotOver
  /\ registered = {}
  /\ channel = [s \in Subs |-> <<>>]
  /\ shows = [s \in Subs |-> <<>>]
  /\ inStep = {}
  /\ style = "increments"
  /\ sent = <<>>
  /\ exact = TRUE

-----------------------------------------------------------------------------
(* The broadcaster.                                                         *)

HasRoom == {s \in registered : Len(channel[s]) < ChannelSize}

(* Mutant of broadcast: a full channel grows.                               *)
BroadcastToAll(e) ==
  /\ channel' = [s \in Subs |-> IF s \in registered THEN Append(channel[s], e)
                                ELSE channel[s]]
  /\ UNCHANGED <<registered, shows, inStep>>

(* try_send to everyone: a full channel is skipped.                         *)
broadcast(e) ==
  /\ channel' = [s \in Subs |-> IF s \in HasRoom THEN Append(channel[s], e)
                                ELSE channel[s]]
  /\ inStep' = IF e.type \in {"complete", "query_error"} THEN HasRoom
               ELSE inStep \cap HasRoom
  /\ UNCHANGED <<registered, shows>>

subscribe(s) ==
  /\ s \notin registered
  /\ registered' = registered \cup {s}
  /\ channel' = [channel EXCEPT ![s] = <<>>]
  /\ shows' = [shows EXCEPT ![s] = <<>>]
  /\ inStep' = IF stage = "idle" THEN inStep \cup {s} ELSE inStep \ {s}
  /\ UNCHANGED <<turnVars, daemonVars>>

(* unsubscribe takes one out, close and close_all everybody.  What is in a  *)
(* channel can still be received.                                           *)
unsubscribe(S) ==
  /\ S # {} /\ S \subseteq registered
  /\ registered' = registered \ S
  /\ inStep' = inStep \ S
  /\ UNCHANGED <<channel, shows, turnVars, daemonVars>>

(* What a subscriber shows after an event.                                  *)
Show(text, e) ==
  CASE e.type = "delta" -> text \o e.text
    [] e.type = "thinking_step" -> text
    [] OTHER -> <<>>

Receive(s) ==
  /\ channel[s] # <<>>
  /\ channel' = [channel EXCEPT ![s] = Tail(@)]
  /\ shows' = [shows EXCEPT ![s] = Show(@, Head(channel[s]))]
  /\ UNCHANGED <<registered, inStep, turnVars, daemonVars>>

-----------------------------------------------------------------------------
(* The turn.                                                                *)

BeginTurn(how) ==
  /\ stage = "idle"
  /\ turns < MaxTurns
  /\ turns' = turns + 1
  /\ stage' = "reading"
  /\ style' = how
  /\ UNCHANGED <<collected, outcome, subVars, sent, exact>>

(* The daemon streams a piece of its reply, or sends any other frame.       *)
Streamed(piece) ==
  [kind |-> "chunk",
   text |-> IF style = "snapshots" THEN sent \o piece ELSE piece]

Stream(piece) ==
  /\ Len(sent \o piece) <= MaxText
  /\ sent' = sent \o piece
  /\ exact' = (exact /\ (style = "increments" =>
                           sent = <<>> \/ ~IsPrefix(sent, piece)))
  /\ UNCHANGED style

SendOther(f) ==
  /\ exact' = (exact /\ f.text = <<>>)
  /\ UNCHANGED <<style, sent>>

(* Mutants of Delta: the whole text so far is broadcast; the text so far is *)
(* always appended to.                                                      *)
DeltaOfSnapshot(content) ==
  IF IsPrefix(collected, content)
    THEN [delta |-> content, collected |-> content]
    ELSE [delta |-> content, collected |-> collected \o content]

DeltaAppended(content) ==
  [delta |-> content, collected |-> collected \o content]

(* A content that begins with all the text so far replaces it.              *)
Delta(content) ==
  IF IsPrefix(collected, content)
    THEN [delta |-> SubSeq(content, Len(collected) + 1, Len(content)),
          collected |-> content]
    ELSE [delta |-> content, collected |-> collected \o content]

(* is_daemon_turn_end_event: an idle does not end the turn as a deliverable.*)
Final(r, text) ==
  IF r.event = "status.idle" THEN NoText
  ELSE resolve_deliverable_final_content(r, text)

(* The turn ends; complete_turn and fail_turn save it before they report.   *)
EndWith(e) == stage' = "ending" /\ outcome' = e
GoOn == UNCHANGED <<stage, outcome>>

EndByBoundary(text) ==
  EndWith(IF Trim(text) = <<>> THEN Event("query_error", <<>>)
          ELSE Event("complete", text))

(* One frame: it fails the turn, or shows a step, or adds text; then it may *)
(* end the turn as a deliverable, or else by the boundary.                  *)
Handle(f, boundaryEnds) ==
  LET r == classify(f, collected)
      d == Delta(r.content)
      final == Final(r, d.collected)
  IN
  /\ Len(d.collected) <= MaxText
  /\ UNCHANGED turns
  /\ IF r.terminal = "failed"
       THEN EndWith(Event("query_error", <<>>)) /\ UNCHANGED <<collected, subVars>>
       ELSE
       /\ CASE thinking_step(f) -> broadcast(Event("thinking_step", <<>>))
            [] ~thinking_step(f) /\ r.content # <<>> /\ d.delta # <<>> ->
                 broadcast(Event("delta", d.delta))
            [] OTHER -> UNCHANGED subVars
       /\ CASE final.found ->
                 /\ collected' = final.text
                 /\ EndWith(Event("complete", final.text))
            [] ~final.found ->
                 /\ collected' = IF r.content # <<>> THEN d.collected
                                 ELSE collected
                 /\ IF boundaryEnds THEN EndByBoundary(collected') ELSE GoOn

HandleChunk(piece) == Handle(Streamed(piece), FALSE) /\ Stream(piece)

HandleOther(f, boundaryEnds) == Handle(f, boundaryEnds) /\ SendOther(f)

(* A deadline or the end of the stream completes the turn or fails it, by   *)
(* the policy; a closed stream completes only what has text.  A cancel      *)
(* fails it.                                                                *)
GiveUp ==
  /\ stage = "reading"
  /\ stage' = "givingUp"
  /\ outcome' \in {Event("query_error", <<>>), Event("complete", collected)}
  /\ UNCHANGED <<turns, collected, subVars, daemonVars>>

(* The turn returns; the next one starts with a new text.                   *)
Return ==
  /\ stage' = "idle"
  /\ collected' = <<>>
  /\ outcome' = NotOver
  /\ style' = "increments"
  /\ sent' = <<>>
  /\ exact' = TRUE
  /\ UNCHANGED turns

(* The turn returns without a report: its stream is missing, or its future  *)
(* is dropped, perhaps while the store saves.                               *)
Vanish ==
  /\ stage # "idle"
  /\ Return
  /\ inStep' = {}
  /\ UNCHANGED <<registered, channel, shows>>

Report ==
  /\ stage \in {"ending", "givingUp"}
  /\ broadcast(outcome)
  /\ Return

-----------------------------------------------------------------------------
Chunks == BoundedSeq(Pieces, MaxChunk) \ {<<>>}

Frames ==
  [kind : TextKinds \ {"chunk"}, text : Chunks]
    \cup [kind : Kinds \ TextKinds, text : {<<>>}]

(* Frames on which the boundary may end the turn.                           *)
EndFrames == {f \in Frames : f.kind \in {"idle", "end"}}

(* What run_turn reads while it waits for the end.                          *)
ReadFrame ==
  /\ stage = "reading"
  /\ \/ \E piece \in Chunks : HandleChunk(piece)
     \/ \E f \in Frames : HandleOther(f, FALSE)
     \/ \E f \in EndFrames : HandleOther(f, TRUE)

Next ==
  \/ \E how \in {"increments", "snapshots"} : BeginTurn(how)
  \/ ReadFrame
  \/ GiveUp
  \/ Vanish
  \/ Report
  \/ \E s \in Subs : subscribe(s) \/ Receive(s)
  \/ \E S \in {{s} : s \in registered} \cup {registered} : unsubscribe(S)

Spec == Init /\ [][Next]_textVars

-----------------------------------------------------------------------------
(* Properties.                                                              *)

(* Deltas add up: a subscriber that lost nothing since the previous turn    *)
(* was reported shows, once its channel is read, exactly the text collected *)
(* so far, and nothing between turns; losing events, the report of a turn   *)
(* among them, does no harm beyond the next report that gets through.       *)
InStepShowsTheText ==
  \A s \in inStep \cap registered :
    stage \in {"idle", "reading"} =>
      FoldLeft(Show, shows[s], channel[s]) =
        IF stage = "reading" THEN collected ELSE <<>>

(* Whether the daemon streams increments or the whole text so far, what is  *)
(* collected is what it streamed, as long as no increment happens to begin  *)
(* with all the text before it.                                             *)
TextIsExact ==
  exact /\ stage = "reading" => collected = sent

(* A frame never completes a turn with nothing to show: a blank final reply *)
(* falls back to the text so far, and a turn without text fails.            *)
NoBlankReply ==
  stage = "ending" /\ outcome.type = "complete" => Trim(outcome.text) # <<>>

=============================================================================
