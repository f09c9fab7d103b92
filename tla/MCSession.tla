------------------------------ MODULE MCSession ------------------------------
(***************************************************************************)
(* What an application gets out of the frames of a session: where turns     *)
(* end (TurnStream), the text they show (TurnText), and cards (CardStream). *)
(* The three share no state, so that every behaviour follows one of them    *)
(* while the other two rest in their initial states.                        *)
(***************************************************************************)
EXTENDS MCTurnStream

CONSTANTS
  Words, Blank, MinPieces, IdleCompletes, Subs, ChannelSize, TextTurns,
  MaxChunk, MaxText,
  Ids, Fields, NoId, MaxValue, MaxWire

VARIABLES
  stage, turns, collected, outcome, registered, channel, shows, inStep, style,
  sent, exact,
  daemon, wire, cards, order, replaying, lost, beginLost

Text == INSTANCE TurnText WITH MaxTurns <- TextTurns
Card == INSTANCE CardStream

(* A configured minimum of 0 is replaced by the default.  An empty id is    *)
(* no id of a card.                                                         *)
ASSUME ShownAssumption ==
  /\ MinPieces \in Nat \ {0}
  /\ MaxText \in Nat /\ TextTurns \in Nat /\ ChannelSize \in Nat
  /\ MaxValue \in Nat /\ NoId \notin Ids

textVars == <<stage, turns, collected, outcome, registered, channel, shows,
              inStep, style, sent, exact>>
cardVars == <<daemon, wire, cards, order, replaying, lost, beginLost>>

MCInit == Init /\ Text!Init /\ Card!Init

MCNext ==
  \/ Text!Init /\ Card!Init /\ Next /\ UNCHANGED <<textVars, cardVars>>
  \/ Init /\ Card!Init /\ Text!Next /\ UNCHANGED <<vars, cardVars>>
  \/ Init /\ Text!Init /\ Card!Next /\ UNCHANGED <<vars, textVars>>

MCSpec == MCInit /\ [][MCNext]_<<vars, textVars, cardVars>>

-----------------------------------------------------------------------------
(* The types of TurnText and of CardStream.                                 *)
ShownTypeOK == Text!TypeOK /\ Card!TypeOK

(* Deltas add up for every subscriber that lost none: see TurnText.         *)
InStepShowsTheText == Text!InStepShowsTheText

(* The text collected is the text streamed: see TurnText.                   *)
TextIsExact == Text!TextIsExact

(* No frame completes a turn with nothing to show: see TurnText.            *)
NoBlankReply == Text!NoBlankReply

(* A replay without loss makes the projection right again: see CardStream.  *)
ReplayHeals == Card!ReplayHeals

(* Cards stay in the daemon's order whatever else is lost: see CardStream.  *)
OrderKept == Card!OrderKept
=============================================================================
