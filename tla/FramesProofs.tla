--------------------------- MODULE FramesProofs -------------------------------
(***************************************************************************)
(* Theorems about the frames of a session: where turns end (TurnStream, for *)
(* any number of turns and any kinds of frames that come without turn_id),  *)
(* the text they show (TurnText) and the cards (CardStream), for every size *)
(* of a text, a channel and the frames under way.                           *)
(***************************************************************************)
EXTENDS MCSession, SequenceLemmas

-----------------------------------------------------------------------------
(* Inductive strengthenings.                                                *)

(* Nothing has come of a turn before the first one is sent.                 *)
IdleAtFirst == phase = "idle" => turn = 0 /\ own = "nothing"

(* What ended the turn is only set when run_turn is over.                   *)
EndedWhenOver == phase = "reading" => by.how = "no"

(* While run_turn reads, its boundary has not ended, and it is armed once   *)
(* it saw running.  From the running frame of the turn on it expects this   *)
(* turn, and remembers its progress.                                        *)
BoundaryFollows ==
  phase = "reading" =>
    /\ boundary.ended = "no"
    /\ ~boundary.cancelled
    /\ boundary.expected <= turn
    /\ boundary.started => armed
    /\ own # "nothing" => boundary.started /\ boundary.expected = turn
    /\ own = "progress" => boundary.progress
    /\ own # "terminal"

(* The same for DaemonSession.                                              *)
SessionFollows ==
  session.ended = "no" =>
    /\ session.expected <= turn
    /\ own # "nothing" => session.started /\ session.expected = turn
    /\ own = "progress" => session.progress
    /\ own # "terminal"

(* As long as run_turn is not over, and no cancellation notice came,        *)
(* DaemonSession reads too, expects the same turn, and has seen no more     *)
(* progress.                                                                *)
ReadersAgree ==
  phase # "over" /\ ~session.cancelled =>
    /\ session.ended = "no"
    /\ session.started = boundary.started
    /\ session.expected = boundary.expected
    /\ session.progress => boundary.progress

ReadersInv ==
  /\ TypeOK /\ IdleAtFirst /\ EndedWhenOver
  /\ BoundaryFollows /\ SessionFollows /\ ReadersAgree

-----------------------------------------------------------------------------
(* What a frame does to a reader.                                           *)

LEMMA FrameType ==
  ASSUME NEW f \in Frames
  PROVE  f.kind \in Kinds /\ f.turn \in 0..MaxTurns
BY StreamAssumption DEF Frames, Turns, NoTurn

(* A boundary that is fed stays a reader.                                   *)
LEMMA BoundaryType ==
  ASSUME NEW b \in Readers(MaxTurns), NEW f \in Frames
  PROVE  feed_boundary(b, f) \in Readers(MaxTurns)
BY FrameType, StreamAssumption
   DEF feed_boundary, SeeRunning, SeeProgress, EndIf, Readers,
       is_turn_progress_chunk, Kinds, StatusKinds, EventKinds

(* So does DaemonSession.                                                   *)
LEMMA SessionType ==
  ASSUME NEW s \in Readers(MaxTurns), NEW f \in Frames
  PROVE  iter_turn_chunk(s, f) \in Readers(MaxTurns)
BY FrameType, StreamAssumption
   DEF iter_turn_chunk, SeeRunning, SeeProgress, EndIf, Readers,
       is_turn_progress_chunk

-----------------------------------------------------------------------------
(* Type correctness.                                                        *)

LEMMA InitType == Init => TypeOK
<1> SUFFICES ASSUME Init PROVE TypeOK
  OBVIOUS
<1>1. MaxTurns \in Nat
  BY StreamAssumption
<1>2. boundary \in Readers(MaxTurns) /\ session \in Readers(MaxTurns)
  BY <1>1 DEF Init, NewReader, Readers, NoTurn
<1>3. by \in [how : {"no", "deliverable", "failure", "timeout"} \cup ByBoundary,
             turn : 0..MaxTurns]
  BY <1>1 DEF Init, NotEnded, NoTurn
<1>4. turn \in 0..MaxTurns
  BY <1>1 DEF Init
<1> QED
  BY <1>2, <1>3, <1>4 DEF Init, TypeOK

LEMMA StepType == TypeOK /\ [Next]_vars => TypeOK'
<1> SUFFICES ASSUME TypeOK, [Next]_vars PROVE TypeOK'
  OBVIOUS
<1>0. MaxTurns \in Nat
  BY StreamAssumption
<1>1. CASE SendTurn
  <2>1. boundary' \in Readers(MaxTurns) /\ session' \in Readers(MaxTurns)
    BY <1>0, <1>1 DEF SendTurn, NewReader, Readers, NoTurn
  <2>2. by' \in [how : {"no", "deliverable", "failure", "timeout"} \cup ByBoundary,
                 turn : 0..MaxTurns]
    BY <1>0, <1>1 DEF SendTurn, NotEnded, NoTurn
  <2>3. turn' \in 0..MaxTurns
    BY <1>0, <1>1 DEF SendTurn, TypeOK
  <2> QED
    BY <1>1, <2>1, <2>2, <2>3 DEF SendTurn, TypeOK
<1>2. CASE IterTurnChunks
  BY <1>2 DEF IterTurnChunks, TypeOK
<1>3. CASE GiveUp
  <2>1. by' \in [how : {"no", "deliverable", "failure", "timeout"} \cup ByBoundary,
                 turn : 0..MaxTurns]
    BY <1>0, <1>3 DEF GiveUp, NoTurn
  <2> QED
    BY <1>3, <2>1 DEF GiveUp, TypeOK, clientVars
<1>4. ASSUME NEW f \in Frames, Arrive(f) PROVE TypeOK'
  <2>1. f.kind \in Kinds /\ f.turn \in 0..MaxTurns
    BY FrameType
  <2>2. boundary' \in Readers(MaxTurns)
    BY <1>4, BoundaryType DEF Arrive, RunTurnReads, TypeOK
  <2>3. session' \in Readers(MaxTurns)
    BY <1>4, SessionType DEF Arrive, SessionReads, TypeOK
  <2>4. Outcome(f) \in {"no", "deliverable", "failure"} \cup ByBoundary
    BY DEF Outcome, ByBoundary
  <2>5. by' \in [how : {"no", "deliverable", "failure", "timeout"} \cup ByBoundary,
                 turn : 0..MaxTurns]
    BY <1>4, <2>1, <2>4 DEF Arrive, RunTurnReads, TypeOK
  <2>6. /\ phase' \in {"idle", "reading", "over"}
        /\ armed' \in BOOLEAN
        /\ hasText' \in BOOLEAN
    BY <1>4 DEF Arrive, RunTurnReads, TypeOK
  <2>7. f.turn # NoTurn => f.turn \in Turns
    BY DEF Frames
  <2>8. announced' \subseteq Turns /\ finished' \subseteq Turns
    BY <1>4, <2>7, ZenonT(20) DEF Arrive, TypeOK
  <2>9. own' \in {"nothing", "running", "progress", "terminal"}
    BY <1>4 DEF Arrive, OwnAfter, TypeOK
  <2> QED
    BY <1>4, <2>2, <2>3, <2>5, <2>6, <2>8, <2>9 DEF Arrive, TypeOK
<1>5. CASE UNCHANGED vars
  BY <1>5 DEF vars, clientVars, TypeOK
<1> QED
  BY <1>1, <1>2, <1>3, <1>4, <1>5 DEF Next

(* Every variable keeps to its type.                                        *)
THEOREM TypeCorrect == Spec => []TypeOK
BY InitType, StepType, PTL DEF Spec

-----------------------------------------------------------------------------
(* The readers of a turn.                                                   *)

(* A boundary that is fed and does not end: running may bind it to the turn *)
(* of the frame, and progress is remembered unless it is bound anew.        *)
LEMMA BoundaryStep ==
  ASSUME NEW b \in Readers(MaxTurns), NEW f \in Frames, b.ended = "no",
         feed_boundary(b, f).ended = "no"
  PROVE  /\ feed_boundary(b, f).cancelled = b.cancelled
         /\ f.kind = "running" => feed_boundary(b, f) = SeeRunning(b, f.turn)
         /\ f.kind # "running" =>
              /\ feed_boundary(b, f) = SeeProgress(b, f)
              /\ ~Terminal(b, f)
BY FrameType DEF feed_boundary, SeeRunning, SeeProgress, EndIf, Readers

(* The same for DaemonSession, which drops frames that are not of its turn. *)
LEMMA SessionStep ==
  ASSUME NEW s \in Readers(MaxTurns), NEW f \in Frames, s.ended = "no"
  PROVE  /\ f.kind = "running" => iter_turn_chunk(s, f) = SeeRunning(s, f.turn)
         /\ f.kind = "notice" =>
              iter_turn_chunk(s, f) = [s EXCEPT !.cancelled = TRUE]
         /\ f.kind = "error" => iter_turn_chunk(s, f).ended = "error"
         /\ f.kind \notin {"running", "notice", "error"} =>
              \/ /\ iter_turn_chunk(s, f) = s
                 /\ \/ f.kind = "noop"
                    \/ s.expected # NoTurn /\ ~Passes(s, f)
              \/ iter_turn_chunk(s, f)
                   = EndIf(SeeProgress(s, f), Terminal(s, f))
<1>1. CASE s.expected # NoTurn /\ ~Passes(s, f)
  <2>1. iter_turn_chunk(s, f) = s
    BY <1>1 DEF iter_turn_chunk
  <2>2. f.kind \notin {"running", "notice", "error"}
    BY <1>1 DEF Passes
  <2> QED
    BY <1>1, <2>1, <2>2
<1>2. CASE s.expected = NoTurn \/ Passes(s, f)
  <2>1. f.kind = "error" => iter_turn_chunk(s, f).ended = "error"
    BY <1>2 DEF iter_turn_chunk, should_drop_stream_chunk_early, Readers
  <2>2. f.kind = "running" => iter_turn_chunk(s, f) = SeeRunning(s, f.turn)
    BY <1>2 DEF iter_turn_chunk, should_drop_stream_chunk_early
  <2>3. f.kind = "notice" =>
          iter_turn_chunk(s, f) = [s EXCEPT !.cancelled = TRUE]
    BY <1>2 DEF iter_turn_chunk, should_drop_stream_chunk_early
  <2>4. f.kind = "noop" => iter_turn_chunk(s, f) = s
    BY <1>2 DEF iter_turn_chunk, EventKinds, should_drop_stream_chunk_early
  <2>5. f.kind \notin {"error", "running", "notice", "noop"} =>
          iter_turn_chunk(s, f) = EndIf(SeeProgress(s, f), Terminal(s, f))
    BY <1>2 DEF iter_turn_chunk, should_drop_stream_chunk_early
  <2> QED
    BY <2>1, <2>2, <2>3, <2>4, <2>5
<1> QED
  BY <1>1, <1>2

(* After its end DaemonSession does not change.                             *)
LEMMA SessionStays ==
  ASSUME NEW s \in Readers(MaxTurns), NEW f, iter_turn_chunk(s, f).ended = "no"
  PROVE  s.ended = "no"
BY DEF iter_turn_chunk

(* A frame that leaves run_turn reading has been skipped before the turn    *)
(* was armed, or fed to the boundary, which did not end.                    *)
LEMMA StillReading ==
  ASSUME TypeOK, NEW f \in Frames, Arrive(f), phase' = "reading"
  PROVE  /\ phase = "reading"
         /\ \/ /\ ~armed
               /\ f.kind \in TerminalKinds
               /\ boundary' = boundary
               /\ armed' = armed
            \/ /\ f.kind \notin {"error", "fault", "reply", "report"}
               /\ armed'
               /\ boundary' = feed_boundary(boundary, f)
               /\ boundary'.ended = "no"
<1>1. phase = "reading"
  BY DEF Arrive, RunTurnReads
<1>2. CASE ~armed /\ StaleTurnEnd(f)
  BY <1>1, <1>2 DEF Arrive, RunTurnReads, StaleTurnEnd
<1>3. CASE armed \/ ~StaleTurnEnd(f)
  <2>1. Outcome(f) = "no"
    BY <1>1, <1>3 DEF Arrive, RunTurnReads
  <2>2. f.kind \notin {"error", "fault", "reply", "report"}
    BY <2>1 DEF Outcome
  <2>3. feed_boundary(boundary, f).ended = "no"
    BY <2>1, <2>2 DEF Outcome
  <2> QED
    BY <1>1, <1>3, <2>2, <2>3 DEF Arrive, RunTurnReads
<1> QED
  BY <1>1, <1>2, <1>3 DEF TypeOK

LEMMA ArriveBoundary ==
  ASSUME TypeOK, TypeOK', BoundaryFollows, NEW f \in Frames, Arrive(f)
  PROVE  BoundaryFollows'
<1> SUFFICES ASSUME phase' = "reading" PROVE BoundaryFollows'
  BY DEF BoundaryFollows
<1>1. /\ turn \in Nat /\ turn > 0 /\ turn' = turn /\ f.turn \in Nat
      /\ boundary \in Readers(MaxTurns)
      /\ own' = IF f.turn = turn THEN OwnAfter(f) ELSE own
  BY FrameType, StreamAssumption DEF Arrive, TypeOK
<1>2. phase = "reading"
  BY StillReading
<1>3. CASE ~armed /\ f.kind \in TerminalKinds /\ boundary' = boundary
  <2>1. own = "nothing" /\ ~boundary.started
    BY <1>2, <1>3 DEF BoundaryFollows, TypeOK
  <2>2. own' = "nothing"
    BY <1>1, <1>3, <2>1 DEF OwnAfter, TerminalKinds
  <2> QED
    BY <1>1, <1>2, <1>3, <2>1, <2>2 DEF BoundaryFollows
<1>4. CASE /\ f.kind \notin {"error", "fault", "reply", "report"}
           /\ armed'
           /\ boundary' = feed_boundary(boundary, f)
           /\ boundary'.ended = "no"
  <2>1. CASE f.kind = "running"
    <3>1. boundary' = SeeRunning(boundary, f.turn)
      BY <1>1, <1>2, <1>4, <2>1, BoundaryStep DEF BoundaryFollows
    <3>2. f.turn <= turn
      BY <1>1, <2>1 DEF Arrive, CanArrive, NoTurn
    <3>3. /\ own' = "nothing" => own = "nothing"
          /\ own' = "progress" => own = "progress"
          /\ own' # "terminal"
          /\ own = "nothing" /\ own' # "nothing" => f.turn = turn
      BY <1>1, <1>2, <2>1 DEF OwnAfter, BoundaryFollows
    <3> QED
      BY <1>1, <1>2, <1>4, <3>1, <3>2, <3>3
         DEF BoundaryFollows, SeeRunning, Readers, NoTurn
  <2>2. CASE f.kind # "running"
    <3>1. boundary' = SeeProgress(boundary, f) /\ ~Terminal(boundary, f)
      BY <1>1, <1>2, <1>4, <2>2, BoundaryStep DEF BoundaryFollows
    <3>2. /\ boundary'.started = boundary.started
          /\ boundary'.expected = boundary.expected
          /\ boundary'.cancelled = boundary.cancelled
          /\ boundary'.progress
               = (boundary.progress \/ is_turn_progress_chunk(f))
      BY <1>1, <3>1 DEF SeeProgress, Readers
    <3>3. own' = "nothing" <=> own = "nothing"
      BY <1>1, <2>2 DEF OwnAfter, TypeOK
    <3>4. own' = "progress" => boundary'.progress
      BY <1>1, <1>2, <3>2
         DEF OwnAfter, BoundaryFollows, is_turn_progress_chunk
    <3>5. own' # "terminal"
      BY <1>1, <1>2, <3>1
         DEF OwnAfter, BoundaryFollows, Terminal, is_idle_terminal_allowed,
             is_stop_allowed, turn_ids_match, NoTurn
    <3> QED
      BY <1>1, <1>2, <1>4, <3>2, <3>3, <3>4, <3>5 DEF BoundaryFollows
  <2> QED
    BY <2>1, <2>2
<1> QED
  BY <1>3, <1>4, StillReading

LEMMA ArriveSession ==
  ASSUME TypeOK, TypeOK', SessionFollows, NEW f \in Frames, Arrive(f)
  PROVE  SessionFollows'
<1> SUFFICES ASSUME session'.ended = "no" PROVE SessionFollows'
  BY DEF SessionFollows
<1>1. /\ turn \in Nat /\ turn > 0 /\ turn' = turn /\ f.turn \in Nat
      /\ session \in Readers(MaxTurns)
      /\ f.kind \in Kinds
      /\ own' = IF f.turn = turn THEN OwnAfter(f) ELSE own
  BY FrameType, StreamAssumption DEF Arrive, TypeOK
<1>2. /\ session.ended = "no"
      /\ \/ session' = session /\ f.kind = "end"
         \/ session' = iter_turn_chunk(session, f)
  BY <1>1, SessionStays DEF Arrive, SessionReads
<1>3. CASE f.kind = "running"
  <2>1. session' = SeeRunning(session, f.turn)
    BY <1>1, <1>2, <1>3, SessionStep
  <2>2. f.turn <= turn
    BY <1>1, <1>3 DEF Arrive, CanArrive, NoTurn
  <2>3. /\ own' = "nothing" => own = "nothing"
        /\ own' = "progress" => own = "progress"
        /\ own' # "terminal"
        /\ own = "nothing" /\ own' # "nothing" => f.turn = turn
    BY <1>1, <1>2, <1>3 DEF OwnAfter, SessionFollows
  <2> QED
    BY <1>1, <1>2, <2>1, <2>2, <2>3
       DEF SessionFollows, SeeRunning, Readers, NoTurn
<1>4. CASE session' = session /\ f.kind \in {"end", "noop"}
  BY <1>1, <1>2, <1>4 DEF OwnAfter, SessionFollows
<1>5. CASE f.kind = "notice" /\ session' = iter_turn_chunk(session, f)
  <2>1. session' = [session EXCEPT !.cancelled = TRUE]
    BY <1>1, <1>2, <1>5, SessionStep
  <2> QED
    BY <1>1, <1>2, <1>5, <2>1 DEF OwnAfter, SessionFollows, Readers
<1>6. CASE /\ f.kind # "running"
           /\ session' = session
           /\ session.expected # NoTurn /\ ~Passes(session, f)
  <2>1. own # "nothing" => f.turn # turn
    BY <1>1, <1>2, <1>6 DEF SessionFollows, Passes, turn_ids_match
  <2>2. own' = own
    BY <1>1, <1>6, <2>1 DEF OwnAfter
  <2> QED
    BY <1>1, <1>2, <1>6, <2>2 DEF SessionFollows
<1>7. CASE /\ f.kind # "running"
           /\ session' = EndIf(SeeProgress(session, f), Terminal(session, f))
  <2>1. session' = SeeProgress(session, f) /\ ~Terminal(session, f)
    BY <1>1, <1>7 DEF EndIf, SeeProgress, Readers
  <2>2. /\ session'.started = session.started
        /\ session'.expected = session.expected
        /\ session'.progress = (session.progress \/ is_turn_progress_chunk(f))
    BY <1>1, <2>1 DEF SeeProgress, Readers
  <2>3. own' = "nothing" <=> own = "nothing"
    BY <1>1, <1>7 DEF OwnAfter, TypeOK
  <2>4. own' = "progress" => session'.progress
    BY <1>1, <1>2, <2>2 DEF OwnAfter, SessionFollows, is_turn_progress_chunk
  <2>5. own' # "terminal"
    BY <1>1, <1>2, <2>1
       DEF OwnAfter, SessionFollows, Terminal, is_idle_terminal_allowed,
           is_stop_allowed, turn_ids_match, NoTurn
  <2> QED
    BY <1>1, <1>2, <2>2, <2>3, <2>4, <2>5 DEF SessionFollows
<1> QED
  BY <1>1, <1>2, <1>3, <1>4, <1>5, <1>6, <1>7, SessionStep

LEMMA ArriveAgree ==
  ASSUME TypeOK, TypeOK', IdleAtFirst, BoundaryFollows, ReadersAgree,
         NEW f \in Frames, Arrive(f)
  PROVE  ReadersAgree'
<1> SUFFICES ASSUME phase' # "over", ~session'.cancelled
             PROVE  /\ session'.ended = "no"
                    /\ session'.started = boundary'.started
                    /\ session'.expected = boundary'.expected
                    /\ session'.progress => boundary'.progress
  BY DEF ReadersAgree
<1>1. phase' = "reading"
  BY DEF Arrive, RunTurnReads, IdleAtFirst, TypeOK
<1>2. /\ phase = "reading"
      /\ session \in Readers(MaxTurns) /\ boundary \in Readers(MaxTurns)
      /\ boundary.ended = "no" /\ (boundary.started => armed)
      /\ f.turn \in Nat
  BY <1>1, StillReading, FrameType DEF BoundaryFollows, TypeOK
<1>3. /\ session' = session \/ session' = iter_turn_chunk(session, f)
      /\ session' = session \/ f.kind # "end" \/ ~peeling
  BY DEF Arrive, SessionReads
<1>4. ~session.cancelled
  BY <1>2, <1>3
     DEF iter_turn_chunk, SeeRunning, SeeProgress, EndIf, Readers
<1>5. /\ session.ended = "no"
      /\ session.started = boundary.started
      /\ session.expected = boundary.expected
      /\ session.progress => boundary.progress
  BY <1>2, <1>4 DEF ReadersAgree
<1>6. CASE ~armed /\ f.kind \in TerminalKinds /\ boundary' = boundary
  <2>1. ~Terminal(session, f)
    BY <1>2, <1>5, <1>6
       DEF Terminal, is_turn_terminal_allowed, is_idle_terminal_allowed,
           is_stop_allowed, TypeOK, Readers
  <2>2. SeeProgress(session, f) = session
    BY <1>2, <1>6
       DEF SeeProgress, is_turn_progress_chunk, TerminalKinds, Readers
  <2>3. session' = session
    BY <1>2, <1>3, <1>5, <1>6, <2>1, <2>2, SessionStep DEF EndIf, TerminalKinds
  <2> QED
    BY <1>5, <1>6, <2>3
<1>7. CASE /\ f.kind \notin {"error", "fault", "reply", "report"}
           /\ boundary' = feed_boundary(boundary, f)
           /\ boundary'.ended = "no"
  <2>1. CASE f.kind = "running"
    <3>1. boundary' = SeeRunning(boundary, f.turn)
      BY <1>2, <1>7, <2>1, BoundaryStep
    <3>2. session' = SeeRunning(session, f.turn)
      BY <1>2, <1>5, <2>1, SessionStep DEF Arrive, SessionReads
    <3> QED
      BY <1>2, <1>5, <3>1, <3>2 DEF SeeRunning, Readers
  <2>2. CASE f.kind # "running"
    <3>1. boundary' = SeeProgress(boundary, f) /\ ~Terminal(boundary, f)
      BY <1>2, <1>7, <2>2, BoundaryStep
    <3>2. ~Terminal(session, f)
      BY <1>4, <1>5, <3>1
         DEF Terminal, is_turn_terminal_allowed, is_idle_terminal_allowed,
             is_stop_allowed
    <3>3. f.kind # "notice" \/ session' = session
      BY <1>2, <1>3, <1>5, SessionStep DEF Readers
    <3>4. session' \in {session, SeeProgress(session, f)}
      BY <1>2, <1>3, <1>5, <1>7, <2>2, <3>2, <3>3, SessionStep DEF EndIf
    <3> QED
      BY <1>2, <1>5, <3>1, <3>4 DEF SeeProgress, Readers
  <2> QED
    BY <2>1, <2>2
<1> QED
  BY <1>1, <1>6, <1>7, StillReading

LEMMA InitInv == Init => ReadersInv
BY InitType
   DEF Init, ReadersInv, IdleAtFirst, EndedWhenOver, BoundaryFollows,
       SessionFollows, ReadersAgree, NewReader, NoTurn, NotEnded

LEMMA StepInv == ReadersInv /\ [Next]_vars => ReadersInv'
<1> SUFFICES ASSUME ReadersInv, [Next]_vars PROVE ReadersInv'
  OBVIOUS
<1> USE DEF ReadersInv, IdleAtFirst, EndedWhenOver
<1>0. TypeOK /\ TypeOK'
  BY StepType
<1>1. CASE SendTurn
  BY <1>0, <1>1
     DEF SendTurn, BoundaryFollows, SessionFollows, ReadersAgree, NewReader,
         NoTurn, NotEnded, TypeOK
<1>2. CASE IterTurnChunks
  BY <1>0, <1>2
     DEF IterTurnChunks, BoundaryFollows, SessionFollows, ReadersAgree
<1>3. CASE GiveUp
  BY <1>0, <1>3
     DEF GiveUp, BoundaryFollows, SessionFollows, ReadersAgree, clientVars
<1>4. ASSUME NEW f \in Frames, Arrive(f) PROVE ReadersInv'
  <2>1. IdleAtFirst'
    BY <1>0, <1>4 DEF Arrive, RunTurnReads, TypeOK
  <2>2. EndedWhenOver'
    BY <1>4 DEF Arrive, RunTurnReads
  <2> QED
    BY <1>0, <1>4, <2>1, <2>2, ArriveBoundary, ArriveSession, ArriveAgree
<1>5. CASE UNCHANGED vars
  BY <1>0, <1>5
     DEF vars, clientVars, BoundaryFollows, SessionFollows, ReadersAgree
<1> QED
  BY <1>1, <1>2, <1>3, <1>4, <1>5 DEF Next

LEMMA ReadersInvHolds == Spec => []ReadersInv
BY InitInv, StepInv, PTL DEF Spec

-----------------------------------------------------------------------------
(* The two turn-end contracts agree one way: DaemonSession ends no turn     *)
(* that TurnRunner would still be reading, except on a cancellation notice. *)
THEOREM SessionNotEarlier == Spec => []SessionEndsNoEarlier
<1>1. ReadersInv => SessionEndsNoEarlier
  BY DEF ReadersInv, ReadersAgree, SessionEndsNoEarlier
<1> QED
  BY <1>1, ReadersInvHolds, PTL

(* Running, progress and a terminal of the turn, in this order and with     *)
(* anything in between, end it for both clients.                            *)
THEOREM EndIsNotMissed == Spec => []TurnIsNotMissed
<1>1. ReadersInv => TurnIsNotMissed
  <2> SUFFICES ASSUME ReadersInv, own = "terminal"
               PROVE  phase = "over" /\ session.ended # "no"
    BY DEF TurnIsNotMissed
  <2>1. session.ended # "no" /\ phase # "reading"
    BY DEF ReadersInv, SessionFollows, BoundaryFollows
  <2>2. phase # "idle"
    BY DEF ReadersInv, IdleAtFirst
  <2> QED
    BY <2>1, <2>2 DEF ReadersInv, TypeOK
<1> QED
  BY <1>1, ReadersInvHolds, PTL

(* The step in which the boundary ends a turn: it was fed a terminal frame  *)
(* and allowed it.                                                          *)
LEMMA TerminalEnds ==
  ASSUME ReadersInv, [Next]_vars, by.how = "no", by'.how \in ByBoundary
  PROVE  \E f \in Frames :
           /\ Arrive(f)
           /\ phase = "reading"
           /\ by'.turn = f.turn
           /\ Terminal(boundary, f)
<1>1. PICK f \in Frames : Arrive(f)
  BY DEF Next, SendTurn, IterTurnChunks, GiveUp, vars, NotEnded, ByBoundary
<1>2. phase = "reading" /\ Outcome(f) \in ByBoundary /\ by'.turn = f.turn
  BY <1>1 DEF Arrive, RunTurnReads, ByBoundary
<1>3. feed_boundary(boundary, f).ended # "no"
  BY <1>2 DEF Outcome, ByBoundary
<1>4. boundary \in Readers(MaxTurns) /\ boundary.ended = "no"
  BY <1>2 DEF ReadersInv, BoundaryFollows, TypeOK
<1>5. Terminal(boundary, f)
  BY <1>3, <1>4 DEF feed_boundary, SeeRunning, SeeProgress, EndIf, Readers
<1> QED
  BY <1>1, <1>2, <1>5

(* Once a turn has read its own running frame, only a terminal frame of its *)
(* own makes its boundary end.                                              *)
THEOREM OwnRunningIsAShield == Spec => OwnRunningShields
<1> DEFINE Shields == by.how = "no" /\ by'.how \in ByBoundary /\ own # "nothing"
                        => by'.turn = turn
<1>1. ReadersInv /\ [Next]_vars => Shields
  <2> SUFFICES ASSUME ReadersInv, [Next]_vars, by.how = "no",
                      by'.how \in ByBoundary, own # "nothing"
               PROVE  by'.turn = turn
    OBVIOUS
  <2>1. PICK f \in Frames : /\ Arrive(f)
                            /\ phase = "reading"
                            /\ by'.turn = f.turn
                            /\ Terminal(boundary, f)
    BY TerminalEnds
  <2>2. boundary.expected = turn /\ turn > 0 /\ ~boundary.cancelled
    BY <2>1 DEF Arrive, ReadersInv, BoundaryFollows
  <2> QED
    BY <2>1, <2>2
       DEF Terminal, is_turn_terminal_allowed, is_idle_terminal_allowed,
           is_stop_allowed, turn_ids_match, NoTurn
<1>2. ReadersInv /\ [Next]_vars => [Shields]_vars
  BY <1>1
<1> QED
  BY <1>2, ReadersInvHolds, PTL DEF Spec, OwnRunningShields

-----------------------------------------------------------------------------
(* Leftovers of turns that have finished.                                   *)

(* If every earlier turn had finished when the turn was sent, they still    *)
(* have, and the boundary is bound to no other turn.                        *)
Settled ==
  settled /\ turn > 0 =>
    /\ 1..(turn - 1) \subseteq finished
    /\ phase = "reading" =>
         /\ boundary.expected \in {NoTurn, turn}
         /\ boundary.started => boundary.expected # NoTurn

SettledInv == Settled /\ LeftoverTerminalsAreHarmless

LEMMA ArriveSettled ==
  ASSUME "running" \notin UntaggedKinds, ReadersInv, TypeOK', SettledInv,
         NEW f \in Frames, Arrive(f), settled
  PROVE  /\ 1..(turn - 1) \subseteq finished'
         /\ phase' = "reading" =>
              /\ boundary'.expected \in {NoTurn, turn}
              /\ boundary'.started => boundary'.expected # NoTurn
<1>1. /\ turn \in Nat /\ turn > 0 /\ f.turn \in Nat
      /\ boundary \in Readers(MaxTurns)
      /\ 1..(turn - 1) \subseteq finished
  BY FrameType, StreamAssumption
     DEF Arrive, ReadersInv, TypeOK, SettledInv, Settled
<1>2. finished \subseteq finished'
  BY DEF Arrive
<1>3. ASSUME phase' = "reading"
      PROVE  /\ boundary'.expected \in {NoTurn, turn}
             /\ boundary'.started => boundary'.expected # NoTurn
  <2>1. /\ phase = "reading"
        /\ boundary.ended = "no"
        /\ boundary.expected \in {NoTurn, turn}
        /\ boundary.started => boundary.expected # NoTurn
    BY <1>1, <1>3, StillReading
       DEF ReadersInv, BoundaryFollows, SettledInv, Settled
  <2>2. CASE boundary' = boundary
    BY <2>1, <2>2
  <2>3. CASE /\ boundary' = feed_boundary(boundary, f)
             /\ boundary'.ended = "no"
    <3>1. CASE f.kind = "running"
      <4>1. boundary' = SeeRunning(boundary, f.turn)
        BY <1>1, <2>1, <2>3, <3>1, BoundaryStep
      <4>2. f.turn # NoTurn /\ f.turn <= turn /\ f.turn \notin finished
        BY <3>1 DEF Arrive, CanArrive
      <4>3. f.turn = turn
        BY <1>1, <4>2 DEF NoTurn
      <4> QED
        BY <1>1, <2>1, <4>1, <4>3 DEF SeeRunning, Readers, NoTurn
    <3>2. CASE f.kind # "running"
      <4>1. boundary' = SeeProgress(boundary, f)
        BY <1>1, <2>1, <2>3, <3>2, BoundaryStep
      <4> QED
        BY <1>1, <2>1, <4>1 DEF SeeProgress, Readers
    <3> QED
      BY <3>1, <3>2
  <2> QED
    BY <1>3, <2>2, <2>3, StillReading DEF ReadersInv
<1> QED
  BY <1>1, <1>2, <1>3

LEMMA StepSettled ==
  ASSUME "running" \notin UntaggedKinds, ReadersInv, ReadersInv', SettledInv,
         [Next]_vars
  PROVE  SettledInv'
<1> USE DEF SettledInv, Settled, LeftoverTerminalsAreHarmless
<1>0. turn \in Nat /\ TypeOK /\ TypeOK'
  BY StreamAssumption DEF ReadersInv, TypeOK
<1>1. CASE SendTurn
  <2>0. turn' - 1 = turn /\ finished' = finished
    BY <1>0, <1>1 DEF SendTurn
  <2>1. settled' => 1..(turn' - 1) \subseteq finished'
    BY <1>1, <2>0 DEF SendTurn
  <2> QED
    BY <1>0, <1>1, <2>1 DEF SendTurn, NewReader, NotEnded, NoTurn
<1>2. CASE IterTurnChunks
  BY <1>2 DEF IterTurnChunks
<1>3. CASE GiveUp
  BY <1>3 DEF GiveUp, clientVars
<1>4. ASSUME NEW f \in Frames, Arrive(f) PROVE SettledInv'
  <2>1. turn' = turn /\ settled' = settled
    BY <1>4 DEF Arrive
  <2>2. Settled'
    BY <1>0, <1>4, <2>1, ArriveSettled
  <2>3. CASE by'.how \in ByBoundary /\ by.how = "no"
    <3>1. PICK g \in Frames : /\ Arrive(g)
                              /\ phase = "reading"
                              /\ by'.turn = g.turn
                              /\ Terminal(boundary, g)
      BY <2>3, TerminalEnds
    <3>2. turn > 0 /\ ~boundary.cancelled
      BY <3>1 DEF Arrive, ReadersInv, BoundaryFollows
    <3>3. settled => g.turn = turn
      BY <3>1, <3>2
         DEF Terminal, is_turn_terminal_allowed, is_idle_terminal_allowed,
             is_stop_allowed, turn_ids_match, NoTurn
    <3> QED
      BY <2>1, <2>2, <3>1, <3>3
  <2>4. CASE by'.how \notin ByBoundary
    <3>1. by'.how \in {"no", "timeout", "deliverable", "failure"}
      BY <1>0, <2>4 DEF TypeOK
    <3> QED
      BY <2>2, <3>1
  <2>5. CASE by.how # "no"
    <3>1. phase # "reading"
      BY <2>5 DEF ReadersInv, EndedWhenOver
    <3>2. by' = by
      BY <1>4, <3>1 DEF Arrive, RunTurnReads
    <3> QED
      BY <2>1, <2>2, <2>5, <3>2
  <2> QED
    BY <2>3, <2>4, <2>5
<1>5. CASE UNCHANGED vars
  BY <1>5 DEF vars, clientVars
<1> QED
  BY <1>1, <1>2, <1>3, <1>4, <1>5 DEF Next

(* If the daemon tags its running frames, a turn that follows finished      *)
(* turns is neither completed nor failed by their running, progress and     *)
(* terminal frames.  Their late replies, reports and errors are left to it. *)
THEOREM LeftoverTerminalsEndNoTurn ==
  ASSUME "running" \notin UntaggedKinds
  PROVE  Spec => []LeftoverTerminalsAreHarmless
<1>1. Init => SettledInv
  BY DEF Init, SettledInv, Settled, LeftoverTerminalsAreHarmless, NotEnded
<1>2. ReadersInv /\ ReadersInv' /\ SettledInv /\ [Next]_vars => SettledInv'
  BY StepSettled
<1>3. SettledInv => LeftoverTerminalsAreHarmless
  BY DEF SettledInv
<1> QED
  BY <1>1, <1>2, <1>3, ReadersInvHolds, PTL DEF Spec

-----------------------------------------------------------------------------
(* The text of a turn.                                                      *)

LEMMA TextsAreSequences ==
  ASSUME NEW t
  PROVE  t \in Text!Texts <=> t \in Seq(Text!Pieces) /\ Len(t) <= MaxText
<1>1. MaxText \in Nat
  BY ShownAssumption
<1>2. Text!Texts = UNION {[1..m -> Text!Pieces] : m \in 0..MaxText}
  BY DEF Text!Texts, Text!BoundedSeq, Text!SeqOf
<1>3. ASSUME t \in Text!Texts PROVE t \in Seq(Text!Pieces) /\ Len(t) <= MaxText
  <2>1. PICK m \in 0..MaxText : t \in [1..m -> Text!Pieces]
    BY <1>2, <1>3
  <2>2. m \in Nat /\ t \in Seq(Text!Pieces)
    BY <1>1, <2>1
  <2>3. DOMAIN t = 1..m /\ Len(t) = m
    BY <2>1, <2>2
  <2> QED
    BY <1>1, <2>1, <2>2, <2>3
<1>4. ASSUME t \in Seq(Text!Pieces), Len(t) <= MaxText PROVE t \in Text!Texts
  <2>1. Len(t) \in 0..MaxText /\ t \in [1..Len(t) -> Text!Pieces]
    BY <1>1, <1>4
  <2> QED
    BY <1>2, <2>1
<1> QED
  BY <1>3, <1>4

(* A text with a piece that is not blank is cut from the first to the last  *)
(* of these.                                                                *)
LEMMA TrimSolid ==
  ASSUME NEW t \in Seq(Text!Pieces), Text!Solid(t) # {}
  PROVE  /\ Text!Trim(t) \in Seq(Text!Pieces)
         /\ Len(Text!Trim(t)) \in 1..Len(t)
         /\ Text!Solid(Text!Trim(t)) # {}
<1> DEFINE S == Text!Solid(t)
           a == CHOOSE i \in S : \A j \in S : i <= j
           b == CHOOSE i \in S : \A j \in S : j <= i
<1>1. /\ S \in SUBSET (1..Len(t)) /\ S # {} /\ Len(t) \in Nat
      /\ \A i \in S : t[i] # Blank
  BY DEF Text!Solid
<1> HIDE DEF S
<1>2. a \in S /\ \A j \in S : a <= j
  <2>1. S \in SUBSET Nat
    BY <1>1
  <2>2. \E i \in S : \A j \in S : i <= j
    BY <1>1, <2>1, LeastNumber
  <2> QED
    BY <2>2
<1>3. b \in S /\ \A j \in S : j <= b
  <2>1. \E i \in S : \A j \in S : j <= i
    BY <1>1, GreatestNumber
  <2> QED
    BY <2>1
<1>4. Text!Trim(t) = SubSeq(t, a, b)
  BY DEF Text!Trim, S
<1> HIDE DEF a, b
<1>5. a \in 1..Len(t) /\ b \in 1..Len(t) /\ a <= b
  BY <1>1, <1>2, <1>3
<1>6. \A i \in a..b : t[i] \in Text!Pieces
  BY <1>5
<1>7. /\ SubSeq(t, a, b) \in Seq(Text!Pieces)
      /\ Len(SubSeq(t, a, b)) = b - a + 1
      /\ SubSeq(t, a, b)[1] = t[a]
  BY <1>5, <1>6, SubSeqProperties
<1>8. 1 \in DOMAIN SubSeq(t, a, b)
  BY <1>5, <1>7
<1>9. 1 \in Text!Solid(SubSeq(t, a, b))
  BY <1>1, <1>2, <1>7, <1>8 DEF Text!Solid
<1> QED
  BY <1>4, <1>5, <1>7, <1>9

(* Trimming leaves something of a text, or nothing of a blank one; what it  *)
(* leaves is not blank.                                                     *)
LEMMA TrimProperties ==
  ASSUME NEW t \in Seq(Text!Pieces)
  PROVE  /\ Text!Trim(t) \in Seq(Text!Pieces)
         /\ Len(Text!Trim(t)) <= Len(t)
         /\ Text!Trim(t) # <<>> => Text!Trim(Text!Trim(t)) # <<>>
<1>1. CASE Text!Solid(t) = {}
  BY <1>1 DEF Text!Trim
<1>2. CASE Text!Solid(t) # {}
  <2>1. /\ Text!Trim(t) \in Seq(Text!Pieces)
        /\ Len(Text!Trim(t)) \in 1..Len(t)
        /\ Text!Solid(Text!Trim(t)) # {}
    BY <1>2, TrimSolid
  <2>2. Len(Text!Trim(Text!Trim(t))) >= 1
    BY <2>1, TrimSolid
  <2> QED
    BY <2>1, <2>2
<1> QED
  BY <1>1, <1>2

(* Frames that run_turn can be given, streamed pieces included.             *)
TextFrame == [kind : Text!Kinds, text : Seq(Text!Pieces)]

LEMMA FramesAreTextFrames ==
  /\ \A f \in Text!Frames : f \in TextFrame
  /\ \A f \in Text!Frames : f.text = <<>> => f.kind \notin Text!TextKinds
<1>1. \A c \in Text!Chunks : c \in Seq(Text!Pieces) /\ c # <<>>
  <2> SUFFICES ASSUME NEW c \in Text!Chunks
               PROVE  c \in Seq(Text!Pieces) /\ c # <<>>
    OBVIOUS
  <2>1. PICK m \in 0..MaxChunk : c \in [1..m -> Text!Pieces]
    BY DEF Text!Chunks, Text!BoundedSeq, Text!SeqOf
  <2> QED
    BY <2>1 DEF Text!Chunks
<1>2. \A f \in [kind : Text!TextKinds \ {"chunk"}, text : Text!Chunks] :
        f \in TextFrame /\ f.text # <<>>
  BY <1>1 DEF TextFrame, Text!Kinds
<1>3. \A f \in [kind : Text!Kinds \ Text!TextKinds, text : {<<>>}] :
        f \in TextFrame /\ f.kind \notin Text!TextKinds
  <2>1. <<>> \in Seq(Text!Pieces)
    BY EmptySeq
  <2> QED
    BY <2>1 DEF TextFrame
<1> QED
  BY <1>2, <1>3 DEF Text!Frames

(* What the classifier makes of a frame.                                    *)
LEMMA ClassifyProperties ==
  ASSUME NEW f \in TextFrame, NEW acc \in Seq(Text!Pieces)
  PROVE  /\ Text!classify(f, acc).content \in Seq(Text!Pieces)
         /\ f.kind = "chunk" =>
              Text!classify(f, acc) = Text!continue_result(f.text)
         /\ f.kind \notin Text!TextKinds /\ ~IdleCompletes =>
              Text!classify(f, acc).content = <<>>
<1>1. f.kind \in Text!Kinds /\ f.text \in Seq(Text!Pieces)
  BY DEF TextFrame
<1>2. /\ Text!Trim(f.text) \in Seq(Text!Pieces)
      /\ Text!Trim(acc) \in Seq(Text!Pieces)
  BY <1>1, TrimProperties
<1> QED
  BY <1>1, <1>2
     DEF Text!classify, Text!continue_result, Text!deliverable_result,
         Text!Result, Text!Kinds, Text!TextKinds

(* The final reply, if there is one, is not blank, and no longer than what  *)
(* it is taken from.                                                        *)
LEMMA FinalProperties ==
  ASSUME NEW r, r.content \in Seq(Text!Pieces), NEW t \in Seq(Text!Pieces),
         Text!Final(r, t).found
  PROVE  /\ Text!Final(r, t).text \in Seq(Text!Pieces)
         /\ Text!Trim(Text!Final(r, t).text) # <<>>
         /\ \/ Len(Text!Final(r, t).text) <= Len(r.content)
            \/ Len(Text!Final(r, t).text) <= Len(t)
         /\ r.terminal = "deliverable"
<1> DEFINE g == Text!resolve_deliverable_final_content(r, t)
<1>1. Text!Final(r, t) = g /\ g.found
  BY DEF Text!Final, Text!NoText
<1>2. /\ r.terminal = "deliverable"
      /\ \/ g.text = Text!Trim(r.content) /\ Text!Trim(r.content) # <<>>
         \/ /\ g.text = Text!Trim(t)
            /\ Text!is_substantive_assistant_reply(t)
  BY <1>1 DEF Text!resolve_deliverable_final_content, Text!NoText
<1> HIDE DEF g
<1>3. CASE g.text = Text!Trim(r.content) /\ Text!Trim(r.content) # <<>>
  BY <1>1, <1>2, <1>3, TrimProperties
<1>4. CASE g.text = Text!Trim(t) /\ Text!is_substantive_assistant_reply(t)
  <2>1. MinPieces \in Nat /\ MinPieces > 0 /\ Len(Text!Trim(t)) >= MinPieces
    BY <1>4, ShownAssumption DEF Text!is_substantive_assistant_reply
  <2>2. Text!Trim(t) # <<>>
    <3>1. Len(<<>>) = 0
      BY EmptySeq
    <3> QED
      BY <2>1, <3>1
  <2> QED
    BY <1>1, <1>2, <1>4, <2>2, TrimProperties
<1> QED
  BY <1>2, <1>3, <1>4

(* A content is added to the text so far or takes its place.                *)
LEMMA DeltaProperties ==
  ASSUME NEW c \in Seq(Text!Pieces), collected \in Seq(Text!Pieces)
  PROVE  /\ Text!Delta(c).collected \in Seq(Text!Pieces)
         /\ Text!Delta(c).delta \in Seq(Text!Pieces)
         /\ Len(c) <= Len(Text!Delta(c).collected)
         /\ Len(Text!Delta(c).delta) <= Len(Text!Delta(c).collected)
<1>1. CASE Text!IsPrefix(collected, c)
  <2>1. /\ Text!Delta(c).collected = c
        /\ Text!Delta(c).delta = SubSeq(c, Len(collected) + 1, Len(c))
    BY <1>1 DEF Text!Delta
  <2>2. \A i \in Len(collected) + 1 .. Len(c) : c[i] \in Text!Pieces
    OBVIOUS
  <2>3. /\ SubSeq(c, Len(collected) + 1, Len(c)) \in Seq(Text!Pieces)
        /\ Len(SubSeq(c, Len(collected) + 1, Len(c))) <= Len(c)
    BY <2>2, SubSeqProperties
  <2> QED
    BY <2>1, <2>3
<1>2. CASE ~Text!IsPrefix(collected, c)
  <2>1. /\ Text!Delta(c).collected = collected \o c
        /\ Text!Delta(c).delta = c
    BY <1>2 DEF Text!Delta
  <2> QED
    BY <2>1, ConcatProperties
<1> QED
  BY <1>1, <1>2

(* Between turns there is no text.                                          *)
IdleIsEmpty == stage = "idle" => collected = <<>> /\ sent = <<>>

SubsType ==
  /\ registered \subseteq Subs
  /\ channel \in [Subs -> Seq(Text!Events)]
  /\ \A s \in Subs : Len(channel[s]) <= ChannelSize
  /\ shows \in [Subs -> Seq(Text!Pieces)]
  /\ inStep \subseteq Subs

LEMMA EventType ==
  ASSUME NEW type \in {"delta", "thinking_step", "complete", "query_error"},
         NEW t \in Text!Texts
  PROVE  Text!Event(type, t) \in Text!Events
BY DEF Text!Event, Text!Events

LEMMA NoTextIsText == <<>> \in Text!Texts
<1>1. <<>> \in Seq(Text!Pieces) /\ Len(<<>>) = 0
  BY EmptySeq
<1>2. Len(<<>>) <= MaxText
  BY <1>1, ShownAssumption
<1> QED
  BY <1>1, <1>2, TextsAreSequences

(* A broadcast leaves no channel above its size.                            *)
LEMMA BroadcastType ==
  ASSUME SubsType, NEW e \in Text!Events, Text!broadcast(e)
  PROVE  SubsType'
<1> DEFINE room == Text!HasRoom
<1>1. /\ channel' = [s \in Subs |-> IF s \in room THEN Append(channel[s], e)
                                    ELSE channel[s]]
      /\ registered' = registered /\ shows' = shows
      /\ inStep' = room \/ inStep' = inStep \cap room
  BY DEF Text!broadcast
<1>2. /\ room \subseteq Subs
      /\ \A s \in room : Len(channel[s]) < ChannelSize
  BY DEF Text!HasRoom, SubsType
<1> HIDE DEF room
<1>3. ASSUME NEW s \in Subs
      PROVE  channel'[s] \in Seq(Text!Events) /\ Len(channel'[s]) <= ChannelSize
  <2>1. /\ channel[s] \in Seq(Text!Events) /\ Len(channel[s]) <= ChannelSize
        /\ Len(channel[s]) \in Nat /\ ChannelSize \in Nat
    BY ShownAssumption DEF SubsType
  <2>2. CASE s \in room
    <3>1. channel'[s] = Append(channel[s], e)
      BY <1>1, <2>2
    <3>2. /\ Append(channel[s], e) \in Seq(Text!Events)
          /\ Len(Append(channel[s], e)) = Len(channel[s]) + 1
      BY <2>1, AppendProperties
    <3>3. Len(channel[s]) < ChannelSize
      BY <1>2, <2>2
    <3> QED
      BY <2>1, <3>1, <3>2, <3>3
  <2>3. CASE s \notin room
    BY <1>1, <2>1, <2>3
  <2> QED
    BY <2>2, <2>3
<1>4. channel' \in [Subs -> Seq(Text!Events)]
  BY <1>1, <1>3
<1> QED
  BY <1>1, <1>2, <1>3, <1>4 DEF SubsType

(* What a frame does to the text and to the turn: the turn goes on with the *)
(* text it has, or ends, and completes only with something to show.         *)
LEMMA HandleProperties ==
  ASSUME Text!TypeOK, NEW f \in TextFrame, NEW b, Text!Handle(f, b)
  PROVE  /\ turns' = turns
         /\ SubsType'
         /\ collected' \in Text!Texts
         /\ \/ /\ stage' = "ending"
               /\ outcome' \in Text!Events
               /\ outcome'.type = "complete" => Text!Trim(outcome'.text) # <<>>
            \/ /\ stage' = stage /\ outcome' = outcome
               /\ LET c == Text!classify(f, collected).content IN
                  collected' = IF c # <<>> THEN Text!Delta(c).collected
                               ELSE collected
<1> DEFINE r == Text!classify(f, collected)
           d == Text!Delta(r.content)
           final == Text!Final(r, d.collected)
<1>1. collected \in Seq(Text!Pieces) /\ collected \in Text!Texts /\ SubsType
  BY TextsAreSequences DEF Text!TypeOK, SubsType
<1>2. r.content \in Seq(Text!Pieces)
  BY <1>1, ClassifyProperties
<1>3. /\ turns' = turns
      /\ Len(d.collected) <= MaxText
      /\ r.terminal = "failed" =>
           /\ Text!EndWith(Text!Event("query_error", <<>>))
           /\ UNCHANGED <<collected, Text!subVars>>
      /\ r.terminal # "failed" =>
           /\ \/ Text!broadcast(Text!Event("thinking_step", <<>>))
              \/ Text!broadcast(Text!Event("delta", d.delta))
              \/ UNCHANGED Text!subVars
           /\ final.found =>
                /\ collected' = final.text
                /\ Text!EndWith(Text!Event("complete", final.text))
           /\ ~final.found =>
                /\ collected' = IF r.content # <<>> THEN d.collected
                                ELSE collected
                /\ Text!EndByBoundary(collected') \/ Text!GoOn
  BY DEF Text!Handle
<1>4. /\ d.collected \in Text!Texts /\ d.delta \in Text!Texts
      /\ d.collected \in Seq(Text!Pieces)
      /\ Len(r.content) <= MaxText
  <2>1. /\ d.collected \in Seq(Text!Pieces)
        /\ d.delta \in Seq(Text!Pieces)
        /\ Len(r.content) <= Len(d.collected)
        /\ Len(d.delta) <= Len(d.collected)
    BY <1>1, <1>2, DeltaProperties
  <2>2. /\ Len(d.collected) \in Nat /\ Len(d.delta) \in Nat
        /\ Len(r.content) \in Nat /\ MaxText \in Nat
    BY <1>2, <2>1, ShownAssumption
  <2> QED
    BY <1>3, <2>1, <2>2, TextsAreSequences
<1>5. ASSUME final.found
      PROVE  final.text \in Text!Texts /\ Text!Trim(final.text) # <<>>
  <2>1. /\ final.text \in Seq(Text!Pieces)
        /\ Text!Trim(final.text) # <<>>
        /\ \/ Len(final.text) <= Len(r.content)
           \/ Len(final.text) <= Len(d.collected)
    BY <1>2, <1>4, <1>5, FinalProperties
  <2>2. /\ Len(d.collected) \in Nat /\ Len(final.text) \in Nat
        /\ Len(r.content) \in Nat /\ MaxText \in Nat
    BY <1>2, <1>4, <2>1, ShownAssumption
  <2> QED
    BY <1>3, <1>4, <2>1, <2>2, TextsAreSequences
<1>6. d.collected = Text!Delta(r.content).collected
  OBVIOUS
<1> HIDE DEF d, final, r
<1>7. Text!Event("query_error", <<>>) \in Text!Events
  BY EventType, NoTextIsText
<1>8. SubsType'
  <2>1. Text!Event("thinking_step", <<>>) \in Text!Events
    BY EventType, NoTextIsText
  <2>2. Text!Event("delta", d.delta) \in Text!Events
    BY <1>4, EventType
  <2>3. UNCHANGED Text!subVars => SubsType'
    BY <1>1 DEF Text!subVars, SubsType
  <2> QED
    BY <1>1, <1>3, <2>1, <2>2, <2>3, BroadcastType
<1>9. CASE r.terminal = "failed"
  <2>1. /\ stage' = "ending" /\ outcome' = Text!Event("query_error", <<>>)
        /\ collected' = collected
    BY <1>3, <1>9 DEF Text!EndWith
  <2> QED
    BY <1>1, <1>3, <1>7, <1>8, <2>1 DEF Text!Event
<1>10. CASE r.terminal # "failed" /\ final.found
  <2>1. /\ stage' = "ending"
        /\ outcome' = Text!Event("complete", final.text)
        /\ collected' = final.text
    BY <1>3, <1>10 DEF Text!EndWith
  <2>2. outcome' \in Text!Events
    BY <1>5, <1>10, <2>1, EventType
  <2>3. outcome'.text = final.text
    BY <2>1 DEF Text!Event
  <2> QED
    BY <1>3, <1>5, <1>8, <1>10, <2>1, <2>2, <2>3
<1>11. CASE r.terminal # "failed" /\ ~final.found
  <2>1. /\ collected' = IF r.content # <<>> THEN d.collected ELSE collected
        /\ Text!EndByBoundary(collected') \/ Text!GoOn
    BY <1>3, <1>11
  <2>2. collected' \in Text!Texts
    BY <1>1, <1>4, <2>1
  <2>3. CASE Text!GoOn
    BY <1>3, <1>6, <1>8, <2>1, <2>2, <2>3 DEF Text!GoOn, r
  <2>4. CASE Text!EndByBoundary(collected')
    <3>1. /\ stage' = "ending"
          /\ outcome' = IF Text!Trim(collected') = <<>>
                          THEN Text!Event("query_error", <<>>)
                          ELSE Text!Event("complete", collected')
      BY <2>4 DEF Text!EndByBoundary, Text!EndWith
    <3>2. Text!Event("complete", collected') \in Text!Events
      BY <2>2, EventType
    <3>3. outcome' \in Text!Events
      BY <1>7, <3>1, <3>2
    <3>4. outcome'.type = "complete" => Text!Trim(outcome'.text) # <<>>
      BY <3>1 DEF Text!Event
    <3> QED
      BY <1>3, <1>8, <2>2, <3>1, <3>3, <3>4
  <2> QED
    BY <2>1, <2>3, <2>4
<1> QED
  BY <1>9, <1>10, <1>11

TurnType ==
  /\ stage \in {"idle", "reading", "ending", "givingUp"}
  /\ turns \in 0..TextTurns
  /\ collected \in Text!Texts
  /\ outcome \in Text!Events

DaemonType ==
  /\ style \in {"increments", "snapshots"}
  /\ sent \in Text!Texts
  /\ exact \in BOOLEAN

LEMMA TextTypeParts == Text!TypeOK <=> TurnType /\ SubsType /\ DaemonType
BY DEF Text!TypeOK, TurnType, SubsType, DaemonType

TextInv == Text!TypeOK /\ IdleIsEmpty /\ Text!NoBlankReply

LEMMA InitText == Text!Init => TextInv
<1> SUFFICES ASSUME Text!Init PROVE TextInv
  OBVIOUS
<1>1. Text!NotOver \in Text!Events
  BY EventType, NoTextIsText DEF Text!NotOver
<1>2. TurnType
  BY <1>1, NoTextIsText, ShownAssumption DEF Text!Init, TurnType
<1>3. SubsType
  <2>1. <<>> \in Seq(Text!Events) /\ <<>> \in Seq(Text!Pieces)
    BY EmptySeq
  <2>2. \A s \in Subs : Len(channel[s]) = 0
    BY EmptySeq DEF Text!Init
  <2> QED
    BY <2>1, <2>2, ShownAssumption DEF Text!Init, SubsType
<1>4. DaemonType
  BY NoTextIsText DEF Text!Init, DaemonType
<1> QED
  BY <1>2, <1>3, <1>4, TextTypeParts
     DEF Text!Init, TextInv, IdleIsEmpty, Text!NoBlankReply

(* A turn that returns leaves nothing behind.                               *)
LEMMA ReturnProperties ==
  ASSUME TurnType, Text!Return
  PROVE  TurnType' /\ DaemonType' /\ IdleIsEmpty' /\ Text!NoBlankReply'
<1>1. Text!NotOver \in Text!Events
  BY EventType, NoTextIsText DEF Text!NotOver
<1> QED
  BY <1>1, NoTextIsText
     DEF Text!Return, TurnType, DaemonType, IdleIsEmpty, Text!NoBlankReply

LEMMA StreamedIsTextFrame ==
  ASSUME Text!TypeOK, NEW piece \in Text!Chunks
  PROVE  /\ Text!Streamed(piece) \in TextFrame
         /\ sent \o piece \in Seq(Text!Pieces)
<1>1. piece \in Seq(Text!Pieces) /\ sent \in Seq(Text!Pieces)
  <2>1. PICK m \in 0..MaxChunk : piece \in [1..m -> Text!Pieces]
    BY DEF Text!Chunks, Text!BoundedSeq, Text!SeqOf
  <2> QED
    BY <2>1, TextTypeParts, TextsAreSequences DEF DaemonType
<1>2. sent \o piece \in Seq(Text!Pieces)
  BY <1>1, ConcatProperties
<1> QED
  BY <1>1, <1>2 DEF Text!Streamed, TextFrame, Text!Kinds, Text!TextKinds

(* The two frames that reach run_turn, and what the daemon streamed.        *)
LEMMA ReadFrameIs ==
  ASSUME TextInv, Text!ReadFrame
  PROVE  /\ stage = "reading" /\ DaemonType'
         /\ \E f \in TextFrame, b \in BOOLEAN : Text!Handle(f, b)
<1>1. stage = "reading" /\ TurnType /\ DaemonType
  BY TextTypeParts DEF Text!ReadFrame, TextInv
<1>2. CASE \E piece \in Text!Chunks : Text!HandleChunk(piece)
  <2>1. PICK piece \in Text!Chunks : Text!HandleChunk(piece)
    BY <1>2
  <2>2. /\ Text!Streamed(piece) \in TextFrame
        /\ sent \o piece \in Seq(Text!Pieces)
    BY StreamedIsTextFrame DEF TextInv
  <2>3. DaemonType'
    <3>1. sent' \in Text!Texts
      BY <2>1, <2>2, TextsAreSequences DEF Text!HandleChunk, Text!Stream
    <3>2. exact' \in BOOLEAN
      BY <1>1, <2>1 DEF Text!HandleChunk, Text!Stream, DaemonType
    <3> QED
      BY <1>1, <2>1, <3>1, <3>2 DEF Text!HandleChunk, Text!Stream, DaemonType
  <2>4. Text!Handle(Text!Streamed(piece), FALSE)
    BY <2>1 DEF Text!HandleChunk
  <2> QED
    BY <1>1, <2>2, <2>3, <2>4
<1>3. ASSUME NEW f \in Text!Frames, NEW b \in BOOLEAN, Text!HandleOther(f, b)
      PROVE  DaemonType' /\ f \in TextFrame /\ Text!Handle(f, b)
  BY <1>1, <1>3, FramesAreTextFrames
     DEF Text!HandleOther, Text!SendOther, DaemonType
<1>4. CASE \E f \in Text!Frames : Text!HandleOther(f, FALSE)
  BY <1>1, <1>3, <1>4
<1>5. CASE \E f \in Text!EndFrames : Text!HandleOther(f, TRUE)
  BY <1>1, <1>3, <1>5 DEF Text!EndFrames
<1> QED
  BY <1>2, <1>4, <1>5 DEF Text!ReadFrame

LEMMA StepText == TextInv /\ [Text!Next]_Text!textVars => TextInv'
<1> SUFFICES ASSUME TextInv, [Text!Next]_Text!textVars PROVE TextInv'
  OBVIOUS
<1>1. TurnType /\ SubsType /\ DaemonType /\ IdleIsEmpty /\ Text!NoBlankReply
  BY TextTypeParts DEF TextInv
<1>2. SUFFICES TurnType' /\ SubsType' /\ DaemonType' /\ IdleIsEmpty'
                 /\ Text!NoBlankReply'
  BY DEF TextInv, Text!TypeOK, TurnType, SubsType, DaemonType
<1> DEFINE Good == TurnType' /\ SubsType' /\ DaemonType' /\ IdleIsEmpty'
                     /\ Text!NoBlankReply'
<1>3. ASSUME NEW how \in {"increments", "snapshots"}, Text!BeginTurn(how)
      PROVE  Good
  <2>1. turns' \in 0..TextTurns
    BY <1>1, <1>3, ShownAssumption DEF Text!BeginTurn, TurnType
  <2> QED
    BY <1>1, <1>3, <2>1
       DEF Text!BeginTurn, Text!subVars, TurnType, SubsType, DaemonType,
           IdleIsEmpty, Text!NoBlankReply
<1>4. ASSUME Text!ReadFrame PROVE Good
  <2>1. PICK f \in TextFrame, b \in BOOLEAN : Text!Handle(f, b)
    BY <1>4, ReadFrameIs
  <2>2. stage = "reading" /\ DaemonType'
    BY <1>4, ReadFrameIs
  <2>3. /\ turns' = turns /\ SubsType' /\ collected' \in Text!Texts
        /\ \/ /\ stage' = "ending"
              /\ outcome' \in Text!Events
              /\ outcome'.type = "complete" => Text!Trim(outcome'.text) # <<>>
           \/ stage' = stage /\ outcome' = outcome
    BY <1>1, <2>1, HandleProperties, TextTypeParts
  <2> QED
    BY <1>1, <2>2, <2>3 DEF TurnType, IdleIsEmpty, Text!NoBlankReply
<1>5. ASSUME Text!GiveUp PROVE Good
  <2>1. outcome' \in Text!Events
    BY <1>1, <1>5, EventType, NoTextIsText DEF Text!GiveUp, TurnType
  <2> QED
    BY <1>1, <1>5, <2>1
       DEF Text!GiveUp, Text!subVars, Text!daemonVars, TurnType, SubsType,
           DaemonType, IdleIsEmpty, Text!NoBlankReply
<1>6. ASSUME Text!Vanish PROVE Good
  <2>1. TurnType' /\ DaemonType' /\ IdleIsEmpty' /\ Text!NoBlankReply'
    BY <1>1, <1>6, ReturnProperties DEF Text!Vanish
  <2>2. SubsType'
    BY <1>1, <1>6 DEF Text!Vanish, SubsType
  <2> QED
    BY <2>1, <2>2
<1>7. ASSUME Text!Report PROVE Good
  <2>1. TurnType' /\ DaemonType' /\ IdleIsEmpty' /\ Text!NoBlankReply'
    BY <1>1, <1>7, ReturnProperties DEF Text!Report
  <2>2. SubsType'
    BY <1>1, <1>7, BroadcastType DEF Text!Report, TurnType
  <2> QED
    BY <2>1, <2>2
<1>8. ASSUME UNCHANGED <<Text!turnVars, Text!daemonVars>>
      PROVE  TurnType' /\ DaemonType' /\ IdleIsEmpty' /\ Text!NoBlankReply'
  BY <1>1, <1>8
     DEF Text!turnVars, Text!daemonVars, TurnType, DaemonType, IdleIsEmpty,
         Text!NoBlankReply
<1>9. ASSUME NEW s \in Subs, Text!subscribe(s) PROVE Good
  <2>1. /\ channel' = [channel EXCEPT ![s] = <<>>]
        /\ shows' = [shows EXCEPT ![s] = <<>>]
        /\ registered' = registered \cup {s}
        /\ inStep' \subseteq inStep \cup {s}
        /\ UNCHANGED <<Text!turnVars, Text!daemonVars>>
    BY <1>9 DEF Text!subscribe
  <2>2. /\ <<>> \in Seq(Text!Events) /\ <<>> \in Seq(Text!Pieces)
        /\ Len(<<>>) = 0
    BY EmptySeq
  <2>3. \A x \in Subs : Len(channel'[x]) <= ChannelSize
    BY <1>1, <2>1, <2>2, ShownAssumption DEF SubsType
  <2>4. SubsType'
    BY <1>1, <2>1, <2>2, <2>3 DEF SubsType
  <2> QED
    BY <1>8, <2>1, <2>4
<1>10. ASSUME NEW s \in Subs, Text!Receive(s) PROVE Good
  <2>1. /\ channel[s] # <<>>
        /\ channel' = [channel EXCEPT ![s] = Tail(channel[s])]
        /\ shows' = [shows EXCEPT ![s] =
                       Text!Show(shows[s], Head(channel[s]))]
        /\ registered' = registered /\ inStep' = inStep
        /\ UNCHANGED <<Text!turnVars, Text!daemonVars>>
    BY <1>10 DEF Text!Receive
  <2>2. channel[s] \in Seq(Text!Events) /\ shows[s] \in Seq(Text!Pieces)
    BY <1>1 DEF SubsType
  <2>3. /\ Head(channel[s]) \in Text!Events
        /\ Tail(channel[s]) \in Seq(Text!Events)
        /\ Len(Tail(channel[s])) = Len(channel[s]) - 1
    BY <2>1, <2>2, HeadTailProperties
  <2>4. Text!Show(shows[s], Head(channel[s])) \in Seq(Text!Pieces)
    <3>1. Head(channel[s]).text \in Seq(Text!Pieces)
      BY <2>3, TextsAreSequences DEF Text!Events
    <3>2. shows[s] \o Head(channel[s]).text \in Seq(Text!Pieces)
      BY <2>2, <3>1, ConcatProperties
    <3>3. <<>> \in Seq(Text!Pieces)
      BY EmptySeq
    <3> QED
      BY <2>2, <3>2, <3>3 DEF Text!Show
  <2>5. \A x \in Subs : Len(channel'[x]) <= ChannelSize
    <3>1. Len(channel[s]) \in Nat /\ Len(channel[s]) <= ChannelSize
      BY <1>1, <2>2 DEF SubsType
    <3>2. Len(Tail(channel[s])) <= ChannelSize
      BY <2>3, <3>1, ShownAssumption
    <3> QED
      BY <1>1, <2>1, <3>2 DEF SubsType
  <2>6. SubsType'
    BY <1>1, <2>1, <2>3, <2>4, <2>5 DEF SubsType
  <2> QED
    BY <1>8, <2>1, <2>6
<1>11. ASSUME NEW S, Text!unsubscribe(S) PROVE Good
  <2>1. SubsType'
    BY <1>1, <1>11 DEF Text!unsubscribe, SubsType
  <2> QED
    BY <1>8, <1>11, <2>1 DEF Text!unsubscribe
<1>12. ASSUME UNCHANGED Text!textVars PROVE Good
  <2>1. SubsType'
    BY <1>1, <1>12 DEF Text!textVars, Text!subVars, SubsType
  <2> QED
    BY <1>8, <1>12, <2>1 DEF Text!textVars
<1> HIDE DEF Good
<1>13. Good
  BY <1>3, <1>4, <1>5, <1>6, <1>7, <1>9, <1>10, <1>11, <1>12 DEF Text!Next
<1> QED
  BY <1>13 DEF Good

(* What is streamed so far begins the text so far that is streamed next.    *)
LEMMA PrefixOfConcat ==
  ASSUME NEW s \in Seq(Text!Pieces), NEW t \in Seq(Text!Pieces)
  PROVE  Text!IsPrefix(s, s \o t)
<1>1. /\ s \o t \in Seq(Text!Pieces)
      /\ Len(s \o t) = Len(s) + Len(t)
      /\ Len(s) \in Nat /\ Len(t) \in Nat
  BY ConcatProperties
<1>2. CASE s = <<>>
  <2>1. Len(s) = 0
    BY <1>2
  <2>2. SubSeq(s, 1, 0) = <<>> /\ SubSeq(s \o t, 1, 0) = <<>>
    BY SubSeqEmpty
  <2> QED
    BY <1>1, <2>1, <2>2 DEF Text!IsPrefix
<1>3. CASE s # <<>>
  <2>1. 1 \in 1..Len(s) /\ Len(s) \in 1..Len(s)
    BY <1>1, <1>3, EmptySeq
  <2>2. SubSeq(s \o t, 1, Len(s)) = SubSeq(s, 1, Len(s))
    BY <2>1, SubSeqOfConcat1
  <2> QED
    BY <1>1, <2>2 DEF Text!IsPrefix
<1> QED
  BY <1>2, <1>3

(* A piece that is streamed is added to the text so far, in either style.   *)
LEMMA ChunkIsExact ==
  ASSUME TextInv, collected = sent, NEW piece \in Text!Chunks,
         style = "increments" => sent = <<>> \/ ~Text!IsPrefix(sent, piece)
  PROVE  /\ Text!Streamed(piece).text # <<>>
         /\ Text!Delta(Text!Streamed(piece).text).collected = sent \o piece
<1>1. sent \in Seq(Text!Pieces)
  BY TextTypeParts, TextsAreSequences DEF TextInv, DaemonType
<1>2. piece \in Seq(Text!Pieces) /\ piece # <<>>
  <2>1. PICK m \in 0..MaxChunk : piece \in [1..m -> Text!Pieces]
    BY DEF Text!Chunks, Text!BoundedSeq, Text!SeqOf
  <2> QED
    BY <2>1 DEF Text!Chunks
<1>3. CASE style = "snapshots"
  <2>1. Text!Streamed(piece).text = sent \o piece
    BY <1>3 DEF Text!Streamed
  <2>2. sent \o piece # <<>>
    BY <1>1, <1>2, ConcatEqualIffEmpty
  <2>3. Text!IsPrefix(sent, sent \o piece)
    BY <1>1, <1>2, PrefixOfConcat
  <2> QED
    BY <2>1, <2>2, <2>3 DEF Text!Delta
<1>4. CASE style # "snapshots"
  <2>1. Text!Streamed(piece).text = piece /\ style = "increments"
    BY <1>4, TextTypeParts DEF Text!Streamed, TextInv, DaemonType
  <2>2. CASE sent = <<>>
    <3>1. sent \o piece = piece
      BY <1>2, <2>2, ConcatEmptySeq
    <3>2. Text!IsPrefix(sent, piece)
      BY <1>1, <1>2, <3>1, PrefixOfConcat
    <3> QED
      BY <1>2, <2>1, <3>1, <3>2 DEF Text!Delta
  <2>3. CASE ~Text!IsPrefix(sent, piece)
    BY <1>2, <2>1, <2>3 DEF Text!Delta
  <2> QED
    BY <2>1, <2>2, <2>3
<1> QED
  BY <1>3, <1>4

LEMMA StepExact ==
  ASSUME ~IdleCompletes, TextInv, Text!TextIsExact, [Text!Next]_Text!textVars
  PROVE  Text!TextIsExact'
<1> SUFFICES ASSUME exact', stage' = "reading" PROVE collected' = sent'
  BY DEF Text!TextIsExact
<1>1. CASE \E how \in {"increments", "snapshots"} : Text!BeginTurn(how)
  BY <1>1 DEF Text!BeginTurn, TextInv, IdleIsEmpty
<1>2. CASE \E piece \in Text!Chunks : stage = "reading" /\ Text!HandleChunk(piece)
  <2>1. PICK piece \in Text!Chunks :
          stage = "reading" /\ Text!HandleChunk(piece)
    BY <1>2
  <2>2. /\ Text!Handle(Text!Streamed(piece), FALSE)
        /\ sent' = sent \o piece
        /\ exact /\ collected = sent
        /\ style = "increments" => sent = <<>> \/ ~Text!IsPrefix(sent, piece)
    BY <2>1 DEF Text!HandleChunk, Text!Stream, Text!TextIsExact
  <2>3. Text!Streamed(piece) \in TextFrame /\ Text!Streamed(piece).kind = "chunk"
    BY StreamedIsTextFrame DEF TextInv, Text!Streamed
  <2> DEFINE f == Text!Streamed(piece)
  <2>4. f.text # <<>> /\ Text!Delta(f.text).collected = sent \o piece
    BY <2>2, ChunkIsExact
  <2>5. Text!classify(f, collected).content = f.text
    <3>1. collected \in Seq(Text!Pieces)
      BY TextTypeParts, TextsAreSequences DEF TextInv, TurnType
    <3> QED
      BY <2>3, <3>1, ClassifyProperties DEF Text!continue_result, Text!Result
  <2> HIDE DEF f
  <2>6. LET c == Text!classify(f, collected).content IN
        collected' = IF c # <<>> THEN Text!Delta(c).collected ELSE collected
    BY <2>2, <2>3, HandleProperties DEF TextInv, f
  <2> QED
    BY <2>2, <2>4, <2>5, <2>6
<1>3. ASSUME NEW f \in Text!Frames, NEW b \in BOOLEAN, stage = "reading",
             Text!HandleOther(f, b)
      PROVE  collected' = sent'
  <2>1. /\ Text!Handle(f, b) /\ f.text = <<>> /\ exact
        /\ sent' = sent /\ collected = sent
    BY <1>3 DEF Text!HandleOther, Text!SendOther, Text!TextIsExact
  <2>2. f \in TextFrame /\ f.kind \notin Text!TextKinds
    BY <2>1, FramesAreTextFrames
  <2>3. Text!classify(f, collected).content = <<>>
    <3>1. collected \in Seq(Text!Pieces)
      BY TextTypeParts, TextsAreSequences DEF TextInv, TurnType
    <3> QED
      BY <2>2, <3>1, ClassifyProperties
  <2>4. LET c == Text!classify(f, collected).content IN
        collected' = IF c # <<>> THEN Text!Delta(c).collected ELSE collected
    BY <2>1, <2>2, HandleProperties DEF TextInv
  <2> QED
    BY <2>1, <2>3, <2>4
<1>4. CASE Text!ReadFrame
  BY <1>2, <1>3, <1>4 DEF Text!ReadFrame, Text!EndFrames
<1>5. CASE Text!GiveUp \/ Text!Vanish \/ Text!Report
  BY <1>5 DEF Text!GiveUp, Text!Vanish, Text!Report, Text!Return
<1>6. CASE UNCHANGED <<Text!turnVars, Text!daemonVars>>
  BY <1>6 DEF Text!turnVars, Text!daemonVars, Text!TextIsExact
<1>7. ASSUME NEW s, Text!subscribe(s) \/ Text!Receive(s) \/ Text!unsubscribe(s)
      PROVE  UNCHANGED <<Text!turnVars, Text!daemonVars>>
  BY <1>7 DEF Text!subscribe, Text!Receive, Text!unsubscribe
<1> QED
  BY <1>1, <1>4, <1>5, <1>6, <1>7 DEF Text!Next, Text!textVars

-----------------------------------------------------------------------------
(* What a subscriber will show.                                             *)

(* The fold passes through the texts shown on the way.                      *)
LEMMA ShowFold ==
  ASSUME NEW t \in Seq(Text!Pieces), NEW es \in Seq(Text!Events)
  PROVE  \E V : /\ V[0] = t
                /\ \A i \in 1..Len(es) : V[i] = Text!Show(V[i - 1], es[i])
                /\ Text!FoldLeft(Text!Show, t, es) = V[Len(es)]
<1> DEFINE n == Len(es)
           X == Seq(Text!Pieces)
           g == [i \in 1..n |-> [x \in X |-> Text!Show(x, es[i])]]
           Folds(iter) ==
             iter = [S \in SUBSET (1..n) |->
                       IF S = {} THEN t
                       ELSE Text!Show(iter[S \ {Max(S)}], es[Max(S)])]
           fold == CHOOSE iter : Folds(iter)
           V == [i \in 0..n |-> fold[1..i]]
<1>1. n \in Nat /\ DOMAIN es = 1..n
  OBVIOUS
<1>2. \A i \in 1..n, x \in X : Text!Show(x, es[i]) \in X
  <2> SUFFICES ASSUME NEW i \in 1..n, NEW x \in X
               PROVE  Text!Show(x, es[i]) \in X
    OBVIOUS
  <2>1. es[i] \in Text!Events
    OBVIOUS
  <2>2. es[i].text \in Text!Texts
    BY <2>1 DEF Text!Events
  <2>3. es[i].text \in X
    BY <2>2, TextsAreSequences
  <2>4. x \o es[i].text \in X /\ <<>> \in X
    BY <2>3, ConcatProperties, EmptySeq
  <2> QED
    BY <2>4 DEF Text!Show
<1>3. g \in [1..n -> [X -> X]]
  BY <1>2
<1>4. \A i \in 1..n, x \in X : g[i][x] = Text!Show(x, es[i])
  OBVIOUS
<1>t. t \in X
  OBVIOUS
<1> HIDE DEF g, X, n
<1>5. PICK iter \in [SUBSET (1..n) -> X] : FoldsSets(iter, n, t, g)
  BY <1>1, <1>3, <1>t, FoldExists
<1>6. \A S \in SUBSET (1..n) :
        iter[S] = IF S = {} THEN t
                  ELSE Text!Show(iter[S \ {Max(S)}], es[Max(S)])
  <2> SUFFICES ASSUME NEW S \in SUBSET (1..n), S # {}
               PROVE  iter[S] = Text!Show(iter[S \ {Max(S)}], es[Max(S)])
    BY <1>5 DEF FoldsSets
  <2>1. Max(S) \in 1..n
    BY <1>1, MaxProperties
  <2>2. iter[S \ {Max(S)}] \in X
    OBVIOUS
  <2> QED
    BY <1>4, <1>5, <2>1, <2>2 DEF FoldsSets
<1>7. Folds(iter)
  BY <1>6
<1> HIDE DEF Folds
<1>8. Folds(fold)
  BY <1>7
<1>9. Text!FoldLeft(Text!Show, t, es) = fold[1..n]
  BY <1>1 DEF Text!FoldLeft, Text!MapThenFoldSet, Text!Max, Max, Folds
<1> HIDE DEF fold
<1>10. \A S \in SUBSET (1..n) :
         fold[S] = IF S = {} THEN t
                   ELSE Text!Show(fold[S \ {Max(S)}], es[Max(S)])
  BY <1>8 DEF Folds
<1>11. V[0] = t
  <2>1. 1..0 = {} /\ 0 \in 0..n
    BY <1>1
  <2> QED
    BY <1>10, <2>1
<1>12. ASSUME NEW i \in 1..n PROVE V[i] = Text!Show(V[i - 1], es[i])
  <2>1. /\ 1..i \in SUBSET (1..n) /\ 1..i # {}
        /\ Max(1..i) = i /\ (1..i) \ {i} = 1..(i - 1)
    BY <1>1, MaxProperties
  <2>2. fold[1..i] = Text!Show(fold[1..(i - 1)], es[i])
    BY <1>10, <2>1
  <2>3. i \in 0..n /\ i - 1 \in 0..n
    BY <1>1
  <2> QED
    BY <2>2, <2>3
<1>13. V[n] = fold[1..n]
  BY <1>1
<1> HIDE DEF V, fold
<1>14. V[0] = t /\ Text!FoldLeft(Text!Show, t, es) = V[n]
  BY <1>9, <1>11, <1>13
<1>15. \A i \in 1..n : V[i] = Text!Show(V[i - 1], es[i])
  BY <1>12
<1> USE DEF n
<1> QED
  BY <1>14, <1>15, Zenon

LEMMA ShowNothing ==
  ASSUME NEW t \in Seq(Text!Pieces)
  PROVE  Text!FoldLeft(Text!Show, t, <<>>) = t
<1>1. <<>> \in Seq(Text!Events) /\ Len(<<>>) = 0
  BY EmptySeq
<1>2. PICK V : /\ V[0] = t
               /\ \A i \in 1..Len(<<>>) : V[i] = Text!Show(V[i - 1], <<>>[i])
               /\ Text!FoldLeft(Text!Show, t, <<>>) = V[Len(<<>>)]
  BY <1>1, ShowFold, Zenon
<1> QED
  BY <1>1, <1>2

(* An event that is sent is shown last.                                     *)
LEMMA ShowAppend ==
  ASSUME NEW t \in Seq(Text!Pieces), NEW es \in Seq(Text!Events),
         NEW e \in Text!Events
  PROVE  Text!FoldLeft(Text!Show, t, Append(es, e))
           = Text!Show(Text!FoldLeft(Text!Show, t, es), e)
<1> DEFINE n == Len(es)
           more == Append(es, e)
<1>1. /\ more \in Seq(Text!Events) /\ Len(more) = n + 1 /\ n \in Nat
      /\ \A i \in 1..n : more[i] = es[i]
      /\ more[n + 1] = e
  BY AppendProperties
<1>2. PICK V : /\ V[0] = t
               /\ \A i \in 1..n : V[i] = Text!Show(V[i - 1], es[i])
               /\ Text!FoldLeft(Text!Show, t, es) = V[n]
  BY ShowFold
<1> HIDE DEF more
<1>3. PICK W : /\ W[0] = t
               /\ \A i \in 1..Len(more) : W[i] = Text!Show(W[i - 1], more[i])
               /\ Text!FoldLeft(Text!Show, t, more) = W[Len(more)]
  BY <1>1, ShowFold
<1> HIDE DEF n
<1>4. StepsAlike(V, W, n)
  <2> SUFFICES ASSUME NEW i \in 1..n, V[i - 1] = W[i - 1] PROVE V[i] = W[i]
    BY DEF StepsAlike
  <2>1. i \in 1..Len(more)
    BY <1>1
  <2> QED
    BY <1>1, <1>2, <1>3, <2>1
<1>n. n \in Nat /\ V[0] = W[0]
  BY <1>1, <1>2, <1>3
<1>5. \A i \in 0..n : V[i] = W[i]
  BY <1>n, <1>4, SameSteps
<1>6. W[n + 1] = Text!Show(W[n], e)
  <2>1. n + 1 \in 1..Len(more) /\ (n + 1) - 1 = n
    BY <1>1
  <2> QED
    BY <1>1, <1>3, <2>1
<1>7. V[n] = W[n]
  BY <1>1, <1>5
<1> QED
  BY <1>1, <1>2, <1>3, <1>6, <1>7 DEF more

(* An event that is received is shown first.                                *)
LEMMA ShowTail ==
  ASSUME NEW t \in Seq(Text!Pieces), NEW es \in Seq(Text!Events), es # <<>>
  PROVE  Text!FoldLeft(Text!Show, Text!Show(t, Head(es)), Tail(es))
           = Text!FoldLeft(Text!Show, t, es)
<1> DEFINE n == Len(es)
           less == Tail(es)
           u == Text!Show(t, Head(es))
<1>1. /\ less \in Seq(Text!Events) /\ Len(less) = n - 1
      /\ n \in Nat /\ n > 0
      /\ \A i \in 1..(n - 1) : less[i] = es[i + 1]
      /\ Head(es) = es[1] /\ Head(es) \in Text!Events
  BY HeadTailProperties
<1>2. u \in Seq(Text!Pieces)
  <2>0. Head(es).text \in Text!Texts
    BY <1>1 DEF Text!Events
  <2>1. Head(es).text \in Seq(Text!Pieces)
    BY <2>0, TextsAreSequences
  <2>2. t \o Head(es).text \in Seq(Text!Pieces) /\ <<>> \in Seq(Text!Pieces)
    BY <2>1, ConcatProperties, EmptySeq
  <2> QED
    BY <2>2 DEF Text!Show
<1>3. PICK V : /\ V[0] = t
               /\ \A i \in 1..n : V[i] = Text!Show(V[i - 1], es[i])
               /\ Text!FoldLeft(Text!Show, t, es) = V[n]
  BY ShowFold
<1> HIDE DEF less
<1>4. PICK W : /\ W[0] = u
               /\ \A i \in 1..Len(less) : W[i] = Text!Show(W[i - 1], less[i])
               /\ Text!FoldLeft(Text!Show, u, less) = W[Len(less)]
  BY <1>1, <1>2, ShowFold
<1>5. V[1] = u
  <2>1. 1 \in 1..n /\ 1 - 1 = 0
    BY <1>1
  <2> QED
    BY <1>1, <1>3, <2>1
<1> HIDE DEF n, u
<1> DEFINE V1 == [i \in 0..(n - 1) |-> V[i + 1]]
<1>6. StepsAlike(V1, W, n - 1)
  <2> SUFFICES ASSUME NEW i \in 1..(n - 1), V1[i - 1] = W[i - 1]
               PROVE  V1[i] = W[i]
    BY DEF StepsAlike
  <2>1. /\ i + 1 \in 1..n /\ (i + 1) - 1 = i /\ i \in 0..(n - 1)
        /\ i - 1 \in 0..(n - 1) /\ (i - 1) + 1 = i /\ i \in 1..Len(less)
    BY <1>1
  <2>2. V1[i] = V[i + 1] /\ V1[i - 1] = V[i]
    BY <2>1
  <2>3. V[i + 1] = Text!Show(V[i], es[i + 1])
    BY <1>3, <2>1
  <2>4. W[i] = Text!Show(W[i - 1], es[i + 1])
    BY <1>1, <1>4, <2>1
  <2> HIDE DEF V1
  <2> QED
    BY <2>2, <2>3, <2>4
<1>7. V1[0] = W[0]
  BY <1>1, <1>4, <1>5
<1>8. n - 1 \in Nat /\ V1[n - 1] = V[n]
  BY <1>1
<1> HIDE DEF V1
<1>9. V1[n - 1] = W[n - 1]
  <2>1. \A i \in 0..(n - 1) : V1[i] = W[i]
    BY <1>6, <1>7, <1>8, SameSteps
  <2> QED
    BY <1>8, <2>1
<1> QED
  BY <1>1, <1>3, <1>4, <1>8, <1>9 DEF less, u


(* A text is what begins it and the rest.                                   *)
LEMMA RestOfPrefix ==
  ASSUME NEW s \in Seq(Text!Pieces), NEW t \in Seq(Text!Pieces),
         Text!IsPrefix(s, t)
  PROVE  t = s \o SubSeq(t, Len(s) + 1, Len(t))
<1> DEFINE rest == SubSeq(t, Len(s) + 1, Len(t))
           n == Len(s)
           m == Len(t)
<1>1. n \in Nat /\ m \in Nat
  OBVIOUS
<1>2. n <= m /\ SubSeq(s, 1, n) = SubSeq(t, 1, n)
  BY DEF Text!IsPrefix
<1>3. \A i \in 1..n : s[i] = t[i]
  <2> SUFFICES ASSUME NEW i \in 1..n PROVE s[i] = t[i]
    OBVIOUS
  <2>1. SubSeq(s, 1, n)[i] = s[i] /\ SubSeq(t, 1, n)[i] = t[i]
    BY <1>1, <1>2
  <2> QED
    BY <1>2, <2>1
<1>4. /\ rest \in Seq(Text!Pieces) /\ Len(rest) = m - n
      /\ \A i \in 1..(m - n) : rest[i] = t[n + i]
  <2>1. \A i \in n + 1 .. m : t[i] \in Text!Pieces
    BY <1>1
  <2>2. /\ rest \in Seq(Text!Pieces)
        /\ Len(rest) = IF n + 1 <= m THEN m - (n + 1) + 1 ELSE 0
        /\ \A i \in 1..(m - (n + 1) + 1) : rest[i] = t[(n + 1) + i - 1]
    BY <1>1, <2>1, SubSeqProperties
  <2> HIDE DEF rest, n, m
  <2>3. Len(rest) = m - n /\ m - (n + 1) + 1 = m - n
    BY <1>1, <1>2, <2>2
  <2>4. \A i \in 1..(m - n) : (n + 1) + i - 1 = n + i
    BY <1>1
  <2> QED
    BY <2>2, <2>3, <2>4
<1> HIDE DEF rest
<1>5. /\ s \o rest \in Seq(Text!Pieces) /\ Len(s \o rest) = n + (m - n)
      /\ \A i \in 1..(n + (m - n)) :
           (s \o rest)[i] = IF i <= n THEN s[i] ELSE rest[i - n]
  BY <1>4, ConcatProperties
<1>6. ASSUME NEW i \in 1..m PROVE t[i] = (s \o rest)[i]
  <2>1. i \in 1..(n + (m - n))
    BY <1>1
  <2>2. CASE i <= n
    BY <1>1, <1>3, <1>5, <2>1, <2>2
  <2>3. CASE ~(i <= n)
    <3>1. i - n \in 1..(m - n) /\ n + (i - n) = i
      BY <1>1, <2>3
    <3> QED
      BY <1>4, <1>5, <2>1, <2>3, <3>1
  <2> QED
    BY <2>2, <2>3
<1>7. Len(s \o rest) = Len(t)
  BY <1>1, <1>5
<1> QED
  BY <1>5, <1>6, <1>7, SeqEqual DEF rest

(* What a frame that does not end the turn adds to the text is what the     *)
(* subscribers are sent.                                                    *)
LEMMA HandleShows ==
  ASSUME Text!TypeOK, NEW f \in TextFrame, NEW b, Text!Handle(f, b),
         stage = "reading", stage' = "reading"
  PROVE  \/ /\ Text!broadcast(Text!Event("thinking_step", <<>>))
            /\ collected' = collected
         \/ \E t \in Text!Texts : /\ Text!broadcast(Text!Event("delta", t))
                                  /\ collected' = collected \o t
         \/ UNCHANGED <<Text!subVars, collected>>
<1> DEFINE r == Text!classify(f, collected)
           d == Text!Delta(r.content)
           final == Text!Final(r, d.collected)
<1>1. collected \in Seq(Text!Pieces)
  BY TextsAreSequences DEF Text!TypeOK
<1>2. r.content \in Seq(Text!Pieces)
  BY <1>1, ClassifyProperties
<1>3. r.terminal # "failed" /\ ~final.found
  BY DEF Text!Handle, Text!EndWith
<1>4. /\ Len(d.collected) <= MaxText
      /\ \/ /\ Text!thinking_step(f)
            /\ Text!broadcast(Text!Event("thinking_step", <<>>))
         \/ /\ ~Text!thinking_step(f) /\ r.content # <<>> /\ d.delta # <<>>
            /\ Text!broadcast(Text!Event("delta", d.delta))
         \/ /\ ~Text!thinking_step(f)
            /\ r.content = <<>> \/ d.delta = <<>>
            /\ UNCHANGED Text!subVars
      /\ collected' = IF r.content # <<>> THEN d.collected ELSE collected
  BY <1>3 DEF Text!Handle
<1>5. Text!thinking_step(f) => r.content = <<>>
  BY DEF Text!thinking_step, Text!classify, Text!continue_result, Text!Result
<1>6. /\ d.delta \in Text!Texts
      /\ d.collected = collected \o d.delta
  <2>1. /\ d.collected \in Seq(Text!Pieces)
        /\ d.delta \in Seq(Text!Pieces)
        /\ Len(d.delta) <= Len(d.collected)
    BY <1>1, <1>2, DeltaProperties
  <2>2. /\ Len(d.collected) \in Nat /\ Len(d.delta) \in Nat /\ MaxText \in Nat
    BY <2>1, ShownAssumption
  <2>3. d.delta \in Text!Texts
    BY <1>4, <2>1, <2>2, TextsAreSequences
  <2>4. CASE Text!IsPrefix(collected, r.content)
    <3>1. r.content = collected
                        \o SubSeq(r.content, Len(collected) + 1, Len(r.content))
      BY <1>1, <1>2, <2>4, RestOfPrefix
    <3> QED
      BY <2>3, <2>4, <3>1 DEF Text!Delta
  <2>5. CASE ~Text!IsPrefix(collected, r.content)
    BY <2>3, <2>5 DEF Text!Delta
  <2> QED
    BY <2>4, <2>5
<1>7. d.delta = <<>> => d.collected = collected
  BY <1>1, <1>6, ConcatEmptySeq
<1> HIDE DEF r, d, final
<1> QED
  BY <1>4, <1>5, <1>6, <1>7

(* What a subscriber shows once its channel is read.                        *)
WillShow(s) == Text!FoldLeft(Text!Show, shows[s], channel[s])

(* The report of a turn is one of the two that end it.                      *)
OutcomeReports == outcome.type \in {"complete", "query_error"}

LEMMA BroadcastShows ==
  ASSUME SubsType, NEW e \in Text!Events, Text!broadcast(e), NEW s \in inStep'
  PROVE  /\ s \in registered /\ s \in Subs
         /\ e.type \in {"delta", "thinking_step"} => s \in inStep
         /\ WillShow(s)' = Text!Show(WillShow(s), e)
<1>1. s \in Text!HasRoom /\ s \in registered /\ s \in Subs
  BY DEF Text!broadcast, Text!HasRoom, SubsType
<1>2. channel'[s] = Append(channel[s], e) /\ shows'[s] = shows[s]
  BY <1>1 DEF Text!broadcast
<1>3. channel[s] \in Seq(Text!Events) /\ shows[s] \in Seq(Text!Pieces)
  BY <1>1 DEF SubsType
<1>4. Text!FoldLeft(Text!Show, shows[s], Append(channel[s], e))
        = Text!Show(Text!FoldLeft(Text!Show, shows[s], channel[s]), e)
  BY <1>3, ShowAppend
<1>5. WillShow(s)' = Text!Show(WillShow(s), e)
  BY <1>2, <1>4 DEF WillShow
<1>6. e.type \in {"delta", "thinking_step"} => s \in inStep
  BY DEF Text!broadcast
<1> QED
  BY <1>1, <1>5, <1>6

InStepInv == TextInv /\ OutcomeReports /\ Text!InStepShowsTheText

LEMMA StepOutcome ==
  TextInv /\ OutcomeReports /\ [Text!Next]_Text!textVars => OutcomeReports'
<1> SUFFICES ASSUME TextInv, OutcomeReports, [Text!Next]_Text!textVars
             PROVE  OutcomeReports'
  OBVIOUS
<1>1. ASSUME NEW f, NEW b, Text!Handle(f, b) PROVE OutcomeReports'
  <2> DEFINE r == Text!classify(f, collected)
             final == Text!Final(r, Text!Delta(r.content).collected)
  <2>1. \/ Text!EndWith(Text!Event("query_error", <<>>))
        \/ Text!EndWith(Text!Event("complete", final.text))
        \/ Text!EndByBoundary(collected')
        \/ Text!GoOn
    BY <1>1 DEF Text!Handle
  <2> HIDE DEF final
  <2> QED
    BY <2>1 DEF Text!EndWith, Text!EndByBoundary, Text!GoOn, Text!Event,
                OutcomeReports
<1>2. CASE Text!ReadFrame
  BY <1>1, <1>2 DEF Text!ReadFrame, Text!HandleChunk, Text!HandleOther
<1>3. CASE Text!GiveUp
  BY <1>3 DEF Text!GiveUp, Text!Event, OutcomeReports
<1>4. CASE Text!Vanish \/ Text!Report
  BY <1>4 DEF Text!Vanish, Text!Report, Text!Return, Text!NotOver, Text!Event,
              OutcomeReports
<1>5. CASE UNCHANGED outcome
  BY <1>5 DEF OutcomeReports
<1> QED
  BY <1>2, <1>3, <1>4, <1>5
     DEF Text!Next, Text!BeginTurn, Text!subscribe, Text!Receive,
         Text!unsubscribe, Text!textVars, Text!turnVars

LEMMA StepInStep ==
  InStepInv /\ [Text!Next]_Text!textVars => Text!InStepShowsTheText'
<1> SUFFICES ASSUME InStepInv, [Text!Next]_Text!textVars,
                    NEW x \in inStep', x \in registered',
                    stage' \in {"idle", "reading"}
             PROVE  WillShow(x)' = IF stage' = "reading" THEN collected'
                                   ELSE <<>>
  BY DEF Text!InStepShowsTheText, WillShow
<1>1. SubsType /\ IdleIsEmpty /\ TurnType /\ OutcomeReports /\ TextInv
  BY TextTypeParts DEF InStepInv, TextInv
<1>2. ASSUME x \in inStep, x \in registered, stage \in {"idle", "reading"}
      PROVE  WillShow(x) = IF stage = "reading" THEN collected ELSE <<>>
  BY <1>2 DEF InStepInv, Text!InStepShowsTheText, WillShow
<1> DEFINE Good == WillShow(x)' = IF stage' = "reading" THEN collected'
                                  ELSE <<>>
<1>3. ASSUME NEW how, Text!BeginTurn(how) PROVE Good
  <2>1. /\ stage = "idle" /\ stage' = "reading" /\ collected' = collected
        /\ inStep' = inStep /\ registered' = registered
        /\ channel' = channel /\ shows' = shows
    BY <1>3 DEF Text!BeginTurn, Text!subVars
  <2>2. WillShow(x)' = WillShow(x)
    BY <2>1 DEF WillShow
  <2>3. collected = <<>>
    BY <1>1, <2>1 DEF IdleIsEmpty
  <2> QED
    BY <1>2, <2>1, <2>2, <2>3
<1>4. ASSUME NEW f \in TextFrame, NEW b, stage = "reading", Text!Handle(f, b)
      PROVE  Good
  <2>1. stage' = "reading"
    BY <1>4 DEF Text!Handle, Text!EndWith, Text!EndByBoundary, Text!GoOn
  <2>2. \/ /\ Text!broadcast(Text!Event("thinking_step", <<>>))
           /\ collected' = collected
        \/ \E t \in Text!Texts : /\ Text!broadcast(Text!Event("delta", t))
                                 /\ collected' = collected \o t
        \/ UNCHANGED <<Text!subVars, collected>>
    BY <1>1, <1>4, <2>1, HandleShows DEF TextInv
  <2>3. ASSUME Text!broadcast(Text!Event("thinking_step", <<>>)),
               collected' = collected
        PROVE  Good
    <3> DEFINE e == Text!Event("thinking_step", <<>>)
    <3>1. e \in Text!Events
      BY EventType, NoTextIsText
    <3>2. /\ x \in registered /\ x \in inStep
          /\ WillShow(x)' = Text!Show(WillShow(x), e)
      <4>1. e.type = "thinking_step"
        BY DEF Text!Event
      <4> HIDE DEF e
      <4> QED
        BY <1>1, <2>3, <3>1, <4>1, BroadcastShows DEF e
    <3>3. Text!Show(WillShow(x), e) = WillShow(x)
      BY DEF Text!Show, Text!Event
    <3> QED
      BY <1>2, <1>4, <2>1, <2>3, <3>2, <3>3
  <2>4. ASSUME NEW t \in Text!Texts, Text!broadcast(Text!Event("delta", t)),
               collected' = collected \o t
        PROVE  Good
    <3> DEFINE e == Text!Event("delta", t)
    <3>1. e \in Text!Events
      BY EventType
    <3>2. /\ x \in registered /\ x \in inStep
          /\ WillShow(x)' = Text!Show(WillShow(x), e)
      <4>1. e.type = "delta"
        BY DEF Text!Event
      <4> HIDE DEF e
      <4> QED
        BY <1>1, <2>4, <3>1, <4>1, BroadcastShows DEF e
    <3>3. Text!Show(WillShow(x), e) = WillShow(x) \o t
      BY DEF Text!Show, Text!Event
    <3> QED
      BY <1>2, <1>4, <2>1, <2>4, <3>2, <3>3
  <2>5. ASSUME UNCHANGED <<Text!subVars, collected>> PROVE Good
    <3>1. /\ inStep' = inStep /\ registered' = registered
          /\ channel' = channel /\ shows' = shows /\ collected' = collected
      BY <2>5 DEF Text!subVars
    <3>2. WillShow(x)' = WillShow(x)
      BY <3>1 DEF WillShow
    <3> QED
      BY <1>2, <1>4, <2>1, <3>1, <3>2
  <2> HIDE DEF Good
  <2> QED
    BY <2>2, <2>3, <2>4, <2>5
<1>5. ASSUME Text!ReadFrame PROVE Good
  BY <1>1, <1>4, <1>5, ReadFrameIs
<1>6. ASSUME Text!Report PROVE Good
  <2>1. outcome \in Text!Events /\ Text!broadcast(outcome) /\ stage' = "idle"
    BY <1>1, <1>6 DEF Text!Report, Text!Return, TurnType
  <2>2. WillShow(x)' = Text!Show(WillShow(x), outcome)
    BY <1>1, <2>1, BroadcastShows
  <2>3. Text!Show(WillShow(x), outcome) = <<>>
    BY <1>1 DEF Text!Show, OutcomeReports
  <2> QED
    BY <2>1, <2>2, <2>3
<1>7. ASSUME NEW s \in Subs, Text!subscribe(s) PROVE Good
  <2>1. /\ channel' = [channel EXCEPT ![s] = <<>>]
        /\ shows' = [shows EXCEPT ![s] = <<>>]
        /\ registered' = registered \cup {s}
        /\ inStep' = IF stage = "idle" THEN inStep \cup {s} ELSE inStep \ {s}
        /\ stage' = stage /\ collected' = collected
    BY <1>7 DEF Text!subscribe, Text!turnVars
  <2>2. x \in Subs /\ (x = s => stage = "idle")
    BY <1>1, <2>1 DEF SubsType
  <2>3. CASE x = s
    <3>1. channel'[x] = <<>> /\ shows'[x] = <<>>
      BY <1>1, <2>1, <2>2, <2>3 DEF SubsType
    <3>2. Text!FoldLeft(Text!Show, <<>>, <<>>) = <<>>
      BY EmptySeq, ShowNothing
    <3>3. WillShow(x)' = <<>>
      BY <3>1, <3>2 DEF WillShow
    <3> QED
      BY <2>1, <2>2, <2>3, <3>3
  <2>4. CASE x # s
    <3>1. channel'[x] = channel[x] /\ shows'[x] = shows[x]
      BY <1>1, <2>1, <2>2, <2>4 DEF SubsType
    <3>2. WillShow(x)' = WillShow(x)
      BY <3>1 DEF WillShow
    <3>3. x \in inStep /\ x \in registered
      BY <2>1, <2>4
    <3> QED
      BY <1>2, <2>1, <3>2, <3>3
  <2> QED
    BY <2>3, <2>4
<1>8. ASSUME NEW s \in Subs, Text!Receive(s) PROVE Good
  <2>1. /\ channel[s] # <<>>
        /\ channel' = [channel EXCEPT ![s] = Tail(channel[s])]
        /\ shows' = [shows EXCEPT ![s] =
                       Text!Show(shows[s], Head(channel[s]))]
        /\ registered' = registered /\ inStep' = inStep
        /\ stage' = stage /\ collected' = collected
    BY <1>8 DEF Text!Receive, Text!turnVars
  <2>2. x \in Subs /\ channel[s] \in Seq(Text!Events) /\ shows[s] \in Seq(Text!Pieces)
    BY <1>1, <2>1 DEF SubsType
  <2>3. WillShow(x)' = WillShow(x)
    <3>1. CASE x = s
      <4>1. /\ channel'[x] = Tail(channel[s])
            /\ shows'[x] = Text!Show(shows[s], Head(channel[s]))
        BY <1>1, <2>1, <2>2, <3>1 DEF SubsType
      <4>2. Text!FoldLeft(Text!Show, Text!Show(shows[s], Head(channel[s])),
                          Tail(channel[s]))
              = Text!FoldLeft(Text!Show, shows[s], channel[s])
        BY <2>1, <2>2, ShowTail
      <4> QED
        BY <3>1, <4>1, <4>2 DEF WillShow
    <3>2. CASE x # s
      <4>1. channel'[x] = channel[x] /\ shows'[x] = shows[x]
        BY <1>1, <2>1, <2>2, <3>2 DEF SubsType
      <4> QED
        BY <4>1 DEF WillShow
    <3> QED
      BY <3>1, <3>2
  <2> QED
    BY <1>2, <2>1, <2>3
<1>9. ASSUME NEW S, Text!unsubscribe(S) PROVE Good
  <2>1. /\ inStep' \subseteq inStep /\ registered' \subseteq registered
        /\ channel' = channel /\ shows' = shows
        /\ stage' = stage /\ collected' = collected
    BY <1>9 DEF Text!unsubscribe, Text!turnVars
  <2>2. WillShow(x)' = WillShow(x)
    BY <2>1 DEF WillShow
  <2> QED
    BY <1>2, <2>1, <2>2
<1>10. ASSUME Text!GiveUp \/ Text!Vanish PROVE Good
  BY <1>10 DEF Text!GiveUp, Text!Vanish
<1>11. ASSUME UNCHANGED Text!textVars PROVE Good
  <2>1. /\ inStep' = inStep /\ registered' = registered
        /\ channel' = channel /\ shows' = shows
        /\ stage' = stage /\ collected' = collected
    BY <1>11 DEF Text!textVars, Text!subVars, Text!turnVars
  <2>2. WillShow(x)' = WillShow(x)
    BY <2>1 DEF WillShow
  <2> QED
    BY <1>2, <2>1, <2>2
<1> HIDE DEF Good
<1>12. Good
  BY <1>3, <1>5, <1>6, <1>7, <1>8, <1>9, <1>10, <1>11 DEF Text!Next
<1> QED
  BY <1>12 DEF Good
-----------------------------------------------------------------------------
(* A behaviour of the three is one of each.                                 *)

LEMMA TurnsAreComposed == MCSpec => Spec
<1>1. MCInit => Init
  BY DEF MCInit
<1>2. [MCNext]_<<vars, textVars, cardVars>> => [Next]_vars
  BY DEF MCNext
<1> QED
  BY <1>1, <1>2, PTL DEF MCSpec, Spec

LEMMA TextIsComposed == MCSpec => Text!Spec
<1>1. MCInit => Text!Init
  BY DEF MCInit
<1>2. [MCNext]_<<vars, textVars, cardVars>> => [Text!Next]_Text!textVars
  BY DEF MCNext, textVars, Text!textVars, Text!turnVars, Text!subVars,
         Text!daemonVars
<1> QED
  BY <1>1, <1>2, PTL DEF MCSpec, Text!Spec

LEMMA TextInvHolds == MCSpec => []TextInv
BY InitText, StepText, TextIsComposed, PTL DEF Text!Spec

(* No frame completes a turn with a blank reply, whatever the frames, the   *)
(* pieces of text, and the minimum of a deliverable.                        *)
THEOREM RepliesShowSomething == MCSpec => []NoBlankReply
<1>1. TextInv => NoBlankReply
  BY DEF TextInv, NoBlankReply
<1> QED
  BY <1>1, TextInvHolds, PTL

(* If an idle does not complete a turn, the text collected is the text the  *)
(* daemon streamed, in increments or as the text so far, for texts of any   *)
(* length.                                                                  *)
THEOREM TextIsCollected ==
  ASSUME ~IdleCompletes
  PROVE  MCSpec => []TextIsExact
<1>1. Text!Init => Text!TextIsExact
  BY DEF Text!Init, Text!TextIsExact
<1>2. TextInv /\ Text!TextIsExact /\ [Text!Next]_Text!textVars
        => Text!TextIsExact'
  BY StepExact
<1>3. TextIsExact <=> Text!TextIsExact
  BY DEF TextIsExact
<1> QED
  BY <1>1, <1>2, <1>3, TextInvHolds, TextIsComposed, PTL DEF Text!Spec

(* Deltas add up for every subscriber that lost none, whatever the number   *)
(* of subscribers, the size of their channels and the order in which they   *)
(* subscribe, receive and leave while the turns go on.                      *)
THEOREM SubscribersShowTheText == MCSpec => []InStepShowsTheText
<1>1. Text!Init => OutcomeReports /\ Text!InStepShowsTheText
  BY DEF Text!Init, Text!NotOver, Text!Event, OutcomeReports,
         Text!InStepShowsTheText
<1>2. InStepInv /\ [Text!Next]_Text!textVars
        => OutcomeReports' /\ Text!InStepShowsTheText'
  BY StepOutcome, StepInStep DEF InStepInv
<1>3. InStepShowsTheText <=> Text!InStepShowsTheText
  BY DEF InStepShowsTheText
<1>4. InStepInv <=> TextInv /\ OutcomeReports /\ Text!InStepShowsTheText
  BY DEF InStepInv
<1> QED
  BY <1>1, <1>2, <1>3, <1>4, TextInvHolds, TextIsComposed, PTL DEF Text!Spec
-----------------------------------------------------------------------------
(* The cards.                                                               *)

(* Frames that the daemon sends: a card is created with all its fields.     *)
CardFrame ==
  {f \in [type : {"begin", "created", "updated", "end"}, id : Ids \cup {NoId},
          patch : Card!Patches] :
     f.type = "created" => f.patch \in Card!Values}

ProjectionType(p) ==
  /\ p = [cards |-> p.cards, order |-> p.order, replaying |-> p.replaying]
  /\ p.cards = [id \in DOMAIN p.cards |-> p.cards[id]]
  /\ \A id \in DOMAIN p.cards : id \in Ids /\ p.cards[id] \in Card!Values
  /\ p.order \in Seq(Ids)
  /\ DOMAIN p.cards = Card!ToSet(p.order)
  /\ p.replaying \in BOOLEAN

CardType ==
  /\ daemon \in Seq(Card!Cards)
  /\ wire \in Seq(CardFrame)
  /\ ProjectionType(Card!Projection)
  /\ lost \in BOOLEAN
  /\ beginLost \in BOOLEAN

LEMMA PatchTypes ==
  /\ Card!Values \subseteq Card!Patches
  /\ \A k \in Fields, v \in 0..MaxValue : [x \in {k} |-> v] \in Card!Patches
  /\ <<>> \in Card!Patches
<1>1. \A F \in SUBSET Fields : [F -> 0..MaxValue] \subseteq Card!Patches
  BY DEF Card!Patches
<1>2. <<>> \in [{} -> 0..MaxValue]
  <2>1. <<>> \in [1..0 -> 0..MaxValue]
    OBVIOUS
  <2>2. 1..0 = {}
    OBVIOUS
  <2> QED
    BY <2>1, <2>2
<1> QED
  BY <1>1, <1>2 DEF Card!Values

LEMMA ToSetProperties ==
  ASSUME NEW S, NEW s \in Seq(S)
  PROVE  /\ Card!ToSet(s) = {s[i] : i \in 1..Len(s)}
         /\ \A e \in S : Card!ToSet(Append(s, e)) = Card!ToSet(s) \cup {e}
<1>1. \A t \in Seq(S) : Card!ToSet(t) = {t[i] : i \in 1..Len(t)}
  BY DEF Card!ToSet
<1>2. ASSUME NEW e \in S
      PROVE  Card!ToSet(Append(s, e)) = Card!ToSet(s) \cup {e}
  <2>1. /\ Append(s, e) \in Seq(S)
        /\ Len(Append(s, e)) = Len(s) + 1
        /\ \A i \in 1..Len(s) : Append(s, e)[i] = s[i]
        /\ Append(s, e)[Len(s) + 1] = e
        /\ Len(s) \in Nat
    BY AppendProperties
  <2> DEFINE t == Append(s, e)
  <2>2. Card!ToSet(t) = {t[i] : i \in 1..Len(t)}
    BY <1>1, <2>1
  <2>3. \A i \in 1..Len(t) : t[i] \in Card!ToSet(s) \cup {e}
    <3>1. \A i \in 1..Len(t) : i \in 1..Len(s) \/ i = Len(s) + 1
      BY <2>1
    <3> QED
      BY <1>1, <2>1, <3>1
  <2>4. \A i \in 1..Len(s) : i \in 1..Len(t) /\ t[i] = s[i]
    BY <2>1
  <2>5. Len(s) + 1 \in 1..Len(t) /\ t[Len(s) + 1] = e
    BY <2>1
  <2> HIDE DEF t
  <2>6. Card!ToSet(t) \subseteq Card!ToSet(s) \cup {e}
    BY <2>2, <2>3
  <2>7. Card!ToSet(s) \cup {e} \subseteq Card!ToSet(t)
    BY <1>1, <2>2, <2>4, <2>5
  <2> QED
    BY <2>6, <2>7 DEF t
<1> QED
  BY <1>1, <1>2

(* A frame leaves a projection of the same type.  Only a begin empties the  *)
(* order, and only the first creation of a card adds to it.                 *)
LEMMA ApplyProperties ==
  ASSUME NEW p, ProjectionType(p), NEW f \in CardFrame
  PROVE  /\ ProjectionType(Card!Apply(p, f))
         /\ f.type = "begin" => Card!Apply(p, f).order = <<>>
         /\ f.type # "begin" =>
              \/ Card!Apply(p, f).order = p.order
              \/ /\ f.type = "created" /\ f.id # NoId
                 /\ Card!Apply(p, f).order = Append(p.order, f.id)
<1>1. /\ f.type \in {"begin", "created", "updated", "end"}
      /\ f.id \in Ids \cup {NoId} /\ f.patch \in Card!Patches
      /\ f.type = "created" => f.patch \in Card!Values
  BY DEF CardFrame
<1>2. CASE f.type = "begin"
  <2>1. Card!Apply(p, f) =
          [cards |-> Card!NoCards, order |-> <<>>, replaying |-> TRUE]
    BY <1>2 DEF Card!Apply, Card!ReplayBegin
  <2>2. /\ DOMAIN Card!NoCards = {} /\ Card!ToSet(<<>>) = {}
        /\ Card!NoCards = [id \in DOMAIN Card!NoCards |-> Card!NoCards[id]]
    <3>1. DOMAIN Card!NoCards = {}
      BY DEF Card!NoCards
    <3>2. DOMAIN <<>> = {}
      OBVIOUS
    <3>3. Card!ToSet(<<>>) = {}
      BY <3>2 DEF Card!ToSet
    <3>4. Card!NoCards = [id \in DOMAIN Card!NoCards |-> Card!NoCards[id]]
      BY DEF Card!NoCards
    <3> QED
      BY <3>1, <3>3, <3>4
  <2>3. <<>> \in Seq(Ids)
    BY EmptySeq
  <2> QED
    BY <1>2, <2>1, <2>2, <2>3 DEF ProjectionType
<1>3. CASE f.type = "end"
  BY <1>3 DEF Card!Apply, Card!ReplayEnd, ProjectionType
<1>4. CASE f.type = "created"
  <2>1. CASE f.id = NoId
    BY <1>4, <2>1 DEF Card!Apply, Card!Created
  <2>2. CASE f.id # NoId
    <3> DEFINE q == Card!Apply(p, f)
    <3>1. /\ q.cards = Card!With(p.cards, f.id, f.patch)
          /\ q.order = IF f.id \in DOMAIN p.cards THEN p.order
                       ELSE Append(p.order, f.id)
          /\ q.replaying = p.replaying
          /\ q = [cards |-> q.cards, order |-> q.order,
                  replaying |-> q.replaying]
      BY <1>4, <2>2 DEF Card!Apply, Card!Created, ProjectionType
    <3>2. /\ q.cards = [id \in DOMAIN q.cards |-> q.cards[id]]
          /\ DOMAIN q.cards = DOMAIN p.cards \cup {f.id}
          /\ \A id \in DOMAIN q.cards :
               q.cards[id] = IF id = f.id THEN f.patch ELSE p.cards[id]
      BY <3>1 DEF Card!With
    <3>3. f.id \in Ids /\ f.patch \in Card!Values /\ p.order \in Seq(Ids)
      BY <1>1, <1>4, <2>2 DEF ProjectionType
    <3>4. /\ Append(p.order, f.id) \in Seq(Ids)
          /\ Card!ToSet(Append(p.order, f.id))
               = Card!ToSet(p.order) \cup {f.id}
      BY <3>3, AppendProperties, ToSetProperties
    <3> HIDE DEF q
    <3>5. q.order \in Seq(Ids) /\ DOMAIN q.cards = Card!ToSet(q.order)
      BY <3>1, <3>2, <3>3, <3>4 DEF ProjectionType
    <3>6. \A id \in DOMAIN q.cards : id \in Ids /\ q.cards[id] \in Card!Values
      BY <3>2, <3>3 DEF ProjectionType
    <3>7. ProjectionType(q)
      BY <3>1, <3>2, <3>5, <3>6 DEF ProjectionType
    <3> QED
      BY <1>4, <2>2, <3>1, <3>7 DEF q
  <2> QED
    BY <2>1, <2>2
<1>5. CASE f.type = "updated"
  <2>1. Card!Apply(p, f) = Card!Updated(p, f)
    BY <1>5 DEF Card!Apply
  <2>2. CASE f.id \notin DOMAIN p.cards
    BY <1>5, <2>1, <2>2 DEF Card!Updated
  <2>3. CASE f.id \in DOMAIN p.cards
    <3> DEFINE q == Card!Apply(p, f)
               v == [k \in Fields |-> IF k \in DOMAIN f.patch THEN f.patch[k]
                                      ELSE p.cards[f.id][k]]
    <3>1. /\ q.cards = Card!With(p.cards, f.id, v)
          /\ q.order = p.order
          /\ q.replaying = p.replaying
          /\ q = [cards |-> q.cards, order |-> q.order,
                  replaying |-> q.replaying]
      BY <2>1, <2>3 DEF Card!Updated, ProjectionType
    <3>2. v \in Card!Values
      <4>1. p.cards[f.id] \in [Fields -> 0..MaxValue]
        BY <2>3 DEF ProjectionType, Card!Values
      <4>2. \A k \in DOMAIN f.patch : f.patch[k] \in 0..MaxValue
        BY <1>1 DEF Card!Patches
      <4> QED
        BY <4>1, <4>2 DEF Card!Values
    <3> HIDE DEF v
    <3>3. /\ q.cards = [id \in DOMAIN q.cards |-> q.cards[id]]
          /\ DOMAIN q.cards = DOMAIN p.cards
          /\ \A id \in DOMAIN q.cards :
               q.cards[id] = IF id = f.id THEN v ELSE p.cards[id]
      BY <2>3, <3>1 DEF Card!With
    <3> HIDE DEF q
    <3>4. ProjectionType(q)
      BY <3>1, <3>2, <3>3 DEF ProjectionType
    <3> QED
      BY <1>5, <3>1, <3>4 DEF q
  <2> QED
    BY <2>2, <2>3
<1> QED
  BY <1>1, <1>2, <1>3, <1>4, <1>5

(* What the daemon sends in one step.                                       *)
CreatedFrame(c) == Card!Frame("created", c.id, c.fields)

ReplayFrames(d) ==
  <<Card!Frame("begin", NoId, <<>>)>> \o [i \in DOMAIN d |-> CreatedFrame(d[i])]
    \o <<Card!Frame("end", NoId, <<>>)>>

NoFields == [k \in Fields |-> 0]

LEMMA ReplayProperties ==
  ASSUME NEW d \in Seq(Card!Cards)
  PROVE  /\ ReplayFrames(d) \in Seq(CardFrame)
         /\ Len(ReplayFrames(d)) = Len(d) + 2
         /\ ReplayFrames(d)[1] = Card!Frame("begin", NoId, <<>>)
         /\ \A i \in 1..Len(d) : ReplayFrames(d)[i + 1] = CreatedFrame(d[i])
         /\ ReplayFrames(d)[Len(d) + 2] = Card!Frame("end", NoId, <<>>)
<1> DEFINE begin == <<Card!Frame("begin", NoId, <<>>)>>
           all == [i \in DOMAIN d |-> CreatedFrame(d[i])]
           end == <<Card!Frame("end", NoId, <<>>)>>
<1>1. DOMAIN d = 1..Len(d) /\ Len(d) \in Nat
  BY LenProperties
<1>2. \A i \in 1..Len(d) : CreatedFrame(d[i]) \in CardFrame
  <2>1. ASSUME NEW c \in Card!Cards PROVE CreatedFrame(c) \in CardFrame
    BY PatchTypes DEF CreatedFrame, Card!Frame, Card!Cards, CardFrame
  <2> QED
    BY <2>1, ElementOfSeq
<1>3. all \in Seq(CardFrame) /\ Len(all) = Len(d)
  BY <1>1, <1>2
<1>4. /\ begin \in Seq(CardFrame) /\ Len(begin) = 1
      /\ end \in Seq(CardFrame) /\ Len(end) = 1
  <2>1. /\ Card!Frame("begin", NoId, <<>>) \in CardFrame
        /\ Card!Frame("end", NoId, <<>>) \in CardFrame
    BY PatchTypes DEF Card!Frame, CardFrame
  <2> QED
    BY <2>1
<1>5. /\ \A i \in 1..Len(d) : all[i] = CreatedFrame(d[i])
      /\ begin[1] = Card!Frame("begin", NoId, <<>>)
      /\ end[1] = Card!Frame("end", NoId, <<>>)
  BY <1>1
<1>6. ReplayFrames(d) = (begin \o all) \o end
  BY DEF ReplayFrames
<1> HIDE DEF begin, all, end
<1>7. /\ begin \o all \in Seq(CardFrame)
      /\ Len(begin \o all) = Len(d) + 1
      /\ (begin \o all)[1] = begin[1]
      /\ \A i \in 1..Len(d) : (begin \o all)[i + 1] = all[i]
  <2>1. /\ begin \o all \in Seq(CardFrame)
        /\ Len(begin \o all) = Len(begin) + Len(all)
        /\ \A i \in 1 .. Len(begin) + Len(all) : (begin \o all)[i] =
             IF i <= Len(begin) THEN begin[i] ELSE all[i - Len(begin)]
    <3>1. begin \in Seq(CardFrame) /\ all \in Seq(CardFrame)
      BY <1>3, <1>4
    <3> QED
      BY <3>1, ConcatProperties, Zenon
  <2>2. \A i \in 1..Len(d) : i + 1 \in 1 .. 1 + Len(d) /\ ~(i + 1 <= 1)
                             /\ (i + 1) - 1 = i
    BY <1>1
  <2> QED
    BY <1>1, <1>3, <1>4, <2>1, <2>2
<1>8. /\ (begin \o all) \o end \in Seq(CardFrame)
      /\ Len((begin \o all) \o end) = Len(d) + 2
      /\ \A i \in 1..(Len(d) + 1) : ((begin \o all) \o end)[i] = (begin \o all)[i]
      /\ ((begin \o all) \o end)[Len(d) + 2] = end[1]
  <2> DEFINE b == begin \o all
  <2>1. /\ b \o end \in Seq(CardFrame)
        /\ Len(b \o end) = Len(b) + Len(end)
        /\ \A i \in 1 .. Len(b) + Len(end) : (b \o end)[i] =
             IF i <= Len(b) THEN b[i] ELSE end[i - Len(b)]
    BY <1>4, <1>7, ConcatProperties
  <2> QED
    BY <1>1, <1>4, <1>7, <2>1
<1>9. \A i \in 1..Len(d) : i + 1 \in 1..(Len(d) + 1)
  BY <1>1
<1>10. 1 \in 1..(Len(d) + 1)
  BY <1>1
<1> DEFINE r == (begin \o all) \o end
<1>11. /\ r[1] = Card!Frame("begin", NoId, <<>>)
       /\ r[Len(d) + 2] = Card!Frame("end", NoId, <<>>)
  BY <1>5, <1>7, <1>8, <1>10
<1>12. \A i \in 1..Len(d) : r[i + 1] = CreatedFrame(d[i])
  BY <1>5, <1>7, <1>8, <1>9
<1>13. ReplayFrames(d) = r
  BY <1>6
<1> HIDE DEF r
<1> QED
  BY <1>8, <1>11, <1>12, <1>13 DEF r

(* The steps of the daemon and of its stream.                               *)
LEMMA CreateIs ==
  ASSUME CardType, NEW id \in Ids, Card!Create(id)
  PROVE  LET c == [id |-> id, fields |-> NoFields] IN
         /\ c \in Card!Cards
         /\ \A i \in DOMAIN daemon : daemon[i].id # id
         /\ daemon' = Append(daemon, c)
         /\ CreatedFrame(c) \in CardFrame
         /\ Card!Send(<<CreatedFrame(c)>>)
<1> DEFINE c == [id |-> id, fields |-> NoFields]
<1>1. NoFields \in Card!Values
  BY ShownAssumption DEF NoFields, Card!Values
<1>2. c \in Card!Cards
  BY <1>1 DEF Card!Cards
<1>3. CreatedFrame(c) \in CardFrame
  BY <1>1, PatchTypes DEF CreatedFrame, Card!Frame, CardFrame
<1> QED
  BY <1>2, <1>3 DEF Card!Create, CreatedFrame, NoFields

LEMMA ChangeIs ==
  ASSUME CardType, NEW i \in DOMAIN daemon, NEW k \in Fields, Card!Change(i, k)
  PROVE  \E v \in 0..MaxValue :
           LET c == [id |-> daemon[i].id,
                     fields |-> [daemon[i].fields EXCEPT ![k] = v]]
               f == Card!Frame("updated", daemon[i].id, [x \in {k} |-> v])
           IN
           /\ c \in Card!Cards
           /\ daemon' = [daemon EXCEPT ![i] = c]
           /\ f \in CardFrame
           /\ Card!Send(<<f>>)
<1> DEFINE v == daemon[i].fields[k] + 1
           c == [id |-> daemon[i].id,
                 fields |-> [daemon[i].fields EXCEPT ![k] = v]]
           f == Card!Frame("updated", daemon[i].id, [x \in {k} |-> v])
<1>1. daemon[i] \in Card!Cards
  BY DEF CardType
<1>2. v \in 0..MaxValue
  BY <1>1, ShownAssumption DEF Card!Change, Card!Cards, Card!Values
<1>3. c \in Card!Cards
  BY <1>1, <1>2 DEF Card!Cards, Card!Values
<1>4. f \in CardFrame
  BY <1>1, <1>2, PatchTypes DEF Card!Frame, CardFrame, Card!Cards
<1>5. daemon' = [daemon EXCEPT ![i] = c]
  <2>1. daemon' = [daemon EXCEPT ![i] = [daemon[i] EXCEPT !.fields =
                                      [daemon[i].fields EXCEPT ![k] = v]]]
    BY DEF Card!Change
  <2>2. [daemon[i] EXCEPT !.fields = [daemon[i].fields EXCEPT ![k] = v]] = c
    BY <1>1 DEF Card!Cards
  <2> QED
    BY <2>1, <2>2
<1>6. Card!Send(<<f>>)
  BY DEF Card!Change
<1> QED
  BY <1>2, <1>3, <1>4, <1>5, <1>6

LEMMA AnonymousIs ==
  ASSUME NEW type \in {"created", "updated"}, Card!SendAnonymous(type)
  PROVE  /\ daemon' = daemon
         /\ Card!Frame(type, NoId, NoFields) \in CardFrame
         /\ Card!Send(<<Card!Frame(type, NoId, NoFields)>>)
<1>1. NoFields \in Card!Values
  BY ShownAssumption DEF NoFields, Card!Values
<1>2. Card!Frame(type, NoId, NoFields) \in CardFrame
  BY <1>1, PatchTypes DEF Card!Frame, CardFrame
<1> QED
  BY <1>2 DEF Card!SendAnonymous, NoFields

LEMMA ReplayIs ==
  ASSUME Card!Replay
  PROVE  daemon' = daemon /\ Card!Send(ReplayFrames(daemon))
BY DEF Card!Replay, ReplayFrames, CreatedFrame

LEMMA StepCardType == CardType /\ [Card!Next]_Card!cardVars => CardType'
<1> SUFFICES ASSUME CardType, [Card!Next]_Card!cardVars PROVE CardType'
  OBVIOUS
<1>1. ASSUME NEW frames \in Seq(CardFrame), Card!Send(frames),
             daemon' \in Seq(Card!Cards)
      PROVE  CardType'
  BY <1>1, ConcatProperties
     DEF Card!Send, Card!projection, CardType, Card!Projection
<1>2. ASSUME NEW id \in Ids, Card!Create(id) PROVE CardType'
  <2> DEFINE c == [id |-> id, fields |-> NoFields]
  <2>1. /\ c \in Card!Cards /\ daemon' = Append(daemon, c)
        /\ CreatedFrame(c) \in CardFrame /\ Card!Send(<<CreatedFrame(c)>>)
    BY <1>2, CreateIs
  <2>2. daemon' \in Seq(Card!Cards)
    BY <2>1, AppendProperties DEF CardType
  <2>3. <<CreatedFrame(c)>> \in Seq(CardFrame)
    BY <2>1
  <2> QED
    BY <1>1, <2>1, <2>2, <2>3
<1>3. ASSUME NEW i \in DOMAIN daemon, NEW k \in Fields, Card!Change(i, k)
      PROVE  CardType'
  <2>1. PICK v \in 0..MaxValue :
          LET c == [id |-> daemon[i].id,
                    fields |-> [daemon[i].fields EXCEPT ![k] = v]]
              f == Card!Frame("updated", daemon[i].id, [x \in {k} |-> v])
          IN
          /\ c \in Card!Cards
          /\ daemon' = [daemon EXCEPT ![i] = c]
          /\ f \in CardFrame
          /\ Card!Send(<<f>>)
    BY <1>3, ChangeIs
  <2> DEFINE f == Card!Frame("updated", daemon[i].id, [x \in {k} |-> v])
  <2>2. <<f>> \in Seq(CardFrame) /\ Card!Send(<<f>>)
    BY <2>1
  <2>3. daemon' \in Seq(Card!Cards)
    BY <2>1, ExceptSeq DEF CardType
  <2> QED
    BY <1>1, <2>2, <2>3
<1>4. ASSUME NEW type \in {"created", "updated"}, Card!SendAnonymous(type)
      PROVE  CardType'
  <2>1. <<Card!Frame(type, NoId, NoFields)>> \in Seq(CardFrame)
    BY <1>4, AnonymousIs
  <2> QED
    BY <1>1, <1>4, <2>1, AnonymousIs DEF CardType
<1>5. CASE Card!Replay
  BY <1>1, <1>5, ReplayIs, ReplayProperties DEF CardType
<1>6. CASE Card!Lose
  BY <1>6, HeadTailProperties
     DEF Card!Lose, Card!projection, CardType, Card!Projection
<1>7. CASE Card!apply
  <2>1. /\ Head(wire) \in CardFrame
        /\ wire' \in Seq(CardFrame)
    BY <1>7, HeadTailProperties DEF Card!apply, CardType
  <2> DEFINE p == Card!Apply(Card!Projection, Head(wire))
  <2>2. ProjectionType(p)
    BY <2>1, ApplyProperties DEF CardType
  <2>3. Card!Projection' = p
    <3>1. cards' = p.cards /\ order' = p.order /\ replaying' = p.replaying
      BY <1>7 DEF Card!apply
    <3>2. p = [cards |-> p.cards, order |-> p.order, replaying |-> p.replaying]
      BY <2>2 DEF ProjectionType
    <3> HIDE DEF p
    <3> QED
      BY <3>1, <3>2 DEF Card!Projection
  <2>4. daemon' = daemon /\ lost' \in BOOLEAN /\ beginLost' \in BOOLEAN
    BY <1>7 DEF Card!apply, CardType
  <2> HIDE DEF p
  <2> QED
    BY <2>1, <2>2, <2>3, <2>4 DEF CardType
<1>8. CASE UNCHANGED Card!cardVars
  BY <1>8 DEF Card!cardVars, Card!projection, CardType, Card!Projection
<1> QED
  BY <1>2, <1>3, <1>4, <1>5, <1>6, <1>7, <1>8 DEF Card!Next

LEMMA InitCardType == Card!Init => CardType
<1> SUFFICES ASSUME Card!Init PROVE CardType
  OBVIOUS
<1>1. /\ Card!Projection.cards = Card!NoCards
      /\ Card!Projection.order = <<>>
      /\ Card!Projection.replaying = FALSE
      /\ Card!Projection = [cards |-> Card!NoCards, order |-> <<>>,
                            replaying |-> FALSE]
  BY DEF Card!Init, Card!Projection
<1>2. /\ DOMAIN Card!NoCards = {} /\ Card!ToSet(<<>>) = {} /\ <<>> \in Seq(Ids)
      /\ Card!NoCards = [id \in DOMAIN Card!NoCards |-> Card!NoCards[id]]
  <2>1. DOMAIN <<>> = {} /\ DOMAIN Card!NoCards = {}
    BY DEF Card!NoCards
  <2>2. Card!NoCards = [id \in DOMAIN Card!NoCards |-> Card!NoCards[id]]
    BY DEF Card!NoCards
  <2> QED
    BY <2>1, <2>2, EmptySeq DEF Card!ToSet
<1>3. ProjectionType(Card!Projection)
  BY <1>1, <1>2 DEF ProjectionType
<1>4. <<>> \in Seq(Card!Cards) /\ <<>> \in Seq(CardFrame)
  BY EmptySeq
<1> QED
  BY <1>3, <1>4 DEF Card!Init, CardType

LEMMA CardTypeImplies == CardType => Card!TypeOK
<1> SUFFICES ASSUME CardType PROVE Card!TypeOK
  OBVIOUS
<1>1. \A i \in DOMAIN wire : wire[i] \in CardFrame
  BY DEF CardType
<1>2. /\ Card!Projection.cards = cards /\ Card!Projection.order = order
      /\ Card!Projection.replaying = replaying
  BY DEF Card!Projection
<1>3. /\ \A id \in DOMAIN cards : id \in Ids /\ cards[id] \in Card!Values
      /\ order \in Seq(Ids) /\ DOMAIN cards = Card!ToSet(order)
      /\ replaying \in BOOLEAN
  BY <1>2 DEF CardType, ProjectionType
<1> QED
  BY <1>1, <1>3 DEF CardType, Card!TypeOK, CardFrame

-----------------------------------------------------------------------------
(* The order of the cards.                                                  *)

(* Cards have ids of their own, and a position each.                        *)
IdsOf(d) == {d[i].id : i \in 1..Len(d)}
Once(d) == \A i, j \in 1..Len(d) : d[i].id = d[j].id => i = j
Pos(d, id) == CHOOSE i \in DOMAIN d : d[i].id = id

(* Daemon e has the cards of d where d has them.                            *)
SamePlaces(d, e) == \A id \in IdsOf(d) : id \in IdsOf(e) /\ Pos(e, id) = Pos(d, id)

Creates(f) == f.type = "created" /\ f.id # NoId
NoBegin(w, i, j) == \A k \in i..j : w[k].type # "begin"

Sorted(d, o) == \A i, j \in 1..Len(o) : i < j => Pos(d, o[i]) < Pos(d, o[j])

(* What is created on the wire, and in the order, is a card of the daemon.  *)
WireKnown(d, w) == \A i \in 1..Len(w) : Creates(w[i]) => w[i].id \in IdsOf(d)
OrderKnown(d, o) == \A i \in 1..Len(o) : o[i] \in IdsOf(d)

(* Up to the next begin the wire creates cards in the order of the daemon,  *)
(* and those that follow the ones in the projection.                        *)
WireSorted(d, w) ==
  \A i, j \in 1..Len(w) :
    i < j /\ Creates(w[i]) /\ Creates(w[j]) /\ NoBegin(w, i, j)
      => Pos(d, w[i].id) < Pos(d, w[j].id)

Follows(d, w, o) ==
  \A j \in 1..Len(w) :
    Creates(w[j]) /\ NoBegin(w, 1, j) =>
      \A i \in 1..Len(o) : Pos(d, o[i]) < Pos(d, w[j].id)

OrderInv ==
  /\ Once(daemon)
  /\ WireKnown(daemon, wire) /\ OrderKnown(daemon, order)
  /\ WireSorted(daemon, wire)
  /\ ~beginLost => Follows(daemon, wire, order) /\ Sorted(daemon, order)

(* New frames create cards behind those the daemon had, until they begin a  *)
(* replay.                                                                  *)
Fresh(d, e, fr) ==
  \A j \in 1..Len(fr) : Creates(fr[j]) /\ NoBegin(fr, 1, j) =>
    \A id \in IdsOf(d) : Pos(d, id) < Pos(e, fr[j].id)

LEMMA PosIs ==
  ASSUME NEW d \in Seq(Card!Cards), Once(d), NEW i \in 1..Len(d)
  PROVE  Pos(d, d[i].id) = i
<1>1. DOMAIN d = 1..Len(d)
  OBVIOUS
<1>2. Pos(d, d[i].id) \in 1..Len(d) /\ d[Pos(d, d[i].id)].id = d[i].id
  BY <1>1 DEF Pos
<1> QED
  BY <1>2 DEF Once

(* A new card comes last.                                                   *)
LEMMA AppendPlaces ==
  ASSUME NEW d \in Seq(Card!Cards), Once(d), NEW c \in Card!Cards,
         c.id \notin IdsOf(d)
  PROVE  /\ Once(Append(d, c))
         /\ SamePlaces(d, Append(d, c))
         /\ c.id \in IdsOf(Append(d, c))
         /\ \A id \in IdsOf(d) : Pos(d, id) < Pos(Append(d, c), c.id)
<1> DEFINE e == Append(d, c)
<1>1. /\ e \in Seq(Card!Cards) /\ Len(e) = Len(d) + 1 /\ Len(d) \in Nat
      /\ \A i \in 1..Len(d) : e[i] = d[i]
      /\ e[Len(d) + 1] = c
  BY AppendProperties
<1> HIDE DEF e
<1>2. \A i \in 1..Len(e) : i \in 1..Len(d) \/ i = Len(d) + 1
  BY <1>1
<1>3. Once(e)
  BY <1>1, <1>2 DEF Once, IdsOf
<1>4. Len(d) + 1 \in 1..Len(e) /\ Pos(e, c.id) = Len(d) + 1
  BY <1>1, <1>3, PosIs
<1>5. c.id \in IdsOf(e)
  BY <1>1, <1>4 DEF IdsOf
<1>6. ASSUME NEW id \in IdsOf(d)
      PROVE  id \in IdsOf(e) /\ Pos(e, id) = Pos(d, id) /\ Pos(d, id) < Len(d) + 1
  <2>1. PICK i \in 1..Len(d) : d[i].id = id
    BY DEF IdsOf
  <2>2. Pos(d, id) = i
    BY <2>1, PosIs
  <2>3. i \in 1..Len(e) /\ e[i].id = id
    BY <1>1, <2>1
  <2>4. Pos(e, id) = i
    BY <1>1, <1>3, <2>3, PosIs
  <2> QED
    BY <1>1, <2>2, <2>3, <2>4 DEF IdsOf
<1> QED
  BY <1>3, <1>4, <1>5, <1>6 DEF SamePlaces, e

(* A change leaves a card in its place.                                     *)
LEMMA ExceptPlaces ==
  ASSUME NEW d \in Seq(Card!Cards), Once(d), NEW c \in Card!Cards,
         NEW n \in 1..Len(d), c.id = d[n].id
  PROVE  /\ Once([d EXCEPT ![n] = c])
         /\ SamePlaces(d, [d EXCEPT ![n] = c])
<1> DEFINE e == [d EXCEPT ![n] = c]
<1>1. e \in Seq(Card!Cards) /\ Len(e) = Len(d)
  BY ExceptSeq
<1>2. \A i \in 1..Len(d) : e[i].id = d[i].id
  BY ExceptSeq
<1> HIDE DEF e
<1>3. Once(e)
  BY <1>1, <1>2 DEF Once
<1>4. ASSUME NEW id \in IdsOf(d)
      PROVE  id \in IdsOf(e) /\ Pos(e, id) = Pos(d, id)
  <2>1. PICK i \in 1..Len(d) : d[i].id = id
    BY DEF IdsOf
  <2> QED
    BY <1>1, <1>2, <1>3, <2>1, PosIs DEF IdsOf
<1> QED
  BY <1>3, <1>4 DEF SamePlaces, e

(* What is sent keeps the wire sorted, and behind the projection.           *)
LEMMA SendSorted ==
  ASSUME NEW d \in Seq(Card!Cards), NEW e \in Seq(Card!Cards), SamePlaces(d, e),
         NEW w \in Seq(CardFrame), NEW fr \in Seq(CardFrame),
         WireKnown(d, w), WireKnown(e, fr),
         WireSorted(d, w), WireSorted(e, fr), Fresh(d, e, fr)
  PROVE  /\ WireKnown(e, w \o fr) /\ WireSorted(e, w \o fr)
         /\ \A o \in Seq(Ids) : OrderKnown(d, o) =>
              /\ OrderKnown(e, o)
              /\ Sorted(d, o) => Sorted(e, o)
              /\ Follows(d, w, o) => Follows(e, w \o fr, o)
<1> DEFINE W == w \o fr
           n == Len(w)
           m == Len(fr)
<1>1. /\ n \in Nat /\ m \in Nat /\ Len(W) = n + m
      /\ \A i \in 1..n : W[i] = w[i]
      /\ \A i \in 1..m : W[n + i] = fr[i]
  <2>1. /\ Len(W) = n + m /\ n \in Nat /\ m \in Nat
        /\ \A i \in 1..(n + m) : W[i] = IF i <= n THEN w[i] ELSE fr[i - n]
    BY ConcatProperties
  <2>2. \A i \in 1..n : i \in 1..(n + m) /\ i <= n
    BY <2>1
  <2>3. \A i \in 1..m : n + i \in 1..(n + m) /\ ~(n + i <= n) /\ (n + i) - n = i
    BY <2>1
  <2> HIDE DEF W, n, m
  <2> QED
    BY <2>1, <2>2, <2>3
<1>2. n = Len(w) /\ m = Len(fr)
  OBVIOUS
<1> HIDE DEF W, n, m
<1>3. \A j \in 1..Len(W) : j \in 1..n \/ \E k \in 1..m : j = n + k
  <2>1. ASSUME NEW j \in 1..Len(W), j \notin 1..n
        PROVE  j - n \in 1..m /\ j = n + (j - n)
    BY <1>1, <2>1
  <2> QED
    BY <2>1
<1>4. ASSUME NEW i \in 1..n, NEW j \in 1..n, NoBegin(W, i, j)
      PROVE  NoBegin(w, i, j)
  BY <1>1, <1>4 DEF NoBegin
<1>5. ASSUME NEW i \in 1..n, NEW k \in 1..m, NoBegin(W, i, n + k)
      PROVE  NoBegin(fr, 1, k)
  <2>1. \A l \in 1..k : n + l \in i..(n + k) /\ l \in 1..m
    BY <1>1
  <2> QED
    BY <1>1, <1>5, <2>1 DEF NoBegin
<1>6. ASSUME NEW h \in 1..m, NEW k \in 1..m, NoBegin(W, n + h, n + k)
      PROVE  NoBegin(fr, h, k)
  <2>1. \A l \in h..k : n + l \in (n + h)..(n + k) /\ l \in 1..m
    BY <1>1
  <2> QED
    BY <1>1, <1>6, <2>1 DEF NoBegin
<1>7. ASSUME NEW k \in 1..m, NoBegin(W, 1, n + k)
      PROVE  NoBegin(fr, 1, k)
  <2>1. \A l \in 1..k : n + l \in 1..(n + k) /\ l \in 1..m
    BY <1>1
  <2> QED
    BY <1>1, <1>7, <2>1 DEF NoBegin
<1>8. \A i \in 1..n : Creates(W[i]) =>
        /\ Creates(w[i]) /\ w[i].id \in IdsOf(d) /\ W[i].id \in IdsOf(e)
        /\ Pos(e, W[i].id) = Pos(d, w[i].id)
  BY <1>1, <1>2 DEF WireKnown, SamePlaces
<1>9. WireKnown(e, W)
  BY <1>1, <1>2, <1>3, <1>8 DEF WireKnown
<1>10. ASSUME NEW i \in 1..Len(W), NEW j \in 1..Len(W), i < j,
              Creates(W[i]), Creates(W[j]), NoBegin(W, i, j)
       PROVE  Pos(e, W[i].id) < Pos(e, W[j].id)
  <2>1. CASE i \in 1..n /\ j \in 1..n
    <3>1. NoBegin(w, i, j)
      BY <1>4, <1>10, <2>1
    <3> QED
      BY <1>2, <1>8, <1>10, <2>1, <3>1 DEF WireSorted
  <2>2. ASSUME i \in 1..n, NEW k \in 1..m, j = n + k
        PROVE  Pos(e, W[i].id) < Pos(e, W[j].id)
    <3>1. NoBegin(fr, 1, k)
      BY <1>5, <1>10, <2>2
    <3>2. Creates(fr[k]) /\ W[j] = fr[k]
      BY <1>1, <1>10, <2>2
    <3> QED
      BY <1>2, <1>8, <1>10, <2>2, <3>1, <3>2 DEF Fresh
  <2>3. ASSUME NEW h \in 1..m, i = n + h, NEW k \in 1..m, j = n + k
        PROVE  Pos(e, W[i].id) < Pos(e, W[j].id)
    <3>1. NoBegin(fr, h, k) /\ h < k
      BY <1>1, <1>6, <1>10, <2>3
    <3>2. Creates(fr[h]) /\ W[i] = fr[h] /\ Creates(fr[k]) /\ W[j] = fr[k]
      BY <1>1, <1>10, <2>3
    <3> QED
      BY <1>2, <3>1, <3>2 DEF WireSorted
  <2>4. ~(\E h \in 1..m : i = n + h) \/ j \notin 1..n
    BY <1>1, <1>10
  <2> QED
    BY <1>3, <2>1, <2>2, <2>3, <2>4
<1>11. ASSUME NEW o \in Seq(Ids), OrderKnown(d, o)
       PROVE  \A i \in 1..Len(o) : /\ o[i] \in IdsOf(d) /\ o[i] \in IdsOf(e)
                                   /\ Pos(e, o[i]) = Pos(d, o[i])
  BY <1>11 DEF OrderKnown, SamePlaces
<1>12. ASSUME NEW o \in Seq(Ids), OrderKnown(d, o), Follows(d, w, o),
              NEW j \in 1..Len(W), Creates(W[j]), NoBegin(W, 1, j),
              NEW i \in 1..Len(o)
       PROVE  Pos(e, o[i]) < Pos(e, W[j].id)
  <2>1. CASE j \in 1..n
    <3>1. NoBegin(w, 1, j)
      <4>1. 1 \in 1..n
        BY <1>1, <2>1
      <4> QED
        BY <1>4, <1>12, <2>1, <4>1
    <3> QED
      BY <1>2, <1>8, <1>11, <1>12, <2>1, <3>1 DEF Follows
  <2>2. ASSUME NEW k \in 1..m, j = n + k
        PROVE  Pos(e, o[i]) < Pos(e, W[j].id)
    <3>1. NoBegin(fr, 1, k)
      BY <1>7, <1>12, <2>2
    <3>2. Creates(fr[k]) /\ W[j] = fr[k]
      BY <1>1, <1>12, <2>2
    <3> QED
      BY <1>2, <1>11, <1>12, <3>1, <3>2 DEF Fresh
  <2> QED
    BY <1>3, <2>1, <2>2
<1>13. ASSUME NEW o \in Seq(Ids), OrderKnown(d, o)
       PROVE  /\ OrderKnown(e, o)
              /\ Sorted(d, o) => Sorted(e, o)
              /\ Follows(d, w, o) => Follows(e, W, o)
  BY <1>11, <1>12, <1>13 DEF OrderKnown, Sorted, Follows
<1>14. WireSorted(e, W)
  BY <1>10 DEF WireSorted
<1> QED
  BY <1>9, <1>13, <1>14 DEF W

(* A frame taken off the wire.                                              *)
LEMMA TailSorted ==
  ASSUME NEW d, NEW w \in Seq(CardFrame), w # <<>>,
         WireKnown(d, w), WireSorted(d, w)
  PROVE  /\ WireKnown(d, Tail(w)) /\ WireSorted(d, Tail(w))
         /\ Head(w).type # "begin" =>
              \A o \in Seq(Ids) : Follows(d, w, o) => Follows(d, Tail(w), o)
         /\ Creates(Head(w)) =>
              \A o \in Seq(Ids), id \in Ids :
                id = Head(w).id /\ Follows(d, w, o) /\ Sorted(d, o) =>
                  /\ Sorted(d, Append(o, id))
                  /\ Follows(d, Tail(w), Append(o, id))
<1> DEFINE W == Tail(w)
<1>1. /\ Len(w) \in Nat /\ Len(w) > 0 /\ Len(W) = Len(w) - 1
      /\ \A i \in 1..Len(W) : W[i] = w[i + 1] /\ i + 1 \in 1..Len(w)
      /\ Head(w) = w[1] /\ 1 \in 1..Len(w)
  BY HeadTailProperties
<1> HIDE DEF W
<1>2. ASSUME NEW i \in 1..Len(W), NEW j \in 1..Len(W), NoBegin(W, i, j)
      PROVE  NoBegin(w, i + 1, j + 1)
  <2>1. ASSUME NEW k \in (i + 1)..(j + 1) PROVE w[k].type # "begin"
    <3>1. k - 1 \in i..j /\ k - 1 \in 1..Len(W) /\ (k - 1) + 1 = k
      BY <1>1
    <3>2. W[k - 1].type # "begin"
      BY <1>2, <3>1 DEF NoBegin
    <3>3. W[k - 1] = w[k]
      BY <1>1, <3>1
    <3> QED
      BY <3>2, <3>3
  <2> QED
    BY <2>1 DEF NoBegin
<1>3. ASSUME Head(w).type # "begin", NEW j \in 1..Len(W), NoBegin(W, 1, j)
      PROVE  NoBegin(w, 1, j + 1)
  <2>1. NoBegin(w, 2, j + 1)
    BY <1>1, <1>2, <1>3
  <2>2. \A k \in 1..(j + 1) : k = 1 \/ k \in 2..(j + 1)
    OBVIOUS
  <2> QED
    BY <1>1, <1>3, <2>1, <2>2 DEF NoBegin
<1>4. WireKnown(d, W) /\ WireSorted(d, W)
  <2>1. WireKnown(d, W)
    BY <1>1 DEF WireKnown
  <2>2. ASSUME NEW i \in 1..Len(W), NEW j \in 1..Len(W), i < j,
               Creates(W[i]), Creates(W[j]), NoBegin(W, i, j)
        PROVE  Pos(d, W[i].id) < Pos(d, W[j].id)
    <3>1. NoBegin(w, i + 1, j + 1) /\ i + 1 < j + 1
      BY <1>2, <2>2
    <3> QED
      BY <1>1, <2>2, <3>1 DEF WireSorted
  <2> QED
    BY <2>1, <2>2 DEF WireSorted
<1>5. ASSUME Head(w).type # "begin", NEW o \in Seq(Ids), Follows(d, w, o)
      PROVE  Follows(d, W, o)
  BY <1>1, <1>3, <1>5 DEF Follows
<1>6. ASSUME Creates(Head(w)), NEW o \in Seq(Ids), NEW id \in Ids,
             id = Head(w).id, Follows(d, w, o), Sorted(d, o)
      PROVE  Sorted(d, Append(o, id)) /\ Follows(d, W, Append(o, id))
  <2> DEFINE O == Append(o, id)
  <2>1. /\ Len(O) = Len(o) + 1 /\ Len(o) \in Nat
        /\ \A i \in 1..Len(o) : O[i] = o[i]
        /\ O[Len(o) + 1] = id
    BY AppendProperties
  <2> HIDE DEF O
  <2>2. \A i \in 1..Len(O) : i \in 1..Len(o) \/ i = Len(o) + 1
    BY <2>1
  <2>3. NoBegin(w, 1, 1) /\ Head(w).type # "begin"
    BY <1>1, <1>6 DEF NoBegin, Creates
  <2>4. \A i \in 1..Len(o) : Pos(d, o[i]) < Pos(d, id)
    BY <1>1, <1>6, <2>3 DEF Follows
  <2>5. ASSUME NEW i \in 1..Len(O), NEW j \in 1..Len(O), i < j
        PROVE  Pos(d, O[i]) < Pos(d, O[j])
    <3>1. i \in 1..Len(o)
      BY <2>1, <2>5
    <3>2. CASE j \in 1..Len(o)
      BY <1>6, <2>1, <2>5, <3>1, <3>2 DEF Sorted
    <3>3. CASE j = Len(o) + 1
      BY <2>1, <2>4, <3>1, <3>3
    <3> QED
      BY <2>2, <3>2, <3>3
  <2>6. ASSUME NEW j \in 1..Len(W), Creates(W[j]), NoBegin(W, 1, j),
               NEW i \in 1..Len(O)
        PROVE  Pos(d, O[i]) < Pos(d, W[j].id)
    <3>1. NoBegin(w, 1, j + 1) /\ j + 1 \in 1..Len(w) /\ W[j] = w[j + 1]
          /\ 1 < j + 1
      BY <1>1, <1>3, <2>3, <2>6
    <3>2. CASE i \in 1..Len(o)
      BY <1>6, <2>1, <2>6, <3>1, <3>2 DEF Follows
    <3>3. CASE i = Len(o) + 1
      BY <1>1, <1>6, <2>1, <2>6, <3>1, <3>3 DEF WireSorted
    <3> QED
      BY <2>2, <3>2, <3>3
  <2> QED
    BY <2>5, <2>6 DEF Sorted, Follows, O
<1> QED
  BY <1>4, <1>5, <1>6 DEF W

(* A replay creates the cards in their order.                               *)
LEMMA ReplaySorted ==
  ASSUME NEW d \in Seq(Card!Cards), Once(d)
  PROVE  /\ WireKnown(d, ReplayFrames(d))
         /\ WireSorted(d, ReplayFrames(d))
         /\ Fresh(d, d, ReplayFrames(d))
<1> DEFINE r == ReplayFrames(d)
<1>1. /\ Len(r) = Len(d) + 2 /\ Len(d) \in Nat
      /\ r[1].type = "begin" /\ r[Len(d) + 2].type = "end"
      /\ \A i \in 1..Len(d) : r[i + 1].id = d[i].id
  <2>1. /\ \A i \in 1..Len(d) : r[i + 1] = CreatedFrame(d[i])
        /\ r[1] = Card!Frame("begin", NoId, <<>>)
        /\ r[Len(d) + 2] = Card!Frame("end", NoId, <<>>)
        /\ Len(r) = Len(d) + 2 /\ Len(d) \in Nat
    BY ReplayProperties
  <2>2. /\ \A i \in 1..Len(d) : CreatedFrame(d[i]).id = d[i].id
        /\ Card!Frame("begin", NoId, <<>>).type = "begin"
        /\ Card!Frame("end", NoId, <<>>).type = "end"
    BY DEF CreatedFrame, Card!Frame
  <2> HIDE DEF r
  <2> QED
    BY <2>1, <2>2
<1> HIDE DEF r
<1>2. ASSUME NEW i \in 1..Len(r), Creates(r[i])
      PROVE  /\ i - 1 \in 1..Len(d)
             /\ r[i].id = d[i - 1].id /\ Pos(d, r[i].id) = i - 1
  <2>1. i # 1 /\ i # Len(d) + 2
    BY <1>1, <1>2 DEF Creates
  <2>2. i - 1 \in 1..Len(d) /\ (i - 1) + 1 = i
    BY <1>1, <2>1
  <2> QED
    BY <1>1, <2>2, PosIs
<1>3. WireKnown(d, r)
  BY <1>2 DEF WireKnown, IdsOf
<1>4. WireSorted(d, r)
  BY <1>2 DEF WireSorted
<1>5. Fresh(d, d, r)
  <2>1. \A j \in 1..Len(r) : 1 \in 1..j
    OBVIOUS
  <2> QED
    BY <1>1, <2>1 DEF Fresh, NoBegin
<1> QED
  BY <1>3, <1>4, <1>5 DEF r

(* Nor is there anything wrong with a single frame.                         *)
LEMMA SingleSorted ==
  ASSUME NEW d, NEW e, NEW f,
         Creates(f) => /\ f.id \in IdsOf(e)
                       /\ \A id \in IdsOf(d) : Pos(d, id) < Pos(e, f.id)
  PROVE  /\ WireKnown(e, <<f>>) /\ WireSorted(e, <<f>>) /\ Fresh(d, e, <<f>>)
<1>1. Len(<<f>>) = 1 /\ <<f>>[1] = f
  OBVIOUS
<1>2. \A i \in 1..1 : i = 1
  OBVIOUS
<1> QED
  BY <1>1, <1>2 DEF WireKnown, WireSorted, Fresh

LEMMA StepOrder ==
  ASSUME CardType, OrderInv, [Card!Next]_Card!cardVars
  PROVE  OrderInv'
<1>1. /\ daemon \in Seq(Card!Cards) /\ wire \in Seq(CardFrame)
      /\ order \in Seq(Ids) /\ Once(daemon)
      /\ WireKnown(daemon, wire) /\ WireSorted(daemon, wire)
      /\ OrderKnown(daemon, order)
      /\ DOMAIN daemon = 1..Len(daemon)
      /\ ProjectionType(Card!Projection)
      /\ Card!Projection.order = order
  BY DEF CardType, OrderInv, ProjectionType, Card!Projection
<1>2. ASSUME NEW frames \in Seq(CardFrame), Card!Send(frames),
             daemon' \in Seq(Card!Cards), Once(daemon'),
             SamePlaces(daemon, daemon'), WireKnown(daemon', frames),
             WireSorted(daemon', frames), Fresh(daemon, daemon', frames)
      PROVE  OrderInv'
  <2>1. wire' = wire \o frames /\ order' = order /\ beginLost' = beginLost
    BY <1>2 DEF Card!Send, Card!projection
  <2>2. /\ WireKnown(daemon', wire \o frames)
        /\ WireSorted(daemon', wire \o frames)
        /\ OrderKnown(daemon', order)
        /\ Sorted(daemon, order) => Sorted(daemon', order)
        /\ Follows(daemon, wire, order) => Follows(daemon', wire \o frames, order)
    BY <1>1, <1>2, SendSorted
  <2> QED
    BY <1>2, <2>1, <2>2 DEF OrderInv
<1>3. SamePlaces(daemon, daemon)
  BY DEF SamePlaces
<1>4. ASSUME NEW id \in Ids, Card!Create(id) PROVE OrderInv'
  <2> DEFINE c == [id |-> id, fields |-> NoFields]
  <2>1. /\ c \in Card!Cards /\ daemon' = Append(daemon, c)
        /\ CreatedFrame(c) \in CardFrame /\ Card!Send(<<CreatedFrame(c)>>)
        /\ \A i \in DOMAIN daemon : daemon[i].id # id
    BY <1>4, CreateIs
  <2>2. c.id \notin IdsOf(daemon) /\ c.id = id
    BY <1>1, <2>1 DEF IdsOf
  <2>3. CreatedFrame(c).id = c.id
    BY DEF CreatedFrame, Card!Frame
  <2> HIDE DEF c
  <2>4. /\ Once(daemon') /\ SamePlaces(daemon, daemon')
        /\ c.id \in IdsOf(daemon')
        /\ \A x \in IdsOf(daemon) : Pos(daemon, x) < Pos(daemon', c.id)
    BY <1>1, <2>1, <2>2, AppendPlaces
  <2>5. /\ WireKnown(daemon', <<CreatedFrame(c)>>)
        /\ WireSorted(daemon', <<CreatedFrame(c)>>)
        /\ Fresh(daemon, daemon', <<CreatedFrame(c)>>)
    BY <2>3, <2>4, SingleSorted
  <2>6. daemon' \in Seq(Card!Cards) /\ <<CreatedFrame(c)>> \in Seq(CardFrame)
    BY <1>1, <2>1, AppendProperties
  <2> QED
    BY <1>2, <2>1, <2>4, <2>5, <2>6
<1>5. ASSUME NEW i \in DOMAIN daemon, NEW k \in Fields, Card!Change(i, k)
      PROVE  OrderInv'
  <2>1. PICK v \in 0..MaxValue :
          LET c == [id |-> daemon[i].id,
                    fields |-> [daemon[i].fields EXCEPT ![k] = v]]
              f == Card!Frame("updated", daemon[i].id, [x \in {k} |-> v])
          IN
          /\ c \in Card!Cards
          /\ daemon' = [daemon EXCEPT ![i] = c]
          /\ f \in CardFrame
          /\ Card!Send(<<f>>)
    BY <1>5, ChangeIs
  <2> DEFINE f == Card!Frame("updated", daemon[i].id, [x \in {k} |-> v])
             c == [id |-> daemon[i].id,
                   fields |-> [daemon[i].fields EXCEPT ![k] = v]]
  <2>2. /\ <<f>> \in Seq(CardFrame) /\ Card!Send(<<f>>)
        /\ c \in Card!Cards /\ daemon' = [daemon EXCEPT ![i] = c]
    BY <2>1
  <2>3. ~Creates(f) /\ c.id = daemon[i].id
    BY DEF Creates, Card!Frame
  <2> HIDE DEF f, c
  <2>4. Once(daemon') /\ SamePlaces(daemon, daemon')
    BY <1>1, <2>2, <2>3, ExceptPlaces
  <2>5. daemon' \in Seq(Card!Cards)
    BY <1>1, <2>2, ExceptSeq
  <2> QED
    BY <1>2, <2>2, <2>3, <2>4, <2>5, SingleSorted
<1>6. ASSUME NEW type \in {"created", "updated"}, Card!SendAnonymous(type)
      PROVE  OrderInv'
  <2> DEFINE f == Card!Frame(type, NoId, NoFields)
  <2>1. <<f>> \in Seq(CardFrame) /\ Card!Send(<<f>>) /\ daemon' = daemon
    BY <1>6, AnonymousIs
  <2>2. ~Creates(f)
    BY DEF Creates, Card!Frame
  <2> HIDE DEF f
  <2> QED
    BY <1>1, <1>2, <1>3, <2>1, <2>2, SingleSorted
<1>7. CASE Card!Replay
  <2>1. daemon' = daemon /\ Card!Send(ReplayFrames(daemon))
    BY <1>7, ReplayIs
  <2>2. ReplayFrames(daemon) \in Seq(CardFrame)
    BY <1>1, ReplayProperties
  <2> QED
    BY <1>1, <1>2, <1>3, <2>1, <2>2, ReplaySorted
<1>8. CASE Card!Lose
  <2>1. /\ wire # <<>> /\ wire' = Tail(wire) /\ order' = order
        /\ daemon' = daemon
        /\ beginLost' = (beginLost \/ Head(wire).type = "begin")
    BY <1>8 DEF Card!Lose, Card!projection
  <2>2. /\ WireKnown(daemon, Tail(wire)) /\ WireSorted(daemon, Tail(wire))
        /\ Head(wire).type # "begin" =>
             (Follows(daemon, wire, order) => Follows(daemon, Tail(wire), order))
    BY <1>1, <2>1, TailSorted
  <2> QED
    BY <1>1, <2>1, <2>2 DEF OrderInv
<1>9. CASE Card!apply
  <2> DEFINE f == Head(wire)
             p == Card!Apply(Card!Projection, f)
  <2>1. /\ wire # <<>> /\ wire' = Tail(wire) /\ order' = p.order
        /\ daemon' = daemon
        /\ beginLost' = (beginLost /\ f.type # "begin")
    BY <1>9 DEF Card!apply
  <2>2. f \in CardFrame /\ f = wire[1] /\ 1 \in 1..Len(wire)
    BY <1>1, <2>1, HeadTailProperties
  <2>3. /\ ProjectionType(p)
        /\ f.type = "begin" => p.order = <<>>
        /\ f.type # "begin" =>
             \/ p.order = order
             \/ Creates(f) /\ p.order = Append(order, f.id)
    BY <1>1, <2>2, ApplyProperties DEF Creates
  <2> HIDE DEF p
  <2>4. WireKnown(daemon, Tail(wire)) /\ WireSorted(daemon, Tail(wire))
    BY <1>1, <2>1, TailSorted
  <2>5. CASE f.type = "begin"
    <3>1. Len(<<>>) = 0 /\ 1..0 = {}
      OBVIOUS
    <3> QED
      BY <1>1, <2>1, <2>3, <2>4, <2>5, <3>1
         DEF OrderInv, OrderKnown, Follows, Sorted
  <2>6. CASE f.type # "begin" /\ p.order = order
    <3>1. Follows(daemon, wire, order) => Follows(daemon, Tail(wire), order)
      BY <1>1, <2>1, <2>6, TailSorted
    <3> QED
      BY <1>1, <2>1, <2>4, <2>6, <3>1 DEF OrderInv
  <2>7. CASE Creates(f) /\ p.order = Append(order, f.id)
    <3>1. f.id \in Ids
      BY <2>2, <2>7 DEF Creates, CardFrame
    <3>2. f.type # "begin"
      BY <2>7 DEF Creates
    <3>3. Follows(daemon, wire, order) /\ Sorted(daemon, order) =>
            /\ Sorted(daemon, Append(order, f.id))
            /\ Follows(daemon, Tail(wire), Append(order, f.id))
      BY <1>1, <2>1, <2>7, <3>1, TailSorted
    <3>4. OrderKnown(daemon, Append(order, f.id))
      <4>1. f.id \in IdsOf(daemon)
        BY <1>1, <2>2, <2>7 DEF WireKnown
      <4>2. /\ Len(Append(order, f.id)) = Len(order) + 1 /\ Len(order) \in Nat
            /\ \A i \in 1..Len(order) : Append(order, f.id)[i] = order[i]
            /\ Append(order, f.id)[Len(order) + 1] = f.id
        BY <1>1, <3>1, AppendProperties
      <4>3. \A i \in 1..(Len(order) + 1) : i \in 1..Len(order) \/ i = Len(order) + 1
        BY <4>2
      <4> QED
        BY <1>1, <4>1, <4>2, <4>3 DEF OrderKnown
    <3> QED
      BY <1>1, <2>1, <2>4, <2>7, <3>2, <3>3, <3>4 DEF OrderInv
  <2> QED
    BY <2>3, <2>5, <2>6, <2>7
<1>10. CASE UNCHANGED Card!cardVars
  BY <1>10 DEF Card!cardVars, Card!projection, OrderInv
<1> QED
  BY <1>4, <1>5, <1>6, <1>7, <1>8, <1>9, <1>10 DEF Card!Next

LEMMA InitOrder == Card!Init => OrderInv
<1>1. Len(<<>>) = 0 /\ 1..0 = {}
  OBVIOUS
<1> QED
  BY <1>1
     DEF Card!Init, OrderInv, Once, WireKnown, OrderKnown, WireSorted, Follows,
         Sorted

LEMMA CardsAreComposed == MCSpec => Card!Spec
<1>1. MCInit => Card!Init
  BY DEF MCInit
<1>2. [MCNext]_<<vars, textVars, cardVars>> => [Card!Next]_Card!cardVars
  BY DEF MCNext, cardVars, Card!cardVars, Card!projection
<1> QED
  BY <1>1, <1>2, PTL DEF MCSpec, Card!Spec

LEMMA CardInvHolds == MCSpec => [](CardType /\ OrderInv)
<1>1. Card!Init => CardType /\ OrderInv
  BY InitCardType, InitOrder
<1>2. CardType /\ OrderInv /\ [Card!Next]_Card!cardVars
        => (CardType /\ OrderInv)'
  BY StepCardType, StepOrder
<1> QED
  BY <1>1, <1>2, CardsAreComposed, PTL DEF Card!Spec

(* The texts, the channels and the cards keep their types.                  *)
THEOREM ShownTypeCorrect == MCSpec => []ShownTypeOK
<1>1. TextInv /\ CardType => ShownTypeOK
  BY CardTypeImplies DEF TextInv, ShownTypeOK
<1> QED
  BY <1>1, TextInvHolds, CardInvHolds, PTL

(* As long as no begin of a replay was lost, the cards shown are in the     *)
(* order of the daemon, each once, whatever other frames were lost, for any *)
(* cards and any number of frames under way.                                *)
THEOREM CardsKeepTheirOrder == MCSpec => []OrderKept
<1>1. CardType /\ OrderInv => OrderKept
  <2> SUFFICES ASSUME CardType, OrderInv, ~beginLost,
                      NEW i \in DOMAIN order, NEW j \in DOMAIN order, i < j
               PROVE  Card!Position(order[i]) < Card!Position(order[j])
    BY DEF OrderKept, Card!OrderKept
  <2>1. order \in Seq(Ids)
    BY DEF CardType, ProjectionType, Card!Projection
  <2>2. DOMAIN order = 1..Len(order)
    BY <2>1
  <2>3. Pos(daemon, order[i]) < Pos(daemon, order[j])
    BY <2>2 DEF OrderInv, Sorted
  <2> QED
    BY <2>3 DEF Pos, Card!Position
<1> QED
  BY <1>1, CardInvHolds, PTL


-----------------------------------------------------------------------------
(* What the projection will show.                                           *)

CardMaps == UNION {[S -> Card!Values] : S \in SUBSET Ids}

Projections ==
  {p \in [cards : CardMaps, order : Seq(Ids), replaying : BOOLEAN] :
     DOMAIN p.cards = Card!ToSet(p.order)}

LEMMA ProjectionsAre ==
  ASSUME NEW p
  PROVE  ProjectionType(p) <=> p \in Projections
<1>1. ASSUME NEW c
      PROVE  c \in CardMaps <=>
               /\ c = [id \in DOMAIN c |-> c[id]]
               /\ \A id \in DOMAIN c : id \in Ids /\ c[id] \in Card!Values
  <2>1. ASSUME c \in CardMaps
        PROVE  /\ c = [id \in DOMAIN c |-> c[id]]
               /\ \A id \in DOMAIN c : id \in Ids /\ c[id] \in Card!Values
    <3>1. PICK S \in SUBSET Ids : c \in [S -> Card!Values]
      BY <2>1 DEF CardMaps
    <3> QED
      BY <3>1
  <2>2. ASSUME c = [id \in DOMAIN c |-> c[id]],
               \A id \in DOMAIN c : id \in Ids /\ c[id] \in Card!Values
        PROVE  c \in CardMaps
    <3>1. DOMAIN c \in SUBSET Ids
      BY <2>2
    <3>2. c \in [DOMAIN c -> Card!Values]
      BY <2>2
    <3> QED
      BY <3>1, <3>2 DEF CardMaps
  <2> QED
    BY <2>1, <2>2
<1>2. ASSUME ProjectionType(p) PROVE p \in Projections
  <2>1. p.cards \in CardMaps
    BY <1>1, <1>2 DEF ProjectionType
  <2>2. p \in [cards : CardMaps, order : Seq(Ids), replaying : BOOLEAN]
    BY <1>2, <2>1 DEF ProjectionType
  <2> QED
    BY <1>2, <2>2 DEF ProjectionType, Projections
<1>3. ASSUME p \in Projections PROVE ProjectionType(p)
  <2>1. /\ p \in [cards : CardMaps, order : Seq(Ids), replaying : BOOLEAN]
        /\ DOMAIN p.cards = Card!ToSet(p.order)
    BY <1>3 DEF Projections
  <2>2. /\ p.cards \in CardMaps /\ p.order \in Seq(Ids) /\ p.replaying \in BOOLEAN
        /\ p = [cards |-> p.cards, order |-> p.order, replaying |-> p.replaying]
    BY <2>1
  <2> QED
    BY <1>1, <2>1, <2>2 DEF ProjectionType
<1> QED
  BY <1>2, <1>3

LEMMA ApplyStays ==
  ASSUME NEW p \in Projections, NEW f \in CardFrame
  PROVE  Card!Apply(p, f) \in Projections
BY ApplyProperties, ProjectionsAre

Fold(p, w) == Card!FoldLeft(Card!Apply, p, w)

(* The projections on the way.                                              *)
Steps(V, p, w) ==
  V[0] = p /\ \A i \in 1..Len(w) : V[i] = Card!Apply(V[i - 1], w[i])

LEMMA FoldSteps ==
  ASSUME NEW p \in Projections, NEW w \in Seq(CardFrame)
  PROVE  \E V : /\ Steps(V, p, w)
                /\ Fold(p, w) = V[Len(w)]
                /\ \A i \in 0..Len(w) : V[i] \in Projections
<1> DEFINE n == Len(w)
           g == [i \in 1..n |-> [x \in Projections |-> Card!Apply(x, w[i])]]
           Folds(iter) ==
             iter = [S \in SUBSET (1..n) |->
                       IF S = {} THEN p
                       ELSE Card!Apply(iter[S \ {Max(S)}], w[Max(S)])]
           fold == CHOOSE iter : Folds(iter)
           V == [i \in 0..n |-> fold[1..i]]
<1>1. n \in Nat /\ DOMAIN w = 1..n
  OBVIOUS
<1>2. \A i \in 1..n, x \in Projections : Card!Apply(x, w[i]) \in Projections
  <2> SUFFICES ASSUME NEW i \in 1..n, NEW x \in Projections
               PROVE  Card!Apply(x, w[i]) \in Projections
    OBVIOUS
  <2>1. w[i] \in CardFrame
    OBVIOUS
  <2> QED
    BY <2>1, ApplyStays
<1>3. g \in [1..n -> [Projections -> Projections]]
  BY <1>2
<1>4. \A i \in 1..n, x \in Projections : g[i][x] = Card!Apply(x, w[i])
  OBVIOUS
<1> HIDE DEF g, n
<1>5. PICK iter \in [SUBSET (1..n) -> Projections] : FoldsSets(iter, n, p, g)
  BY <1>1, <1>3, FoldExists
<1>6. \A S \in SUBSET (1..n) :
        iter[S] = IF S = {} THEN p
                  ELSE Card!Apply(iter[S \ {Max(S)}], w[Max(S)])
  <2> SUFFICES ASSUME NEW S \in SUBSET (1..n), S # {}
               PROVE  iter[S] = Card!Apply(iter[S \ {Max(S)}], w[Max(S)])
    BY <1>5 DEF FoldsSets
  <2>1. Max(S) \in 1..n
    BY <1>1, MaxProperties
  <2>2. iter[S \ {Max(S)}] \in Projections
    OBVIOUS
  <2> QED
    BY <1>4, <1>5, <2>1, <2>2 DEF FoldsSets
<1>7. Folds(iter)
  BY <1>6
<1> HIDE DEF Folds
<1>8. Folds(fold)
  BY <1>7
<1>9. Card!FoldLeft(Card!Apply, p, w) = fold[1..n]
  BY <1>1 DEF Card!FoldLeft, Card!MapThenFoldSet, Card!Max, Max, Folds
<1> HIDE DEF fold
<1>10. \A S \in SUBSET (1..n) :
         fold[S] = IF S = {} THEN p
                   ELSE Card!Apply(fold[S \ {Max(S)}], w[Max(S)])
  BY <1>8 DEF Folds
<1>11. V[0] = p
  <2>1. 1..0 = {} /\ 0 \in 0..n
    BY <1>1
  <2> QED
    BY <1>10, <2>1
<1>12. ASSUME NEW i \in 1..n PROVE V[i] = Card!Apply(V[i - 1], w[i])
  <2>1. /\ 1..i \in SUBSET (1..n) /\ 1..i # {}
        /\ Max(1..i) = i /\ (1..i) \ {i} = 1..(i - 1)
    BY <1>1, MaxProperties
  <2>2. fold[1..i] = Card!Apply(fold[1..(i - 1)], w[i])
    BY <1>10, <2>1
  <2>3. i \in 0..n /\ i - 1 \in 0..n
    BY <1>1
  <2> QED
    BY <2>2, <2>3
<1>13. V[n] = fold[1..n]
  BY <1>1
<1> HIDE DEF V, fold
<1>14. Steps(V, p, w)
  BY <1>11, <1>12 DEF Steps, n
<1>15. Fold(p, w) = V[n]
  BY <1>9, <1>13 DEF Fold
<1>16. \A i \in 0..n : V[i] \in Projections
  <2> DEFINE T == {i \in 0..n : V[i] \in Projections}
  <2>1. ASSUME NEW i \in 1..n, i - 1 \in T PROVE i \in T
    BY <1>2, <1>12, <2>1
  <2>2. 0 \in T
    BY <1>1, <1>11
  <2>3. Climbs(T, n)
    BY <2>1, <2>2 DEF Climbs
  <2> HIDE DEF T
  <2>4. \A i \in 0..n : i \in T
    BY <1>1, <2>3, ClimbsToTheTop
  <2> QED
    BY <2>4 DEF T
<1> QED
  BY <1>14, <1>15, <1>16 DEF n

LEMMA FoldType ==
  ASSUME NEW p \in Projections, NEW w \in Seq(CardFrame)
  PROVE  Fold(p, w) \in Projections
<1>1. Len(w) \in 0..Len(w)
  OBVIOUS
<1> QED
  BY <1>1, FoldSteps

LEMMA FoldOne ==
  ASSUME NEW p \in Projections, NEW f \in CardFrame
  PROVE  Fold(p, <<f>>) = Card!Apply(p, f)
<1>1. <<f>> \in Seq(CardFrame) /\ Len(<<f>>) = 1 /\ <<f>>[1] = f
  OBVIOUS
<1>2. PICK V : Steps(V, p, <<f>>) /\ Fold(p, <<f>>) = V[Len(<<f>>)]
  BY <1>1, FoldSteps
<1>3. 1 \in 1..1 /\ 1 - 1 = 0
  OBVIOUS
<1> QED
  BY <1>1, <1>2, <1>3 DEF Steps

(* The elements of a sequence followed by another.                          *)
LEMMA ConcatElements ==
  ASSUME NEW S, NEW s \in Seq(S), NEW t \in Seq(S)
  PROVE  /\ s \o t \in Seq(S) /\ Len(s \o t) = Len(s) + Len(t)
         /\ \A i \in 1..Len(s) : (s \o t)[i] = s[i]
         /\ \A i \in 1..Len(t) : (s \o t)[Len(s) + i] = t[i]
<1> DEFINE W == s \o t
           n == Len(s)
           m == Len(t)
<1>1. /\ W \in Seq(S) /\ Len(W) = n + m /\ n \in Nat /\ m \in Nat
      /\ \A i \in 1..(n + m) : W[i] = IF i <= n THEN s[i] ELSE t[i - n]
  BY ConcatProperties
<1>2. \A i \in 1..n : i \in 1..(n + m) /\ i <= n
  BY <1>1
<1>3. \A i \in 1..m : n + i \in 1..(n + m) /\ ~(n + i <= n) /\ (n + i) - n = i
  BY <1>1
<1>4. n = Len(s) /\ m = Len(t) /\ W = s \o t
  OBVIOUS
<1> HIDE DEF W, n, m
<1> QED
  BY <1>1, <1>2, <1>3, <1>4

LEMMA FoldConcat ==
  ASSUME NEW p \in Projections, NEW w \in Seq(CardFrame), NEW x \in Seq(CardFrame)
  PROVE  Fold(p, w \o x) = Fold(Fold(p, w), x)
<1> DEFINE n == Len(w)
           m == Len(x)
           q == Fold(p, w)
           wx == w \o x
<1>1. /\ wx \in Seq(CardFrame) /\ Len(wx) = n + m /\ n \in Nat /\ m \in Nat
      /\ \A i \in 1..n : wx[i] = w[i]
      /\ \A i \in 1..m : wx[n + i] = x[i]
  BY ConcatElements
<1>2. q \in Projections
  BY FoldType
<1> HIDE DEF q, wx
<1>3. PICK V : Steps(V, p, w) /\ Fold(p, w) = V[Len(w)]
  BY FoldSteps
<1>4. PICK U : Steps(U, p, wx) /\ Fold(p, wx) = U[Len(wx)]
  BY <1>1, FoldSteps
<1>5. PICK W : Steps(W, q, x) /\ Fold(q, x) = W[Len(x)]
  BY <1>2, FoldSteps
<1> HIDE DEF n, m
<1>6. n = Len(w) /\ m = Len(x)
  BY DEF n, m
<1>7. StepsAlike(V, U, n)
  <2> SUFFICES ASSUME NEW i \in 1..n, V[i - 1] = U[i - 1] PROVE V[i] = U[i]
    BY DEF StepsAlike
  <2>1. i \in 1..Len(wx)
    BY <1>1
  <2> QED
    BY <1>1, <1>3, <1>4, <1>6, <2>1 DEF Steps
<1>8. V[n] = U[n]
  <2>1. V[0] = U[0]
    BY <1>3, <1>4 DEF Steps
  <2>2. \A i \in 0..n : V[i] = U[i]
    BY <1>1, <1>7, <2>1, SameSteps
  <2> QED
    BY <1>1, <2>2
<1> DEFINE U1 == [i \in 0..m |-> U[n + i]]
<1>9. U1[0] = W[0] /\ U1[m] = U[n + m]
  <2>1. 0 \in 0..m /\ m \in 0..m /\ n + 0 = n
    BY <1>1
  <2>2. U1[0] = U[n] /\ U1[m] = U[n + m]
    BY <2>1
  <2>3. W[0] = q /\ q = V[n]
    BY <1>3, <1>5, <1>6 DEF Steps, q
  <2> QED
    BY <1>8, <2>2, <2>3
<1>10. StepsAlike(U1, W, m)
  <2> SUFFICES ASSUME NEW i \in 1..m, U1[i - 1] = W[i - 1] PROVE U1[i] = W[i]
    BY DEF StepsAlike
  <2>1. /\ i \in 0..m /\ i - 1 \in 0..m /\ n + i \in 1..Len(wx)
        /\ (n + i) - 1 = n + (i - 1)
    BY <1>1
  <2>2. U1[i] = U[n + i] /\ U1[i - 1] = U[(n + i) - 1]
    BY <2>1
  <2> HIDE DEF U1
  <2>3. U[n + i] = Card!Apply(U[(n + i) - 1], wx[n + i])
    BY <1>4, <2>1 DEF Steps
  <2>4. W[i] = Card!Apply(W[i - 1], x[i])
    BY <1>5, <1>6 DEF Steps
  <2> QED
    BY <1>1, <2>2, <2>3, <2>4
<1> HIDE DEF U1
<1>11. U1[m] = W[m]
  <2>1. \A i \in 0..m : U1[i] = W[i]
    BY <1>1, <1>9, <1>10, SameSteps
  <2>2. m \in 0..m
    BY <1>1
  <2> QED
    BY <2>1, <2>2
<1> QED
  BY <1>1, <1>4, <1>5, <1>6, <1>9, <1>11 DEF q, wx

LEMMA FoldTail ==
  ASSUME NEW p \in Projections, NEW w \in Seq(CardFrame), w # <<>>
  PROVE  Fold(Card!Apply(p, Head(w)), Tail(w)) = Fold(p, w)
<1>1. /\ Head(w) \in CardFrame /\ Tail(w) \in Seq(CardFrame)
      /\ <<Head(w)>> \o Tail(w) = w
  <2>1. /\ Head(w) \in CardFrame /\ Tail(w) \in Seq(CardFrame)
        /\ Head(w) = w[1] /\ Len(Tail(w)) = Len(w) - 1
        /\ \A i \in 1..Len(Tail(w)) : Tail(w)[i] = w[i + 1]
        /\ Len(w) \in Nat /\ Len(w) > 0
    BY HeadTailProperties
  <2> DEFINE h == <<Head(w)>>
             rest == Tail(w)
             z == h \o rest
  <2>2. h \in Seq(CardFrame) /\ Len(h) = 1 /\ h[1] = w[1]
    BY <2>1
  <2>7. h \in Seq(CardFrame) /\ rest \in Seq(CardFrame)
    BY <2>1, <2>2
  <2> HIDE DEF h, rest
  <2>8. /\ z \in Seq(CardFrame) /\ Len(z) = Len(h) + Len(rest)
        /\ \A i \in 1..Len(h) : z[i] = h[i]
        /\ \A i \in 1..Len(rest) : z[Len(h) + i] = rest[i]
    BY <2>7, ConcatElements
  <2>3. /\ z \in Seq(CardFrame) /\ Len(z) = 1 + Len(rest)
        /\ \A i \in 1..1 : z[i] = h[i]
        /\ \A i \in 1..Len(rest) : z[1 + i] = rest[i]
    BY <2>2, <2>8
  <2> HIDE DEF z
  <2>4. ASSUME NEW i \in 1..Len(w) PROVE z[i] = w[i]
    <3>1. CASE i = 1
      BY <2>2, <2>3, <3>1
    <3>2. CASE i # 1
      <4>1. i - 1 \in 1..Len(rest) /\ 1 + (i - 1) = i /\ (i - 1) + 1 = i
        BY <2>1, <3>2 DEF rest
      <4> QED
        BY <2>1, <2>3, <4>1 DEF rest
    <3> QED
      BY <3>1, <3>2
  <2>5. Len(z) = Len(w)
    BY <2>1, <2>3 DEF rest
  <2>6. z = w
    BY <2>3, <2>4, <2>5, SeqEqual
  <2> QED
    BY <2>1, <2>6 DEF z, h, rest
<1>2. <<Head(w)>> \in Seq(CardFrame)
  BY <1>1
<1> DEFINE h == <<Head(w)>>
           rest == Tail(w)
<1>3. Fold(p, h) = Card!Apply(p, Head(w))
  BY <1>1, FoldOne
<1>4. h \in Seq(CardFrame) /\ rest \in Seq(CardFrame) /\ h \o rest = w
  BY <1>1, <1>2
<1> HIDE DEF h
<1>5. Fold(p, h \o rest) = Fold(Fold(p, h), rest)
  BY <1>4, FoldConcat
<1> QED
  BY <1>3, <1>4, <1>5

(* Projection p has the first n cards of d, and shows no other.             *)
HasFirst(p, d, n) ==
  /\ Len(p.order) = n
  /\ \A i \in 1..n : p.order[i] = d[i].id /\ p.cards[d[i].id] = d[i].fields

Right(p, d) == HasFirst(p, d, Len(d)) /\ ~p.replaying

LEMMA CardsAreIds ==
  ASSUME NEW d \in Seq(Card!Cards), NEW n \in 0..Len(d), NEW p \in Projections,
         HasFirst(p, d, n)
  PROVE  /\ DOMAIN p.cards = {d[i].id : i \in 1..n}
         /\ p.order \in Seq(Ids)
<1>1. DOMAIN p.cards = Card!ToSet(p.order) /\ p.order \in Seq(Ids)
  BY DEF Projections
<1>2. Card!ToSet(p.order) = {p.order[i] : i \in 1..n}
  BY <1>1, ToSetProperties DEF HasFirst
<1> QED
  BY <1>1, <1>2 DEF HasFirst

(* The next card is created behind the first ones.                          *)
LEMMA CreatedNext ==
  ASSUME NEW d \in Seq(Card!Cards), Once(d), NEW n \in 1..Len(d),
         NEW p \in Projections, HasFirst(p, d, n - 1)
  PROVE  /\ HasFirst(Card!Apply(p, CreatedFrame(d[n])), d, n)
         /\ Card!Apply(p, CreatedFrame(d[n])).replaying = p.replaying
<1> DEFINE f == CreatedFrame(d[n])
           q == Card!Apply(p, f)
<1>1. d[n] \in Card!Cards /\ d[n].id \in Ids /\ d[n].id # NoId
  <2>1. d[n] \in Card!Cards
    OBVIOUS
  <2> QED
    BY <2>1, ShownAssumption DEF Card!Cards
<1>2. f.type = "created" /\ f.id = d[n].id /\ f.patch = d[n].fields
  BY DEF CreatedFrame, Card!Frame
<1>3. /\ DOMAIN p.cards = {d[i].id : i \in 1..(n - 1)}
      /\ p.order \in Seq(Ids)
  <2>1. n - 1 \in 0..Len(d)
    OBVIOUS
  <2> QED
    BY <2>1, CardsAreIds
<1>4. d[n].id \notin DOMAIN p.cards
  <2>1. \A i \in 1..(n - 1) : i \in 1..Len(d) /\ i # n
    OBVIOUS
  <2> QED
    BY <1>3, <2>1 DEF Once
<1>5. p \in [cards : CardMaps, order : Seq(Ids), replaying : BOOLEAN]
  BY DEF Projections
<1> HIDE DEF f
<1>6. /\ q.cards = Card!With(p.cards, d[n].id, d[n].fields)
      /\ q.order = Append(p.order, d[n].id)
      /\ q.replaying = p.replaying
  BY <1>1, <1>2, <1>4, <1>5 DEF Card!Apply, Card!Created
<1> HIDE DEF q
<1>7. /\ Len(q.order) = n
      /\ \A i \in 1..(n - 1) : q.order[i] = p.order[i]
      /\ q.order[n] = d[n].id
  <2>1. /\ Len(q.order) = Len(p.order) + 1
        /\ \A i \in 1..Len(p.order) : q.order[i] = p.order[i]
        /\ q.order[Len(p.order) + 1] = d[n].id
    BY <1>1, <1>3, <1>6, AppendProperties
  <2>2. Len(p.order) = n - 1 /\ (n - 1) + 1 = n
    BY DEF HasFirst
  <2> QED
    BY <2>1, <2>2
<1>8. /\ q.cards[d[n].id] = d[n].fields
      /\ \A i \in 1..(n - 1) : q.cards[d[i].id] = p.cards[d[i].id]
  BY <1>3, <1>4, <1>6 DEF Card!With
<1>9. \A i \in 1..n : i \in 1..(n - 1) \/ i = n
  OBVIOUS
<1>10. HasFirst(q, d, n)
  BY <1>7, <1>8, <1>9 DEF HasFirst
<1> QED
  BY <1>6, <1>10 DEF q, f

(* A replay makes any projection right.                                     *)
LEMMA ReplayMakesRight ==
  ASSUME NEW d \in Seq(Card!Cards), Once(d), NEW p \in Projections
  PROVE  Right(Fold(p, ReplayFrames(d)), d)
<1> DEFINE r == ReplayFrames(d)
           n == Len(d)
<1>1. /\ r \in Seq(CardFrame) /\ Len(r) = n + 2 /\ n \in Nat
      /\ r[1] = Card!Frame("begin", NoId, <<>>)
      /\ \A i \in 1..n : r[i + 1] = CreatedFrame(d[i])
      /\ r[n + 2] = Card!Frame("end", NoId, <<>>)
  BY ReplayProperties
<1> HIDE DEF r
<1>2. PICK V : /\ Steps(V, p, r)
               /\ Fold(p, r) = V[Len(r)]
               /\ \A i \in 0..Len(r) : V[i] \in Projections
  BY <1>1, FoldSteps
<1>3. n = Len(d)
  OBVIOUS
<1> HIDE DEF n
<1> DEFINE T == {i \in 0..n : HasFirst(V[i + 1], d, i)}
<1>4. 0 \in T
  <2>1. 1 \in 1..Len(r) /\ 1 - 1 = 0
    BY <1>1
  <2>2. V[1] = Card!Apply(V[0], r[1])
    BY <1>2, <2>1 DEF Steps
  <2>3. V[1].order = <<>>
    BY <1>1, <2>2 DEF Card!Apply, Card!ReplayBegin, Card!Frame
  <2>4. HasFirst(V[1], d, 0)
    BY <2>3 DEF HasFirst
  <2>5. 0 \in 0..n /\ 0 + 1 = 1
    BY <1>1
  <2> QED
    BY <2>4, <2>5
<1>5. ASSUME NEW i \in 1..n, i - 1 \in T PROVE i \in T
  <2>1. /\ i + 1 \in 1..Len(r) /\ (i + 1) - 1 = i /\ i \in 0..n
        /\ (i - 1) + 1 = i /\ i \in 0..Len(r)
    BY <1>1
  <2>2. V[i + 1] = Card!Apply(V[i], CreatedFrame(d[i]))
    BY <1>1, <1>2, <2>1 DEF Steps
  <2>3. HasFirst(V[i], d, i - 1)
    BY <1>5, <2>1
  <2>4. V[i] \in Projections /\ i \in 1..Len(d)
    BY <1>2, <1>3, <2>1
  <2>5. HasFirst(Card!Apply(V[i], CreatedFrame(d[i])), d, i)
    BY <2>3, <2>4, CreatedNext
  <2> QED
    BY <2>1, <2>2, <2>5
<1>6. HasFirst(V[n + 1], d, n)
  <2>1. Climbs(T, n)
    BY <1>4, <1>5 DEF Climbs
  <2> HIDE DEF T
  <2>2. \A i \in 0..n : i \in T
    BY <1>1, <2>1, ClimbsToTheTop
  <2>3. n \in 0..n
    BY <1>1
  <2> QED
    BY <2>2, <2>3 DEF T
<1> HIDE DEF T
<1>7. V[n + 2] = Card!ReplayEnd(V[n + 1])
  <2>1. n + 2 \in 1..Len(r) /\ (n + 2) - 1 = n + 1
    BY <1>1
  <2>2. V[n + 2] = Card!Apply(V[n + 1], Card!Frame("end", NoId, <<>>))
    BY <1>1, <1>2, <2>1 DEF Steps
  <2> QED
    BY <2>2 DEF Card!Apply, Card!Frame
<1>8. Right(V[n + 2], d)
  <2>1. V[n + 1] \in Projections
    <3>1. n + 1 \in 0..Len(r)
      BY <1>1
    <3> QED
      BY <1>2, <3>1
  <2>2. V[n + 1] \in [cards : CardMaps, order : Seq(Ids), replaying : BOOLEAN]
    BY <2>1 DEF Projections
  <2>3. /\ V[n + 2].cards = V[n + 1].cards /\ V[n + 2].order = V[n + 1].order
        /\ V[n + 2].replaying = FALSE
    BY <1>7, <2>2 DEF Card!ReplayEnd
  <2> QED
    BY <1>3, <1>6, <2>3 DEF Right, HasFirst
<1>9. Fold(p, r) = V[n + 2]
  BY <1>1, <1>2
<1> QED
  BY <1>8, <1>9 DEF r

(* What the daemon sends keeps a right projection right.                    *)
LEMMA CreateKeepsRight ==
  ASSUME NEW d \in Seq(Card!Cards), NEW c \in Card!Cards, Once(Append(d, c)),
         NEW p \in Projections, Right(p, d)
  PROVE  Right(Fold(p, <<CreatedFrame(c)>>), Append(d, c))
<1> DEFINE e == Append(d, c)
           n == Len(d)
<1>1. /\ e \in Seq(Card!Cards) /\ Len(e) = n + 1 /\ n \in Nat
      /\ \A i \in 1..n : e[i] = d[i]
      /\ e[n + 1] = c
  BY AppendProperties
<1>2. n = Len(d) /\ Once(e)
  OBVIOUS
<1> HIDE DEF e, n
<1>3. HasFirst(p, e, n) /\ ~p.replaying
  BY <1>1, <1>2 DEF Right, HasFirst
<1>4. CreatedFrame(c) \in CardFrame
  BY PatchTypes DEF CreatedFrame, Card!Frame, CardFrame, Card!Cards
<1>5. Fold(p, <<CreatedFrame(c)>>) = Card!Apply(p, CreatedFrame(c))
  BY <1>4, FoldOne
<1> DEFINE m == n + 1
<1>6. m \in 1..Len(e) /\ m - 1 = n /\ e[m] = c /\ Len(e) = m
  BY <1>1
<1> HIDE DEF m
<1>7. /\ HasFirst(Card!Apply(p, CreatedFrame(e[m])), e, m)
      /\ Card!Apply(p, CreatedFrame(e[m])).replaying = p.replaying
  BY <1>1, <1>2, <1>3, <1>6, CreatedNext
<1> QED
  BY <1>3, <1>5, <1>6, <1>7 DEF Right, e

LEMMA ChangeKeepsRight ==
  ASSUME NEW d \in Seq(Card!Cards), Once(d), NEW n \in 1..Len(d),
         NEW k \in Fields, NEW v \in 0..MaxValue,
         NEW p \in Projections, Right(p, d)
  PROVE  LET c == [id |-> d[n].id, fields |-> [d[n].fields EXCEPT ![k] = v]]
             f == Card!Frame("updated", d[n].id, [x \in {k} |-> v])
         IN  Right(Fold(p, <<f>>), [d EXCEPT ![n] = c])
<1> DEFINE fields == [d[n].fields EXCEPT ![k] = v]
           c == [id |-> d[n].id, fields |-> fields]
           f == Card!Frame("updated", d[n].id, [x \in {k} |-> v])
           e == [d EXCEPT ![n] = c]
           q == Card!Apply(p, f)
<1>1. /\ d[n] \in Card!Cards /\ d[n].id \in Ids
      /\ d[n].fields \in [Fields -> 0..MaxValue]
  <2>1. d[n] \in Card!Cards
    OBVIOUS
  <2> QED
    BY <2>1 DEF Card!Cards, Card!Values
<1>2. f \in CardFrame
  BY <1>1, PatchTypes DEF Card!Frame, CardFrame
<1>3. Fold(p, <<f>>) = q
  BY <1>2, FoldOne
<1>4. /\ Len(e) = Len(d) /\ e[n] = c
      /\ \A i \in 1..Len(d) : i # n => e[i] = d[i]
  BY ExceptSeq
<1>5. c.id = d[n].id /\ c.fields = fields
  OBVIOUS
<1>6. /\ f.type = "updated" /\ f.id = d[n].id
      /\ DOMAIN f.patch = {k} /\ f.patch[k] = v
  BY DEF Card!Frame
<1>7. DOMAIN p.cards = {d[i].id : i \in 1..Len(d)}
  <2>1. Len(d) \in 0..Len(d)
    OBVIOUS
  <2> QED
    BY <2>1, CardsAreIds DEF Right
<1>8. d[n].id \in DOMAIN p.cards /\ p.cards[d[n].id] = d[n].fields
  BY <1>7 DEF Right, HasFirst
<1>9. p \in [cards : CardMaps, order : Seq(Ids), replaying : BOOLEAN]
  BY DEF Projections
<1>10. fields = [x \in Fields |-> IF x \in {k} THEN v ELSE d[n].fields[x]]
  BY <1>1
<1> HIDE DEF f, fields
<1>11. [x \in Fields |-> IF x \in DOMAIN f.patch THEN f.patch[x]
                         ELSE p.cards[f.id][x]] = fields
  BY <1>6, <1>8, <1>10
<1>12. /\ q.cards = Card!With(p.cards, d[n].id, fields)
       /\ q.order = p.order /\ q.replaying = p.replaying
  <2>1. q = Card!Updated(p, f)
    BY <1>6 DEF Card!Apply
  <2> HIDE DEF q
  <2>2. q = [p EXCEPT !.cards = Card!With(p.cards, f.id, fields)]
    BY <1>6, <1>8, <1>11, <2>1 DEF Card!Updated
  <2> QED
    BY <1>6, <1>9, <2>2
<1> HIDE DEF q
<1>13. \A i \in 1..Len(d) :
         q.cards[d[i].id] = IF i = n THEN fields ELSE p.cards[d[i].id]
  BY <1>7, <1>12 DEF Card!With, Once
<1> HIDE DEF c, e
<1>14. \A i \in 1..Len(d) :
         q.order[i] = e[i].id /\ q.cards[e[i].id] = e[i].fields
  BY <1>4, <1>5, <1>12, <1>13 DEF Right, HasFirst
<1>15. Right(q, e)
  BY <1>4, <1>12, <1>14 DEF Right, HasFirst
<1> QED
  BY <1>3, <1>15 DEF e, c, f, fields

LEMMA AnonymousKeepsRight ==
  ASSUME NEW d \in Seq(Card!Cards), NEW type \in {"created", "updated"},
         NEW p \in Projections, Right(p, d)
  PROVE  Right(Fold(p, <<Card!Frame(type, NoId, NoFields)>>), d)
<1> DEFINE f == Card!Frame(type, NoId, NoFields)
<1>1. f \in CardFrame
  <2>1. NoFields \in Card!Values
    BY ShownAssumption DEF NoFields, Card!Values
  <2> QED
    BY <2>1, PatchTypes DEF Card!Frame, CardFrame
<1>2. f.type = type /\ f.id = NoId
  BY DEF Card!Frame
<1>3. NoId \notin DOMAIN p.cards
  <2>1. ProjectionType(p)
    BY ProjectionsAre
  <2> QED
    BY <2>1, ShownAssumption DEF ProjectionType
<1> HIDE DEF f
<1>4. Card!Apply(p, f) = p
  BY <1>2, <1>3 DEF Card!Apply, Card!Created, Card!Updated
<1> QED
  BY <1>1, <1>4, FoldOne DEF f

LEMMA KeptIsKept ==
  ASSUME NEW s, NEW S
  PROVE  Card!Kept(s, S) = Kept(s, S)
<1>1. ASSUME NEW k PROVE Card!Nth(S, k) = Nth(S, k)
  BY DEF Card!Nth, Nth, Card!Upto, Upto, Card!Cardinality, Cardinality
<1>2. \A k \in 1..Cardinality(S) : s[Card!Nth(S, k)] = s[Nth(S, k)]
  BY <1>1
<1> QED
  BY <1>2 DEF Card!Kept, Kept, Card!Cardinality, Cardinality

(* A right projection shows the cards of the daemon.                        *)
LEMMA RightShows ==
  ASSUME NEW d \in Seq(Card!Cards), NEW p \in Projections, Right(p, d)
  PROVE  Card!snapshot(p) = d /\ ~p.replaying
<1> DEFINE n == Len(d)
           present == {i \in DOMAIN p.order : p.order[i] \in DOMAIN p.cards}
           shown == Card!Kept(p.order, present)
<1>1. /\ p.order \in Seq(Ids) /\ DOMAIN p.cards = {d[i].id : i \in 1..n}
      /\ n \in Nat
  <2>1. n \in 0..Len(d) /\ n \in Nat
    OBVIOUS
  <2> QED
    BY <2>1, CardsAreIds DEF Right
<1>2. /\ Len(p.order) = n /\ DOMAIN p.order = 1..n
      /\ \A i \in 1..n : /\ p.order[i] = d[i].id
                         /\ p.cards[d[i].id] = d[i].fields
  BY <1>1 DEF Right, HasFirst
<1>3. present = 1..n
  BY <1>1, <1>2
<1>4. shown = p.order
  <2>1. Card!Kept(p.order, present) = Kept(p.order, present)
    BY KeptIsKept
  <2>2. Kept(p.order, 1..Len(p.order)) = p.order
    BY <1>1, KeptAll
  <2> QED
    BY <1>2, <1>3, <2>1, <2>2
<1>5. Card!snapshot(p) = [i \in DOMAIN shown |->
                            [id |-> shown[i], fields |-> p.cards[shown[i]]]]
  BY DEF Card!snapshot
<1> HIDE DEF shown, present
<1>6. ASSUME NEW i \in 1..n
      PROVE  [id |-> p.order[i], fields |-> p.cards[p.order[i]]] = d[i]
  <2>1. d[i] \in Card!Cards
    OBVIOUS
  <2>2. d[i] = [id |-> d[i].id, fields |-> d[i].fields]
    BY <2>1 DEF Card!Cards
  <2> QED
    BY <1>2, <2>2
<1>7. d = [i \in 1..n |-> d[i]]
  OBVIOUS
<1> HIDE DEF n
<1>8. Card!snapshot(p) = d
  BY <1>2, <1>4, <1>5, <1>6, <1>7
<1> QED
  BY <1>8 DEF Right

(* The frames from position k on.                                           *)
From(w, k) == [i \in 1..(Len(w) + 1 - k) |-> w[i + k - 1]]

LEMMA FromProperties ==
  ASSUME NEW w \in Seq(CardFrame)
  PROVE  /\ \A k \in 1..Len(w) : From(w, k) \in Seq(CardFrame)
         /\ From(w, 1) = w
         /\ w # <<>> => \A k \in 1..Len(Tail(w)) :
              From(Tail(w), k) = From(w, k + 1)
<1>1. \A k \in 1..Len(w) : From(w, k) \in Seq(CardFrame)
  <2> SUFFICES ASSUME NEW k \in 1..Len(w) PROVE From(w, k) \in Seq(CardFrame)
    OBVIOUS
  <2> DEFINE m == Len(w) + 1 - k
  <2>1. m \in Nat /\ \A i \in 1..m : i + k - 1 \in 1..Len(w)
    OBVIOUS
  <2>2. \A i \in 1..Len(w) : w[i] \in CardFrame
    OBVIOUS
  <2>3. From(w, k) = [i \in 1..m |-> w[i + k - 1]]
    BY DEF From
  <2> HIDE DEF m
  <2> QED
    BY <2>1, <2>2, <2>3
<1>2. From(w, 1) = w
  <2>1. /\ Len(w) + 1 - 1 = Len(w) /\ w = [i \in 1..Len(w) |-> w[i]]
        /\ \A i \in 1..Len(w) : i + 1 - 1 = i
    OBVIOUS
  <2> QED
    BY <2>1 DEF From
<1>3. ASSUME w # <<>>, NEW k \in 1..Len(Tail(w))
      PROVE  From(Tail(w), k) = From(w, k + 1)
  <2>1. /\ Len(Tail(w)) = Len(w) - 1 /\ Len(w) \in Nat
        /\ \A i \in 1..Len(Tail(w)) : Tail(w)[i] = w[i + 1]
    BY <1>3, HeadTailProperties
  <2> DEFINE x == Tail(w)
             m == Len(x) + 1 - k
  <2>2. m = Len(w) + 1 - (k + 1)
    BY <2>1
  <2>3. ASSUME NEW i \in 1..m PROVE x[i + k - 1] = w[i + (k + 1) - 1]
    <3>1. i + k - 1 \in 1..Len(x) /\ (i + k - 1) + 1 = i + (k + 1) - 1
      BY <2>1
    <3> QED
      BY <2>1, <3>1
  <2>4. From(x, k) = [i \in 1..m |-> x[i + k - 1]]
    BY DEF From
  <2>5. From(w, k + 1) = [i \in 1..m |-> w[i + (k + 1) - 1]]
    BY <2>2 DEF From
  <2> HIDE DEF m, x
  <2>6. From(x, k) = From(w, k + 1)
    BY <2>3, <2>4, <2>5
  <2> QED
    BY <2>6 DEF x
<1> QED
  BY <1>1, <1>2, <1>3

LEMMA FromConcat ==
  ASSUME NEW w \in Seq(CardFrame), NEW x \in Seq(CardFrame)
  PROVE  /\ \A k \in 1..Len(w) : From(w \o x, k) = From(w, k) \o x
         /\ From(w \o x, Len(w) + 1) = x
<1> DEFINE n == Len(w)
           m == Len(x)
           wx == w \o x
<1>1. /\ wx \in Seq(CardFrame) /\ Len(wx) = n + m /\ n \in Nat /\ m \in Nat
      /\ \A i \in 1..n : wx[i] = w[i]
      /\ \A i \in 1..m : wx[n + i] = x[i]
  BY ConcatElements
<1>2. n = Len(w) /\ m = Len(x)
  OBVIOUS
<1>3. x = [i \in 1..m |-> x[i]]
  OBVIOUS
<1> HIDE DEF n, m, wx
<1>4. From(wx, n + 1) = x
  <2>1. Len(wx) + 1 - (n + 1) = m
    BY <1>1
  <2>2. ASSUME NEW i \in 1..m PROVE wx[i + (n + 1) - 1] = x[i]
    <3>1. i + (n + 1) - 1 = n + i
      BY <1>1
    <3> QED
      BY <1>1, <3>1
  <2> QED
    BY <1>3, <2>1, <2>2 DEF From
<1>5. ASSUME NEW k \in 1..n PROVE From(wx, k) = From(w, k) \o x
  <2> DEFINE l == n + 1 - k
             u == From(w, k)
             ux == u \o x
             v == From(wx, k)
  <2>1. /\ u \in Seq(CardFrame) /\ v \in Seq(CardFrame)
        /\ x \in Seq(CardFrame) /\ k \in 1..Len(wx)
    <3>1. k \in 1..Len(w) /\ k \in 1..Len(wx)
      BY <1>1, <1>2
    <3> QED
      BY <1>1, <3>1, FromProperties
  <2>2. l \in Nat /\ n + m + 1 - k = l + m
    BY <1>1
  <2>3. u = [i \in 1..l |-> w[i + k - 1]]
    BY <1>2 DEF From
  <2>4. v = [i \in 1..(l + m) |-> wx[i + k - 1]]
    BY <1>1, <2>2 DEF From
  <2>5. \A i \in 1..l : i + k - 1 \in 1..n /\ i \in 1..(l + m)
    BY <1>1
  <2>6. \A i \in 1..m : (l + i) + k - 1 = n + i /\ l + i \in 1..(l + m)
    BY <1>1
  <2> HIDE DEF u, v, l
  <2>7. Len(u) = l /\ Len(v) = l + m
    <3>1. l + m \in Nat
      BY <1>1, <2>2
    <3>2. DOMAIN u = 1..l /\ DOMAIN v = 1..(l + m)
      BY <2>3, <2>4
    <3>3. DOMAIN u = 1..Len(u) /\ DOMAIN v = 1..Len(v)
      BY <2>1
    <3>4. Len(u) \in Nat /\ Len(v) \in Nat
      BY <2>1
    <3> QED
      BY <2>2, <3>1, <3>2, <3>3, <3>4
  <2>8. /\ ux \in Seq(CardFrame) /\ Len(ux) = l + m
        /\ \A i \in 1..l : ux[i] = u[i]
        /\ \A i \in 1..m : ux[l + i] = x[i]
    <3>1. /\ ux \in Seq(CardFrame) /\ Len(ux) = Len(u) + Len(x)
          /\ \A i \in 1..Len(u) : ux[i] = u[i]
          /\ \A i \in 1..Len(x) : ux[Len(u) + i] = x[i]
      BY <2>1, ConcatElements
    <3> QED
      BY <1>2, <2>7, <3>1
  <2> HIDE DEF ux
  <2>9. ASSUME NEW i \in 1..(l + m) PROVE v[i] = ux[i]
    <3>1. CASE i \in 1..l
      BY <1>1, <2>3, <2>4, <2>5, <2>8, <3>1
    <3>2. CASE i \notin 1..l
      <4>1. i - l \in 1..m /\ l + (i - l) = i
        BY <1>1, <2>2, <3>2
      <4> DEFINE j == i - l
      <4>2. j \in 1..m /\ i = l + j
        BY <4>1
      <4> HIDE DEF j
      <4>3. ux[i] = x[j]
        BY <2>8, <4>2
      <4>4. v[i] = wx[n + j]
        BY <2>4, <2>6, <4>2
      <4> QED
        BY <1>1, <4>2, <4>3, <4>4
    <3> QED
      BY <3>1, <3>2
  <2>10. v = ux
    BY <2>1, <2>7, <2>8, <2>9, SeqEqual
  <2> QED
    BY <2>10 DEF v, ux, u
<1> QED
  BY <1>2, <1>4, <1>5 DEF wx

(* If nothing was lost since the last replay began, and whatever the        *)
(* projection if one is to begin, it will be right.                         *)
HealInv ==
  /\ ~lost => Right(Fold(Card!Projection, wire), daemon)
  /\ \A k \in 1..Len(wire) : wire[k].type = "begin" =>
       \A p \in Projections : Right(Fold(p, From(wire, k)), daemon)

LEMMA SendHeals ==
  ASSUME CardType, HealInv, NEW frames \in Seq(CardFrame), Card!Send(frames),
         \A p \in Projections :
           Right(p, daemon) => Right(Fold(p, frames), daemon'),
         \A k \in 1..Len(frames) : frames[k].type = "begin" =>
           k = 1 /\ \A p \in Projections : Right(Fold(p, frames), daemon')
  PROVE  HealInv'
<1> DEFINE n == Len(wire)
           m == Len(frames)
           P == Card!Projection
<1>1. /\ wire' = wire \o frames /\ lost' = lost
      /\ Card!Projection' = P
  BY DEF Card!Send, Card!projection, Card!Projection
<1>2. wire \in Seq(CardFrame) /\ P \in Projections
  BY ProjectionsAre DEF CardType
<1>3. /\ Len(wire \o frames) = n + m /\ n \in Nat /\ m \in Nat
      /\ \A i \in 1..n : (wire \o frames)[i] = wire[i]
      /\ \A i \in 1..m : (wire \o frames)[n + i] = frames[i]
  BY <1>2, ConcatElements
<1>4. ASSUME ~lost' PROVE Right(Fold(P, wire \o frames), daemon')
  <2>1. Right(Fold(P, wire), daemon)
    BY <1>1, <1>4 DEF HealInv
  <2>2. Fold(P, wire) \in Projections
    BY <1>2, FoldType
  <2>3. Fold(P, wire \o frames) = Fold(Fold(P, wire), frames)
    BY <1>2, FoldConcat
  <2> QED
    BY <2>1, <2>2, <2>3
<1>5. ASSUME NEW k \in 1..Len(wire \o frames), (wire \o frames)[k].type = "begin",
             NEW p \in Projections
      PROVE  Right(Fold(p, From(wire \o frames, k)), daemon')
  <2>1. CASE k \in 1..n
    <3>1. Right(Fold(p, From(wire, k)), daemon)
      BY <1>3, <1>5, <2>1 DEF HealInv
    <3>2. From(wire, k) \in Seq(CardFrame)
      BY <1>2, <2>1, FromProperties
    <3>3. Fold(p, From(wire, k)) \in Projections
      BY <3>2, FoldType
    <3>4. From(wire \o frames, k) = From(wire, k) \o frames
      BY <1>2, <2>1, FromConcat
    <3>5. Fold(p, From(wire, k) \o frames) = Fold(Fold(p, From(wire, k)), frames)
      BY <3>2, FoldConcat
    <3> QED
      BY <3>1, <3>3, <3>4, <3>5
  <2>2. CASE k \notin 1..n
    <3>1. k - n \in 1..m /\ n + (k - n) = k
      BY <1>3, <2>2
    <3> DEFINE j == k - n
    <3>2. j \in 1..m /\ k = n + j
      BY <3>1
    <3> HIDE DEF j
    <3>3. frames[j].type = "begin"
      BY <1>3, <1>5, <3>2
    <3>4. j = 1 /\ Right(Fold(p, frames), daemon')
      BY <3>2, <3>3
    <3>5. From(wire \o frames, n + 1) = frames
      BY <1>2, FromConcat
    <3> QED
      BY <3>2, <3>4, <3>5
  <2> QED
    BY <2>1, <2>2
<1> QED
  BY <1>1, <1>4, <1>5 DEF HealInv

LEMMA StepHeals ==
  ASSUME CardType, OrderInv, HealInv, [Card!Next]_Card!cardVars
  PROVE  HealInv'
<1>1. /\ daemon \in Seq(Card!Cards) /\ wire \in Seq(CardFrame)
      /\ Card!Projection \in Projections /\ Once(daemon)
      /\ DOMAIN daemon = 1..Len(daemon)
  BY ProjectionsAre DEF CardType, OrderInv
<1>2. Once(daemon') /\ CardType'
  BY StepCardType, StepOrder DEF OrderInv
<1>3. ASSUME NEW f \in CardFrame, f.type # "begin", Card!Send(<<f>>),
             \A p \in Projections :
               Right(p, daemon) => Right(Fold(p, <<f>>), daemon')
      PROVE  HealInv'
  <2>1. <<f>> \in Seq(CardFrame) /\ Len(<<f>>) = 1 /\ <<f>>[1] = f
    BY <1>3
  <2>2. \A k \in 1..1 : k = 1
    OBVIOUS
  <2>3. \A k \in 1..Len(<<f>>) : <<f>>[k].type # "begin"
    BY <1>3, <2>1, <2>2
  <2> DEFINE fr == <<f>>
  <2>4. /\ fr \in Seq(CardFrame) /\ Card!Send(fr)
        /\ \A k \in 1..Len(fr) : fr[k].type # "begin"
        /\ \A p \in Projections : Right(p, daemon) => Right(Fold(p, fr), daemon')
    BY <1>3, <2>1, <2>3
  <2> HIDE DEF fr
  <2> QED
    BY <2>4, SendHeals
<1>4. ASSUME NEW id \in Ids, Card!Create(id) PROVE HealInv'
  <2> DEFINE c == [id |-> id, fields |-> NoFields]
  <2>1. /\ c \in Card!Cards /\ daemon' = Append(daemon, c)
        /\ CreatedFrame(c) \in CardFrame /\ Card!Send(<<CreatedFrame(c)>>)
    BY <1>4, CreateIs
  <2>2. CreatedFrame(c).type # "begin"
    BY DEF CreatedFrame, Card!Frame
  <2> HIDE DEF c
  <2>3. \A p \in Projections : Right(p, daemon) =>
          Right(Fold(p, <<CreatedFrame(c)>>), daemon')
    BY <1>1, <1>2, <2>1, CreateKeepsRight
  <2> QED
    BY <1>3, <2>1, <2>2, <2>3
<1>5. ASSUME NEW i \in DOMAIN daemon, NEW k \in Fields, Card!Change(i, k)
      PROVE  HealInv'
  <2>1. PICK v \in 0..MaxValue :
          LET c == [id |-> daemon[i].id,
                    fields |-> [daemon[i].fields EXCEPT ![k] = v]]
              f == Card!Frame("updated", daemon[i].id, [x \in {k} |-> v])
          IN
          /\ c \in Card!Cards
          /\ daemon' = [daemon EXCEPT ![i] = c]
          /\ f \in CardFrame
          /\ Card!Send(<<f>>)
    BY <1>5, ChangeIs
  <2> DEFINE f == Card!Frame("updated", daemon[i].id, [x \in {k} |-> v])
             c == [id |-> daemon[i].id,
                   fields |-> [daemon[i].fields EXCEPT ![k] = v]]
  <2>2. /\ f \in CardFrame /\ Card!Send(<<f>>)
        /\ daemon' = [daemon EXCEPT ![i] = c]
    BY <2>1
  <2>3. f.type # "begin"
    BY DEF Card!Frame
  <2>4. ASSUME NEW p \in Projections, Right(p, daemon)
        PROVE  Right(Fold(p, <<f>>), [daemon EXCEPT ![i] = c])
    BY <1>1, <2>4, ChangeKeepsRight
  <2> HIDE DEF f, c
  <2> QED
    BY <1>3, <2>2, <2>3, <2>4
<1>6. ASSUME NEW type \in {"created", "updated"}, Card!SendAnonymous(type)
      PROVE  HealInv'
  <2> DEFINE f == Card!Frame(type, NoId, NoFields)
  <2>1. f \in CardFrame /\ Card!Send(<<f>>) /\ daemon' = daemon
    BY <1>6, AnonymousIs
  <2>2. f.type # "begin"
    BY DEF Card!Frame
  <2>3. \A p \in Projections :
          Right(p, daemon) => Right(Fold(p, <<f>>), daemon)
    BY <1>1, AnonymousKeepsRight
  <2> HIDE DEF f
  <2> QED
    BY <1>3, <2>1, <2>2, <2>3
<1>7. CASE Card!Replay
  <2> DEFINE r == ReplayFrames(daemon)
  <2>1. daemon' = daemon /\ Card!Send(r)
    BY <1>7, ReplayIs
  <2>2. Len(daemon) \in Nat
    BY <1>1
  <2>3. /\ r \in Seq(CardFrame) /\ Len(r) = Len(daemon) + 2
        /\ r[Len(daemon) + 2] = Card!Frame("end", NoId, <<>>)
    BY <1>1, ReplayProperties
  <2>4. \A i \in 1..Len(daemon) : r[i + 1] = CreatedFrame(daemon[i])
    BY <1>1, ReplayProperties
  <2>5. \A p \in Projections : Right(Fold(p, r), daemon)
    BY <1>1, ReplayMakesRight
  <2> HIDE DEF r
  <2>6. ASSUME NEW k \in 1..Len(r), r[k].type = "begin" PROVE k = 1
    <3> SUFFICES ASSUME k # 1 PROVE FALSE
      OBVIOUS
    <3>1. \/ k - 1 \in 1..Len(daemon) /\ (k - 1) + 1 = k
          \/ k = Len(daemon) + 2
      BY <2>2, <2>3
    <3>2. CASE k - 1 \in 1..Len(daemon) /\ (k - 1) + 1 = k
      <4>1. r[k] = CreatedFrame(daemon[k - 1])
        BY <2>4, <3>2
      <4> QED
        BY <2>6, <4>1 DEF CreatedFrame, Card!Frame
    <3>3. CASE k = Len(daemon) + 2
      BY <2>3, <2>6, <3>3 DEF Card!Frame
    <3> QED
      BY <3>1, <3>2, <3>3
  <2> QED
    BY <2>1, <2>3, <2>5, <2>6, SendHeals
<1>8. ASSUME wire # <<>>, wire' = Tail(wire), daemon' = daemon,
             NEW k \in 1..Len(wire'), wire'[k].type = "begin",
             NEW p \in Projections
      PROVE  Right(Fold(p, From(wire', k)), daemon')
  <2>1. From(Tail(wire), k) = From(wire, k + 1)
    BY <1>1, <1>8, FromProperties
  <2>2. k + 1 \in 1..Len(wire) /\ wire[k + 1].type = "begin"
    BY <1>1, <1>8, HeadTailProperties
  <2> QED
    BY <1>8, <2>1, <2>2 DEF HealInv
<1>9. CASE Card!Lose
  <2>1. wire # <<>> /\ wire' = Tail(wire) /\ daemon' = daemon /\ lost'
    BY <1>9 DEF Card!Lose
  <2> QED
    BY <1>8, <2>1 DEF HealInv
<1>10. CASE Card!apply
  <2> DEFINE f == Head(wire)
             P == Card!Projection
             q == Card!Apply(P, f)
  <2>1. /\ wire # <<>> /\ wire' = Tail(wire) /\ daemon' = daemon
        /\ lost' = (lost /\ f.type # "begin")
        /\ Card!Projection' =
             [cards |-> q.cards, order |-> q.order, replaying |-> q.replaying]
    BY <1>10 DEF Card!apply, Card!Projection
  <2>2. f \in CardFrame /\ f = wire[1] /\ 1 \in 1..Len(wire)
    BY <1>1, <2>1, HeadTailProperties
  <2>3. q \in Projections
    BY <1>1, <2>2, ApplyStays
  <2>4. Card!Projection' = q
    <3> HIDE DEF q
    <3>1. q = [cards |-> q.cards, order |-> q.order, replaying |-> q.replaying]
      BY <2>3 DEF Projections
    <3> QED
      BY <2>1, <3>1
  <2>5. Fold(q, Tail(wire)) = Fold(P, wire)
    BY <1>1, <2>1, FoldTail
  <2> HIDE DEF q
  <2>6. ASSUME ~lost' PROVE Right(Fold(P, wire), daemon)
    <3>1. CASE ~lost
      BY <3>1 DEF HealInv
    <3>2. CASE f.type = "begin"
      <4>1. From(wire, 1) = wire
        BY <1>1, FromProperties
      <4> QED
        BY <1>1, <2>2, <3>2, <4>1 DEF HealInv
    <3> QED
      BY <2>1, <2>6, <3>1, <3>2
  <2> HIDE DEF P, f
  <2> QED
    BY <1>8, <2>1, <2>4, <2>5, <2>6 DEF HealInv
<1>11. CASE UNCHANGED Card!cardVars
  BY <1>11 DEF Card!cardVars, Card!projection, Card!Projection, HealInv
<1> QED
  BY <1>4, <1>5, <1>6, <1>7, <1>9, <1>10, <1>11 DEF Card!Next

LEMMA InitHeals == Card!Init => HealInv
<1> SUFFICES ASSUME Card!Init PROVE HealInv
  OBVIOUS
<1>1. /\ wire = <<>> /\ daemon = <<>> /\ order = <<>> /\ ~replaying
      /\ CardType
  BY InitCardType DEF Card!Init
<1>2. Card!Projection \in Projections
  BY <1>1, ProjectionsAre DEF CardType
<1>3. <<>> \in Seq(CardFrame) /\ Len(<<>>) = 0
  BY EmptySeq
<1>4. Fold(Card!Projection, <<>>) = Card!Projection
  <2>1. PICK V : /\ Steps(V, Card!Projection, <<>>)
                 /\ Fold(Card!Projection, <<>>) = V[Len(<<>>)]
    BY <1>2, <1>3, FoldSteps
  <2> QED
    BY <1>3, <2>1 DEF Steps
<1>5. Right(Card!Projection, <<>>)
  BY <1>1, <1>3 DEF Right, HasFirst, Card!Projection
<1>6. 1..Len(<<>>) = {}
  BY <1>3
<1> QED
  BY <1>1, <1>4, <1>5, <1>6 DEF HealInv

(* A replay heals: if nothing was lost since the last one began, the        *)
(* projection shows the daemon's cards once it has applied what is under    *)
(* way, whatever it lost or showed before, for any cards, fields and values *)
(* and any number of frames under way.                                      *)
THEOREM ReplaysHeal == MCSpec => []ReplayHeals
<1>1. Card!Init => CardType /\ OrderInv /\ HealInv
  BY InitCardType, InitOrder, InitHeals
<1>2. CardType /\ OrderInv /\ HealInv /\ [Card!Next]_Card!cardVars
        => (CardType /\ OrderInv /\ HealInv)'
  BY StepCardType, StepOrder, StepHeals
<1>3. CardType /\ HealInv => ReplayHeals
  <2> SUFFICES ASSUME CardType, HealInv, ~lost
               PROVE  LET p == Card!FoldLeft(Card!Apply, Card!Projection, wire)
                      IN  Card!snapshot(p) = daemon /\ ~p.replaying
    BY DEF ReplayHeals, Card!ReplayHeals
  <2> DEFINE p == Fold(Card!Projection, wire)
  <2>1. p \in Projections /\ daemon \in Seq(Card!Cards)
    BY ProjectionsAre, FoldType DEF CardType
  <2>2. Right(p, daemon)
    BY DEF HealInv
  <2> HIDE DEF p
  <2>3. Card!snapshot(p) = daemon /\ ~p.replaying
    BY <2>1, <2>2, RightShows
  <2> QED
    BY <2>3 DEF p, Fold
<1> QED
  BY <1>1, <1>2, <1>3, CardsAreComposed, PTL DEF Card!Spec
=============================================================================
