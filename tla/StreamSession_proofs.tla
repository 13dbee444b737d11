----------------------- MODULE StreamSession_proofs -----------------------
(***************************************************************************)
(* IInv is an invariant of StreamSession for every length of the stream,   *)
(* every page size and any number of drops, errors and reopened sessions;  *)
(* type correctness and the safety of the view follow from it.             *)
(***************************************************************************)
EXTENDS StreamSession, Timeline_proofs, SequenceTheorems

USE DEF Null

-----------------------------------------------------------------------------
(***************************************************************************)
(* The stream only grows                                                   *)
(***************************************************************************)
\* A timeline of a stream is one of any longer stream.
LEMMA TimelineInLongerStream ==
    ASSUME NEW M \in Nat, NEW N \in Nat, M <= N, NEW t, IsTimeline(t, 1..M)
    PROVE  IsTimeline(t, 1..N)
BY DEF IsTimeline, IsContentOf

\* The head of the stream is a natural number.
LEMMA LastSequenceIsNat ==
    ASSUME ServerTypeOK
    PROVE  LastSequence \in Nat
BY LenProperties DEF ServerTypeOK, LastSequence

-----------------------------------------------------------------------------
(***************************************************************************)
(* The coroutine                                                           *)
(***************************************************************************)
\* What a step of the coroutine leaves fits the timeline it leaves.
OutcomeFits(o, t) == RunFits(o.run, t) /\ o.phase \in Phases

\* No run fits every timeline.
LEMMA NoRunFits == \A t : RunFits(NoRun, t) /\ NoRun \in Runs
BY DEF RunFits, NoRun, Runs

\* A settled outcome fits every timeline.
LEMMA SettledFits ==
    ASSUME NEW t, NEW ph \in Phases
    PROVE  OutcomeFits(Settled(ph), t) /\ Settled(ph).run = NoRun
BY NoRunFits DEF OutcomeFits, Settled

\* A suspended run fits: the latest query has no cursor, a wait has one.
LEMMA SuspendedFits ==
    ASSUME NEW t, NEW ph \in Phases, NEW pc \in {"latest", "delay", "yield"},
           pc = "latest" <=> t.cursor = Null
    PROVE  OutcomeFits(Suspended(pc, ph), t)
BY DEF OutcomeFits, Suspended, Awaiting, RunFits, NoRun, Runs

\* The loop of #recoverAfterCursor sends a request that fits its cursor.
LEMMA RequestSyncFits ==
    ASSUME LastSequence \in Nat, NEW t, t.cursor \in 0..LastSequence,
           NEW limit, IsCursor(limit), NEW l
    PROVE  OutcomeFits(RequestSync(t, limit, l), t)
<1>1. CASE RequestSync(t, limit, l) = [run |-> SyncRun(t.cursor, limit), phase |-> "recovering"]
           /\ ~(limit # Null /\ t.cursor > limit)
  BY <1>1 DEF OutcomeFits, RunFits, SyncRun, Runs, IsCursor, Sequences, Phases
<1>2. CASE \E ph \in Phases : RequestSync(t, limit, l) = Settled(ph)
  BY <1>2, SettledFits
<1> QED BY <1>1, <1>2 DEF RequestSync, Phases

\* So does #runBootstrap, with or without a cursor.
LEMMA BootstrapFits ==
    ASSUME LastSequence \in Nat, NEW t, t.cursor \in (0..LastSequence) \cup {Null},
           NEW limit, IsCursor(limit), NEW l
    PROVE  OutcomeFits(Bootstrap(t, limit, l), t)
<1>1. CASE t.cursor = Null
  BY <1>1, SuspendedFits DEF Bootstrap, Phases
<1>2. CASE t.cursor # Null
  BY <1>2, RequestSyncFits DEF Bootstrap
<1> QED BY <1>1, <1>2

\* Whatever goes on after a run leaves a run, a phase and waiters that fit.
LEMMA ContinueFits ==
    ASSUME LastSequence \in Nat, NEW t, t.cursor \in (0..LastSequence) \cup {Null},
           NEW limit, IsCursor(limit), NEW l, NEW outcome, OutcomeFits(outcome, t),
           ConnectionTypeOK,
           Continue(outcome, t, limit, l)
    PROVE  /\ RunFits(run', t)
           /\ phase' \in Phases
           /\ start' \in {"none", "connecting", "run", "drain"}
           /\ drain' \in {"idle", "awaiting", "queued"}
<1> DEFINE next == IF drain = "queued" THEN Bootstrap(t, limit, l) ELSE outcome
<1>1. OutcomeFits(next, t)
  BY BootstrapFits
<1>2. CASE outcome.run # NoRun
  BY <1>2 DEF Continue, OutcomeFits, ConnectionTypeOK
<1>3. CASE outcome.run = NoRun
  <2> HIDE DEF next
  <2>1. /\ run' = next.run
        /\ drain' = IF next.run # NoRun THEN "awaiting" ELSE "idle"
        /\ start' = IF start = "connecting" \/ (start = "drain" /\ next.run # NoRun)
                    THEN start ELSE "none"
        /\ phase' \in PhasesAfter(outcome, next, l)
    BY <1>3 DEF Continue, next
  <2>2. PhasesAfter(outcome, next, l) \subseteq Phases
    BY <1>1 DEF PhasesAfter, AfterStart, OutcomeFits, Phases
  <2> QED BY <1>1, <2>1, <2>2 DEF OutcomeFits, ConnectionTypeOK
<1> QED BY <1>2, <1>3
-----------------------------------------------------------------------------
(***************************************************************************)
(* Frame lemmas: what the view, the run and the pages need to stay as the  *)
(* invariant describes them.                                               *)
(***************************************************************************)

\* The invariant in the form that the lemmas about timelines use.
LEMMA InvariantFacts ==
    ASSUME IInv
    PROVE  /\ LastSequence \in Nat
           /\ Sequences = 1..LastSequence
           /\ tl.cursor \in (0..LastSequence) \cup {Null}
           /\ tl.before \in (1..LastSequence) \cup {Null}
           /\ IsTimeline(tl, 1..LastSequence)
           /\ Buffered(tl)
           /\ tl.cursor = Null => tl.visible = {}
           /\ Holds(tl, acked)
           /\ IsCursor(through)
<1>1. LastSequence \in Nat
  BY LastSequenceIsNat DEF IInv, TypeOK
<1>2. IsTimeline(tl, 1..LastSequence) /\ Sequences = 1..LastSequence
  BY DEF IInv, TypeOK, SessionTypeOK, Sequences
<1>3. /\ tl.cursor \in (0..LastSequence) \cup {Null}
      /\ tl.before \in (1..LastSequence) \cup {Null}
  BY <1>1, <1>2 DEF IsTimeline
<1>4. Buffered(tl) /\ (tl.cursor = Null => tl.visible = {})
  BY DEF IInv, BufferBeyondCursor, Buffered
<1>5. Holds(tl, acked)
  BY DEF IInv, AcceptedAreMarked, Holds
<1> QED BY <1>1, <1>2, <1>3, <1>4, <1>5 DEF IInv, TypeOK, SessionTypeOK

\* What a user sees, and the page of older messages that goes with it.
ViewInv ==
    /\ IsTimeline(tl, Sequences)
    /\ NoSkippedMessage /\ BufferBeyondCursor /\ HistoryMeetsView
    /\ WindowConnects /\ AcceptedAreMarked
    /\ IsPage(older)
    /\ older # NoPage => OlderPageFits(older)

\* The view's part of the invariant.
LEMMA ViewInvHolds == IInv => ViewInv
BY DEF IInv, ViewInv, TypeOK, SessionTypeOK, PagesFit

\* A step that leaves the view alone keeps its part of the invariant.
LEMMA ViewKept ==
    ASSUME ViewInv, UNCHANGED <<log, tl, floor, acked, older>>
    PROVE  ViewInv'
BY DEF ViewInv, NoSkippedMessage, BufferBeyondCursor, HistoryMeetsView, WindowConnects,
       AcceptedAreMarked, IsPage, OlderPageFits, Sequences, LastSequence

\* The window moves forward, and own messages may come into view before it.
LEMMA ViewMoves ==
    ASSUME IInv, UNCHANGED <<log, floor, older>>,
           IsTimeline(tl', 1..LastSequence), Buffered(tl'), Holds(tl', acked'),
           acked \subseteq acked',
           tl'.before = tl.before, tl'.more = tl.more,
           tl'.cursor = Null <=> tl.cursor = Null,
           tl.cursor = Null => tl'.visible = tl.visible,
           tl.cursor # Null =>
               /\ tl'.cursor >= tl.cursor
               /\ tl.visible \cup ((tl.cursor + 1)..tl'.cursor) \subseteq tl'.visible
               /\ tl'.visible \subseteq tl.visible \cup ((tl.cursor + 1)..tl'.cursor) \cup acked'
    PROVE  ViewInv'
<1>1. /\ LastSequence \in Nat /\ LastSequence' = LastSequence
      /\ Sequences = 1..LastSequence /\ Sequences' = Sequences
      /\ tl.cursor \in (0..LastSequence) \cup {Null}
      /\ tl'.cursor \in (0..LastSequence) \cup {Null}
      /\ tl.cursor = Null => tl.visible = {}
  BY InvariantFacts DEF IsTimeline, Sequences, LastSequence
<1>2. ViewInv
  BY ViewInvHolds
<1>3. IsTimeline(tl, Sequences)'
  BY <1>1
<1>4. WindowConnects'
  BY <1>1, <1>2 DEF ViewInv, WindowConnects
<1>5. NoSkippedMessage'
  BY <1>1, <1>2 DEF ViewInv, NoSkippedMessage, WindowConnects
<1>6. BufferBeyondCursor'
  BY <1>1 DEF Buffered, BufferBeyondCursor
<1>7. HistoryMeetsView'
  BY <1>2 DEF ViewInv, HistoryMeetsView
<1>8. AcceptedAreMarked'
  BY DEF Holds, AcceptedAreMarked
<1>9. IsPage(older)' /\ (older # NoPage => OlderPageFits(older))'
  BY <1>1, <1>2 DEF ViewInv, IsPage, OlderPageFits
<1> QED BY <1>3, <1>4, <1>5, <1>6, <1>7, <1>8, <1>9 DEF ViewInv

\* A pending run is not disturbed by a cursor that moves on.
LEMMA RunKept ==
    ASSUME IInv, UNCHANGED <<log, run>>,
           tl'.cursor \in (0..LastSequence) \cup {Null},
           tl'.cursor = Null <=> tl.cursor = Null, tl'.cursor >= tl.cursor
    PROVE  RunFits(run, tl)'
BY InvariantFacts DEF IInv, RunFits, Runs, LastSequence

\* The lemma ContinueFits for the state after a step that keeps the log.
LEMMA RunContinues ==
    ASSUME IInv, UNCHANGED log, NEW limit, IsCursor(limit), NEW l, NEW outcome,
           tl'.cursor \in (0..LastSequence) \cup {Null},
           OutcomeFits(outcome, tl'), Continue(outcome, tl', limit, l),
           UNCHANGED attached, l \in {"closed", "connecting", "ready", "joined"}, link' = l
    PROVE  RunFits(run, tl)' /\ phase' \in Phases /\ ConnectionTypeOK'
<1>1. /\ RunFits(run', tl')
      /\ phase' \in Phases
      /\ start' \in {"none", "connecting", "run", "drain"}
      /\ drain' \in {"idle", "awaiting", "queued"}
  BY ContinueFits, InvariantFacts DEF IInv, TypeOK
<1>2. RunFits(run, tl)'
  BY <1>1 DEF RunFits, LastSequence
<1> QED BY <1>1, <1>2 DEF ConnectionTypeOK, IInv, TypeOK
-----------------------------------------------------------------------------
(***************************************************************************)
(* The steps of the stream and the gateway                                 *)
(***************************************************************************)
\* The initial state satisfies the invariant.
LEMMA InitInvariant == Init => IInv
<1> SUFFICES ASSUME Init PROVE IInv
  OBVIOUS
<1>1. Original \in Content
  BY DEF Original, Content
<1>2. log \in Seq(Content) /\ LastSequence \in Nat
  BY <1>1, BoundsAssumption, IsASeq, LenProperties DEF Init, LastSequence
<1>3. ServerTypeOK
  BY <1>2 DEF Init, ServerTypeOK
<1>4. ConnectionTypeOK /\ HistoryTypeOK
  <2>1. attached \in BOOLEAN /\ anchored \in BOOLEAN
    BY Zenon DEF Init
  <2>2. ConnectionTypeOK
    BY <2>1 DEF Init, ConnectionTypeOK
  <2>3. HistoryTypeOK
    BY <2>1 DEF Init, HistoryTypeOK
  <2> QED BY <2>2, <2>3
<1>5. IsTimeline(tl, Sequences)
  BY DEF Init, IsTimeline, EmptyTimeline, IsContentOf, Known
<1>6. IsPage(NoPage)
  BY DEF IsPage, NoPage, IsContentOf
<1>7. SessionTypeOK
  BY <1>5, <1>6, NoRunFits DEF Init, SessionTypeOK, Phases, IsCursor, StoredCursors, NothingStored
<1>8. tl.cursor = Null /\ tl.before = Null /\ tl.visible = {} /\ tl.accepted = {} /\ tl.buffered = {}
  BY DEF Init, EmptyTimeline
<1>9. NoSkippedMessage /\ BufferBeyondCursor /\ HistoryMeetsView /\ WindowConnects /\ AcceptedAreMarked
  BY <1>8 DEF Init, NoSkippedMessage, BufferBeyondCursor, HistoryMeetsView, WindowConnects,
              AcceptedAreMarked
<1>10. RunFits(run, tl) /\ PagesFit /\ SessionResumes /\ StoredCursorIsValid
  BY <1>8, NoRunFits DEF Init, PagesFit, SessionResumes, NothingStored, StoredCursorIsValid
<1> QED BY <1>3, <1>4, <1>7, <1>9, <1>10 DEF IInv, TypeOK

\* A longer stream changes nothing for the session.
LEMMA CommitStep ==
    ASSUME IInv, NEW mine \in BOOLEAN, Commit(mine)
    PROVE  IInv'
<1> DEFINE N == LastSequence
<1>1. /\ N \in Nat /\ log \in Seq(Content) /\ Sequences = 1..N
      /\ IsTimeline(tl, 1..N) /\ tl.cursor \in (0..N) \cup {Null}
  BY InvariantFacts DEF IInv, TypeOK, ServerTypeOK
<1>2. Original \in Content
  BY DEF Original, Content
<1>3. log' \in Seq(Content) /\ LastSequence' = N + 1 /\ Sequences' = 1..(N + 1)
  BY <1>1, <1>2, AppendProperties DEF Commit, LastSequence, Sequences
<1>4. UNCHANGED <<results, conn, session, ghosts, budget>>
  BY DEF Commit
<1> HIDE DEF N
<1>5. 1..N \subseteq 1..(N + 1) /\ N + 1 \in 1..(N + 1)
  BY <1>1
<1>6. ServerTypeOK'
  <2>1. own' \subseteq 1..(N + 1) /\ fanout' \subseteq 1..(N + 1)
    BY <1>1, <1>5 DEF Commit, IInv, TypeOK, ServerTypeOK, N
  <2> QED BY <1>1, <1>3, <1>4, <1>5, <2>1 DEF IInv, TypeOK, ServerTypeOK
<1>7. ConnectionTypeOK'
  BY <1>4 DEF conn, IInv, TypeOK, ConnectionTypeOK
<1>8. IsTimeline(tl, Sequences)'
  BY <1>1, <1>3, <1>4, TimelineInLongerStream DEF session
<1>9. SessionTypeOK'
  BY <1>1, <1>3, <1>4, <1>5, <1>8
     DEF session, IInv, TypeOK, SessionTypeOK, IsPage, IsContentOf, IsCursor, StoredCursors
<1>10. HistoryTypeOK'
  <2>1. own \subseteq own'
    BY DEF Commit
  <2> QED BY <1>1, <1>3, <1>4, <1>5, <2>1 DEF ghosts, budget, IInv, TypeOK, HistoryTypeOK
<1>11. (NoSkippedMessage /\ BufferBeyondCursor /\ HistoryMeetsView /\ WindowConnects
        /\ AcceptedAreMarked /\ SessionResumes /\ StoredCursorIsValid)'
  BY <1>4 DEF session, ghosts, conn, IInv, NoSkippedMessage, BufferBeyondCursor,
              HistoryMeetsView, WindowConnects, AcceptedAreMarked, SessionResumes,
              StoredCursorIsValid
<1>12. RunFits(run, tl)'
  BY <1>1, <1>3, <1>4 DEF session, IInv, RunFits, Runs, N
<1>13. PagesFit'
  <2>1. LastSequence' >= LastSequence /\ LastSequence \in Nat /\ LastSequence' \in Nat
    BY <1>1, <1>3 DEF N
  <2>2. UNCHANGED <<reply, run, older, floor>> /\ PagesFit /\ run \in Runs
    BY <1>4 DEF session, ghosts, IInv, RunFits
  <2> QED BY <2>1, <2>2 DEF PagesFit, LatestPageFits, SyncPageFits, OlderPageFits, Runs
<1> QED BY <1>6, <1>7, <1>9, <1>10, <1>11, <1>12, <1>13 DEF IInv, TypeOK

\* A step of the stream or the gateway that leaves the session alone.
LEMMA ServerStep ==
    ASSUME IInv, ServerTypeOK', LastSequence' = LastSequence, UNCHANGED <<conn, session>>,
           HistoryTypeOK', UNCHANGED <<floor, acked>>
    PROVE  IInv'
<1>1. Sequences' = Sequences
  BY DEF Sequences
<1>2. ConnectionTypeOK' /\ SessionTypeOK'
  BY <1>1 DEF conn, session, IInv, TypeOK, ConnectionTypeOK, SessionTypeOK, IsPage, IsCursor,
              StoredCursors
<1>3. (NoSkippedMessage /\ BufferBeyondCursor /\ HistoryMeetsView /\ WindowConnects
        /\ AcceptedAreMarked /\ SessionResumes /\ StoredCursorIsValid)'
  BY DEF session, conn, IInv, NoSkippedMessage, BufferBeyondCursor,
         HistoryMeetsView, WindowConnects, AcceptedAreMarked, SessionResumes,
              StoredCursorIsValid
<1>4. (RunFits(run, tl) /\ PagesFit)'
  BY DEF session, IInv, RunFits, PagesFit, LatestPageFits, SyncPageFits, OlderPageFits
<1> QED BY <1>2, <1>3, <1>4 DEF IInv, TypeOK

\* An edit or a delete leaves content of a message.
LEMMA ChangedContent ==
    ASSUME NEW c \in Content, NEW delete \in BOOLEAN, NEW stamp \in Stamps
    PROVE  Changed(c, delete, stamp) \in Content
<1>1. c.rev + 1 \in Nat /\ c.at \in Nat /\ stamp \in Nat
  BY BoundsAssumption DEF Content, Stamps
<1>2. [rev |-> c.rev + 1, at |-> IF delete THEN c.at ELSE stamp, deleted |-> delete] \in Content
  BY <1>1 DEF Content
<1> QED BY <1>2 DEF Changed

\* An edit or a delete changes one message of the stream and nothing else.
LEMMA MutateStep ==
    ASSUME IInv, NEW s \in Sequences, NEW delete \in BOOLEAN, NEW asked \in BOOLEAN,
           Mutate(s, delete, asked)
    PROVE  IInv'
<1>1. log \in Seq(Content) /\ s \in 1..Len(log) /\ Sequences = 1..Len(log)
  BY DEF IInv, TypeOK, ServerTypeOK, Sequences, LastSequence
<1>2. PICK stamp \in Stamps : log' = [log EXCEPT ![s] = Changed(log[s], delete, stamp)]
  BY DEF Mutate
<1>3. log' \in Seq(Content) /\ Len(log') = Len(log)
  <2>1. Changed(log[s], delete, stamp) \in Content
    BY <1>1, ElementOfSeq, ChangedContent
  <2> QED BY <1>1, <1>2, <2>1, ExceptSeq
<1>4. log'[s] \in Content
  BY <1>1, <1>3, ElementOfSeq
<1>5. LastSequence' = LastSequence /\ Sequences' = Sequences
  BY <1>3 DEF LastSequence, Sequences
<1>6. ServerTypeOK'
  BY <1>3, <1>4, <1>5 DEF Mutate, IInv, TypeOK, ServerTypeOK
<1>7. HistoryTypeOK'
  BY <1>5 DEF Mutate, ghosts, budget, IInv, TypeOK, HistoryTypeOK
<1> QED BY <1>5, <1>6, <1>7, ServerStep DEF Mutate, ghosts

\* A lost relay touches neither the stream nor the session.
LEMMA FanOutLostStep ==
    ASSUME IInv, NEW s \in Sequences, FanOutLost(s)
    PROVE  IInv'
<1>1. LastSequence' = LastSequence /\ Sequences' = Sequences
  BY DEF FanOutLost, LastSequence, Sequences
<1>2. ServerTypeOK' /\ HistoryTypeOK'
  BY <1>1 DEF FanOutLost, budget, IInv, TypeOK, ServerTypeOK, HistoryTypeOK
<1> QED BY <1>1, <1>2, ServerStep DEF FanOutLost
-----------------------------------------------------------------------------
(***************************************************************************)
(* The frames that reach the timeline                                      *)
(***************************************************************************)

\* A frame that moves the view and touches nothing else of the session.
LEMMA FrameStep ==
    ASSUME IInv, ViewInv', ServerTypeOK', UNCHANGED <<log, conn>>,
           UNCHANGED <<phase, through, stored, run, reply, older, floor, budget>>,
           HistoryTypeOK', tl'.cursor = Null <=> tl.cursor = Null,
           tl'.cursor \in (0..LastSequence) \cup {Null}, tl'.cursor >= tl.cursor
    PROVE  IInv'
<1>1. /\ LastSequence \in Nat /\ LastSequence' = LastSequence /\ Sequences' = Sequences
      /\ tl.cursor \in (0..LastSequence) \cup {Null}
  BY InvariantFacts DEF LastSequence, Sequences
<1>2. ConnectionTypeOK'
  BY DEF conn, IInv, TypeOK, ConnectionTypeOK
<1>3. SessionTypeOK'
  BY <1>1 DEF IInv, TypeOK, SessionTypeOK, ViewInv, IsPage, IsCursor, StoredCursors
<1>4. RunFits(run, tl)'
  BY RunKept
<1>5. PagesFit'
  BY <1>1 DEF IInv, PagesFit, LatestPageFits, SyncPageFits, OlderPageFits
<1>6. SessionResumes' /\ StoredCursorIsValid'
  <2>1. stored.cursor \in Int /\ tl.cursor \in Int /\ tl'.cursor \in Int
    BY <1>1 DEF IInv, TypeOK, SessionTypeOK, StoredCursors, Sequences
  <2> QED BY <2>1 DEF IInv, SessionResumes, StoredCursorIsValid, conn
<1> QED BY <1>2, <1>3, <1>4, <1>5, <1>6 DEF IInv, TypeOK, ViewInv

\* A live message moves the cursor over a run of messages, or nothing.
LEMMA FanOutMoves ==
    ASSUME IInv, NEW s \in Sequences, FanOut(s)
    PROVE  /\ UNCHANGED <<log, own, conn, phase, through, stored, run, reply, older, budget>>
           /\ UNCHANGED <<floor, acked>>
           /\ IsTimeline(tl', 1..LastSequence) /\ Buffered(tl')
           /\ Holds(tl', acked)
           /\ tl'.before = tl.before /\ tl'.more = tl.more
           /\ tl.cursor = Null => tl'.cursor = Null /\ tl'.visible = tl.visible
           /\ tl.cursor # Null => tl'.cursor # Null /\ Advances(tl, tl')
<1>1. /\ LastSequence \in Nat /\ s \in 1..LastSequence
      /\ IsTimeline(tl, 1..LastSequence) /\ Buffered(tl) /\ Holds(tl, acked)
      /\ tl.cursor = Null => tl.visible = {}
      /\ tl.cursor \in (0..LastSequence) \cup {Null}
  BY InvariantFacts
<1>2. Original \in Content
  BY DEF Original, Content
<1>3. CASE tl' = tl
  BY <1>1, <1>3 DEF Advances, FanOut, ghosts
<1>4. CASE tl' = ApplyLive(tl, s, Original)
  <2>1. UNCHANGED <<log, own, conn, phase, through, stored, run, reply, older, budget, floor, acked>>
    BY DEF FanOut, ghosts
  <2> QED BY <1>1, <1>2, <1>4, <2>1, ApplyLiveProperties
<1> QED BY <1>3, <1>4 DEF FanOut

\* A relayed message keeps the invariant.
LEMMA FanOutStep ==
    ASSUME IInv, NEW s \in Sequences, FanOut(s)
    PROVE  IInv'
<1>1. LastSequence \in Nat /\ tl.cursor \in (0..LastSequence) \cup {Null}
  BY InvariantFacts
<1>2. ServerTypeOK' /\ HistoryTypeOK'
  BY DEF FanOut, ghosts, budget, IInv, TypeOK, ServerTypeOK, HistoryTypeOK, Sequences, LastSequence
<1>3. /\ UNCHANGED <<log, conn, phase, through, stored, run, reply, older, budget>>
      /\ UNCHANGED <<floor, acked>>
  BY FanOutMoves
<1>4. /\ IsTimeline(tl', 1..LastSequence) /\ Buffered(tl')
      /\ Holds(tl', acked)
      /\ tl'.before = tl.before /\ tl'.more = tl.more
      /\ tl.cursor = Null => tl'.cursor = Null /\ tl'.visible = tl.visible
      /\ tl.cursor # Null => tl'.cursor # Null /\ Advances(tl, tl')
  BY FanOutMoves
<1>5. /\ tl'.cursor = Null <=> tl.cursor = Null
      /\ tl'.cursor \in (0..LastSequence) \cup {Null} /\ tl'.cursor >= tl.cursor
  BY <1>1, <1>4 DEF IsTimeline, Advances
<1>6. ViewInv'
  BY <1>3, <1>4, <1>5, ViewMoves DEF Advances
<1> QED BY <1>2, <1>3, <1>5, <1>6, FrameStep

\* An edit or delete result keeps the invariant.
LEMMA ResultStep ==
    ASSUME IInv, NEW r \in results, ResultArrives(r)
    PROVE  IInv'
<1>1. /\ LastSequence \in Nat
      /\ IsTimeline(tl, 1..LastSequence) /\ Buffered(tl) /\ Holds(tl, acked)
      /\ tl.cursor \in (0..LastSequence) \cup {Null}
  BY InvariantFacts
<1>2. r.content \in Content
  BY DEF IInv, TypeOK, ServerTypeOK
<1>3. ServerTypeOK' /\ HistoryTypeOK'
  BY DEF ResultArrives, ghosts, budget, IInv, TypeOK, ServerTypeOK, HistoryTypeOK, Sequences,
         LastSequence
<1>4. /\ UNCHANGED <<log, conn, phase, through, stored, run, reply, older, budget>>
      /\ UNCHANGED <<floor, acked>>
      /\ tl' = ReplaceKnown(tl, r.seq, r.content)
  BY DEF ResultArrives, ghosts
<1>5. /\ IsTimeline(tl', 1..LastSequence)
      /\ tl'.visible = tl.visible /\ tl'.accepted = tl.accepted /\ tl'.buffered = tl.buffered
      /\ tl'.cursor = tl.cursor /\ tl'.before = tl.before /\ tl'.more = tl.more
  BY <1>1, <1>2, <1>4, ReplaceKnownProperties
<1>6. Buffered(tl') /\ Holds(tl', acked')
  BY <1>1, <1>4, <1>5 DEF Buffered, Holds
<1>7. ViewInv'
  BY <1>1, <1>4, <1>5, <1>6, ViewMoves
<1> QED BY <1>1, <1>3, <1>4, <1>5, <1>7, FrameStep

\* An acceptance shows an own message before the cursor, moves the cursor like a
\* live message, or waits.
LEMMA AckMoves ==
    ASSUME IInv, NEW s \in Sequences, AckArrives(s)
    PROVE  /\ UNCHANGED <<log, own, conn, phase, through, stored, run, reply, older, budget>>
           /\ UNCHANGED floor /\ acked' = acked \cup {s} /\ s \in own
           /\ IsTimeline(tl', 1..LastSequence) /\ Buffered(tl')
           /\ Holds(tl', acked \cup {s})
           /\ tl'.before = tl.before /\ tl'.more = tl.more
           /\ tl.cursor = Null => tl'.cursor = Null /\ tl'.visible = tl.visible
           /\ tl.cursor # Null =>
                 /\ tl'.cursor # Null
                 /\ IF s <= tl.cursor
                    THEN tl'.cursor = tl.cursor /\ tl'.visible = tl.visible \cup {s}
                    ELSE Advances(tl, tl')
<1>1. /\ LastSequence \in Nat /\ s \in 1..LastSequence
      /\ IsTimeline(tl, 1..LastSequence) /\ Buffered(tl) /\ Holds(tl, acked)
      /\ tl.cursor = Null => tl.visible = {}
  BY InvariantFacts
<1>2. log[s] \in Content
  BY ElementOfSeq DEF IInv, TypeOK, ServerTypeOK, Sequences, LastSequence
<1>3. AckContents(s) \subseteq Content
  <2>1. Original \in Content /\ [log[s] EXCEPT !.at = 0] \in Content
    BY <1>2 DEF Original, Content
  <2> QED BY <2>1 DEF AckContents
<1>4. PICK c \in Content : tl' = ApplyAccepted(tl, s, c)
  BY <1>3 DEF AckArrives
<1>5. /\ UNCHANGED <<log, own, conn, phase, through, stored, run, reply, older, budget>>
      /\ UNCHANGED floor /\ acked' = acked \cup {s} /\ s \in own
  BY DEF AckArrives, server
<1>6. /\ IsTimeline(tl', 1..LastSequence) /\ Buffered(tl')
      /\ Holds(tl', acked \cup {s})
      /\ tl'.before = tl.before /\ tl'.more = tl.more
      /\ tl.cursor = Null => tl'.cursor = Null /\ tl'.visible = tl.visible
      /\ tl.cursor # Null =>
            /\ tl'.cursor # Null
            /\ IF s <= tl.cursor
               THEN tl'.cursor = tl.cursor /\ tl'.visible = tl.visible \cup {s}
               ELSE Advances(tl, tl')
  BY <1>1, <1>4, ApplyAcceptedProperties
<1> QED BY <1>5, <1>6

\* An acceptance keeps the invariant.
LEMMA AckStep ==
    ASSUME IInv, NEW s \in Sequences, AckArrives(s)
    PROVE  IInv'
<1>1. LastSequence \in Nat /\ s \in 1..LastSequence /\ tl.cursor \in (0..LastSequence) \cup {Null}
  BY InvariantFacts
<1>2. /\ UNCHANGED <<log, conn, phase, through, stored, run, reply, older, budget>>
      /\ UNCHANGED floor /\ acked' = acked \cup {s} /\ s \in own
  BY AckMoves
<1>3. ServerTypeOK' /\ HistoryTypeOK'
  BY <1>2 DEF AckArrives, server, budget, IInv, TypeOK, ServerTypeOK, HistoryTypeOK, Sequences,
              LastSequence
<1>4. /\ IsTimeline(tl', 1..LastSequence) /\ Buffered(tl')
      /\ Holds(tl', acked \cup {s})
      /\ tl'.before = tl.before /\ tl'.more = tl.more
      /\ tl.cursor = Null => tl'.cursor = Null /\ tl'.visible = tl.visible
      /\ tl.cursor # Null =>
            /\ tl'.cursor # Null
            /\ IF s <= tl.cursor
               THEN tl'.cursor = tl.cursor /\ tl'.visible = tl.visible \cup {s}
               ELSE Advances(tl, tl')
  BY AckMoves
<1>5. /\ tl'.cursor = Null <=> tl.cursor = Null
      /\ tl'.cursor \in (0..LastSequence) \cup {Null} /\ tl'.cursor >= tl.cursor
  BY <1>1, <1>4 DEF IsTimeline, Advances
<1>6. tl.cursor # Null =>
          /\ tl.visible \cup ((tl.cursor + 1)..tl'.cursor) \subseteq tl'.visible
          /\ tl'.visible \subseteq tl.visible \cup ((tl.cursor + 1)..tl'.cursor) \cup acked'
  BY <1>1, <1>2, <1>4, <1>5 DEF Advances
<1>7. ViewInv'
  BY <1>1, <1>2, <1>4, <1>5, <1>6, ViewMoves
<1> QED BY <1>2, <1>3, <1>5, <1>7, FrameStep
-----------------------------------------------------------------------------
(***************************************************************************)
(* The connection and the coroutine, while the view stands still           *)
(***************************************************************************)

\* The run, the page that answers it and the waiters.
RunInv ==
    /\ ConnectionTypeOK
    /\ phase \in Phases
    /\ IsCursor(through)
    /\ stored \in StoredCursors
    /\ stored.cursor <= tl.cursor
    /\ stored.through # Null => stored.cursor <= stored.through
    /\ RunFits(run, tl)
    /\ IsPage(reply)
    /\ reply # NoPage => run.pc \in {"latest", "sync"}
    /\ reply # NoPage /\ run.pc = "latest" => LatestPageFits(reply)
    /\ reply # NoPage /\ run.pc = "sync" => SyncPageFits(reply, run.after)
    /\ ~attached => run = NoRun /\ reply = NoPage /\ older = NoPage

\* The run's part of the invariant.
LEMMA RunInvHolds == IInv => RunInv
BY DEF IInv, TypeOK, SessionTypeOK, RunInv, PagesFit, SessionResumes, StoredCursorIsValid

\* The parts make up the invariant.
LEMMA InvariantParts ==
    ASSUME ServerTypeOK', HistoryTypeOK', ViewInv', RunInv'
    PROVE  IInv'
BY DEF IInv, TypeOK, SessionTypeOK, ViewInv, RunInv, PagesFit, SessionResumes, StoredCursorIsValid, RunFits

\* The absence of a page has the type of a page.
LEMMA NoPageIsPage == IsPage(NoPage) /\ IsPage(NoPage)'
BY DEF IsPage, NoPage, IsContentOf

\* The start of a session begins a run, or waits for the connection.
LEMMA StartStep ==
    ASSUME IInv, Start
    PROVE  IInv'
<1>1. /\ UNCHANGED <<log, own, fanout, results, tl, through, stored, reply, older>>
      /\ UNCHANGED <<floor, acked, lost, anchored, owed, drops, errors, reopens>>
      /\ attached' = TRUE /\ ~attached
  BY DEF Start, server, ghosts, budget
<1>2. /\ LastSequence \in Nat /\ LastSequence' = LastSequence /\ Sequences' = Sequences
      /\ tl.cursor \in (0..LastSequence) \cup {Null} /\ IsCursor(through)
  BY <1>1, InvariantFacts DEF LastSequence, Sequences
<1>3. RunInv /\ run = NoRun /\ reply = NoPage
  BY <1>1, RunInvHolds DEF RunInv
<1>4. RunFits(run', tl) /\ phase' \in Phases /\ ConnectionTypeOK'
  <2>1. CASE Up(link)
    <3> DEFINE first == Bootstrap(tl, through, link)
    <3>1. OutcomeFits(first, tl)
      BY <1>2, BootstrapFits
    <3>2. /\ run' = first.run /\ phase' = first.phase
          /\ drain' \in {"awaiting", "idle"} /\ start' \in {"run", "none"} /\ link' = link
      BY <2>1 DEF Start
    <3> HIDE DEF first
    <3> QED BY <1>1, <1>3, <3>1, <3>2 DEF OutcomeFits, RunInv, ConnectionTypeOK
  <2>2. CASE ~Up(link)
    BY <1>1, <1>3, <2>2 DEF Start, RunInv, ConnectionTypeOK
  <2> QED BY <2>1, <2>2
<1>5. RunInv'
  BY <1>1, <1>2, <1>3, <1>4 DEF RunInv, RunFits, IsPage, IsCursor, StoredCursors
<1>6. ServerTypeOK' /\ HistoryTypeOK'
  BY <1>1, <1>2 DEF IInv, TypeOK, ServerTypeOK, HistoryTypeOK
<1>7. ViewInv'
  BY <1>1, ViewInvHolds, ViewKept
<1> QED BY <1>5, <1>6, <1>7, InvariantParts
\* A step of the connection after which no page is pending but the one that
\* was; the server, the view and the watermark stay.
LEMMA ConnectionStep ==
    ASSUME IInv, UNCHANGED <<log, tl, floor, acked, older, through, stored, reply>>,
           ServerTypeOK', HistoryTypeOK', ConnectionTypeOK', phase' \in Phases,
           UNCHANGED attached,
           \/ run' = run
           \/ run = NoRun /\ attached /\ RunFits(run', tl)
    PROVE  IInv'
<1>1. LastSequence' = LastSequence /\ Sequences' = Sequences
  BY DEF LastSequence, Sequences
<1>2. RunInv
  BY RunInvHolds
<1>3. RunFits(run', tl) /\ (run = NoRun => reply = NoPage)
  BY <1>2 DEF RunInv, NoRun
<1>4. RunFits(run, tl)'
  BY <1>1, <1>3 DEF RunFits
<1>5. RunInv'
  BY <1>1, <1>2, <1>3, <1>4
     DEF RunInv, IsPage, IsCursor, StoredCursors, LatestPageFits, SyncPageFits
<1>6. ViewInv'
  BY ViewInvHolds, ViewKept
<1> QED BY <1>5, <1>6, InvariantParts

\* Joining an active bootstrap or beginning a new one.
LEMMA JoinedRunFits ==
    ASSUME IInv, NEW l,
           NEW first, first = IF run = NoRun THEN Bootstrap(tl, through, l)
                                             ELSE [run |-> run, phase |-> phase]
    PROVE  /\ OutcomeFits(first, tl)
           /\ run # NoRun => first.run = run
BY InvariantFacts, BootstrapFits DEF OutcomeFits, IInv, TypeOK, SessionTypeOK

\* A retry begins a run, or joins the active one.
LEMMA RetryRecoveryStep ==
    ASSUME IInv, RetryRecovery
    PROVE  IInv'
<1>1. /\ UNCHANGED <<log, own, fanout, results, attached, drain, tl, through, stored, reply, older>>
      /\ UNCHANGED <<floor, acked, lost, anchored, owed, drops, errors, reopens>>
      /\ attached
  BY DEF RetryRecovery, server, ghosts, budget
<1>2. ServerTypeOK' /\ HistoryTypeOK'
  BY <1>1 DEF IInv, TypeOK, ServerTypeOK, HistoryTypeOK, Sequences, LastSequence
<1>3. ConnectionTypeOK /\ phase \in Phases
  BY DEF IInv, TypeOK, SessionTypeOK
<1>4. CASE ~Up(link)
  <2>1. UNCHANGED <<run, phase>> /\ ConnectionTypeOK'
    BY <1>1, <1>3, <1>4 DEF RetryRecovery, ConnectionTypeOK
  <2> QED BY <1>1, <1>2, <1>3, <2>1, ConnectionStep
<1>5. CASE Up(link)
  <2> DEFINE first == IF run = NoRun THEN Bootstrap(tl, through, link)
                                     ELSE [run |-> run, phase |-> phase]
  <2>1. OutcomeFits(first, tl) /\ (run # NoRun => first.run = run)
    BY JoinedRunFits
  <2>2. /\ run' = first.run /\ phase' = first.phase
        /\ start' \in {"run", "none"} /\ link' = link
    BY <1>5 DEF RetryRecovery
  <2> HIDE DEF first
  <2>3. ConnectionTypeOK' /\ phase' \in Phases
    BY <1>1, <1>3, <2>1, <2>2 DEF ConnectionTypeOK, OutcomeFits
  <2>4. run' = run \/ (run = NoRun /\ attached /\ RunFits(run', tl))
    BY <1>1, <2>1, <2>2 DEF OutcomeFits
  <2> QED BY <1>1, <1>2, <2>3, <2>4, ConnectionStep
<1> QED BY <1>4, <1>5

\* A new connection begins a run, joins the active one or queues a recovery.
LEMMA ConnectedStep ==
    ASSUME IInv, Connected
    PROVE  IInv'
<1>1. /\ UNCHANGED <<log, own, fanout, results, attached, tl, through, stored, reply, older>>
      /\ UNCHANGED <<floor, acked, lost, anchored, drops, errors, reopens>>
      /\ link' = "ready"
  BY DEF Connected, server, budget
<1>2. ConnectionTypeOK /\ phase \in Phases /\ LastSequence \in Nat
  BY InvariantFacts DEF IInv, TypeOK, SessionTypeOK
<1>3. CASE attached
  <2> DEFINE first == IF run = NoRun THEN Bootstrap(tl, through, "ready")
                                     ELSE [run |-> run, phase |-> phase]
  <2>1. OutcomeFits(first, tl) /\ (run # NoRun => first.run = run)
    BY JoinedRunFits
  <2>2. /\ run' = first.run /\ phase' = first.phase
        /\ drain' \in {"queued", "awaiting", "idle"}
        /\ start' \in {start, "drain", "none"}
        /\ owed' \in {LastSequence, 0}
    BY <1>3 DEF Connected
  <2> HIDE DEF first
  <2>3. ServerTypeOK' /\ HistoryTypeOK'
    BY <1>1, <1>2, <2>2 DEF IInv, TypeOK, ServerTypeOK, HistoryTypeOK, Sequences, LastSequence
  <2>4. ConnectionTypeOK' /\ phase' \in Phases
    BY <1>1, <1>2, <2>1, <2>2 DEF ConnectionTypeOK, OutcomeFits
  <2>5. run' = run \/ (run = NoRun /\ attached /\ RunFits(run', tl))
    BY <1>3, <2>1, <2>2 DEF OutcomeFits
  <2> QED BY <1>1, <1>3, <2>3, <2>4, <2>5, ConnectionStep
<1>4. CASE ~attached
  <2>1. UNCHANGED <<run, phase, drain, start, owed>>
    BY <1>4 DEF Connected
  <2>2. ServerTypeOK' /\ HistoryTypeOK' /\ ConnectionTypeOK'
    BY <1>1, <1>2, <2>1 DEF IInv, TypeOK, ServerTypeOK, HistoryTypeOK, ConnectionTypeOK, Sequences,
                            LastSequence
  <2> QED BY <1>1, <1>2, <1>4, <2>1, <2>2, ConnectionStep
<1> QED BY <1>3, <1>4

\* The join changes the connection only.
LEMMA JoinHandledStep ==
    ASSUME IInv, JoinHandled
    PROVE  IInv'
<1>1. /\ UNCHANGED <<log, own, fanout, results, attached, start, drain, tl, phase, through, stored>>
      /\ UNCHANGED <<run, reply, older, floor, acked, lost, anchored, owed, drops, errors, reopens>>
      /\ link' = "joined" /\ attached
  BY DEF JoinHandled, server, session, ghosts, budget
<1>2. phase \in Phases
  BY DEF IInv, TypeOK, SessionTypeOK
<1>3. ServerTypeOK' /\ HistoryTypeOK' /\ ConnectionTypeOK'
  BY <1>1 DEF IInv, TypeOK, ServerTypeOK, HistoryTypeOK, ConnectionTypeOK, Sequences, LastSequence
<1> QED BY <1>1, <1>2, <1>3, ConnectionStep

\* A failed connection changes the phase only.
LEMMA ConnectFailsStep ==
    ASSUME IInv, ConnectFails
    PROVE  IInv'
<1>1. /\ UNCHANGED <<log, own, fanout, results, attached, drain, tl, through, stored>>
      /\ UNCHANGED <<run, reply, older, floor, acked, lost, anchored, owed, errors, reopens>>
      /\ link' = "closed" /\ drops' = drops + 1
      /\ start' \in {start, "none"}
      /\ phase' \in {phase, "retryable_failure", "authentication_failure", "protocol_failure"}
  BY DEF ConnectFails, server, ghosts
<1>2. phase \in Phases
  BY DEF IInv, TypeOK, SessionTypeOK
<1>3. ServerTypeOK' /\ HistoryTypeOK' /\ ConnectionTypeOK' /\ phase' \in Phases
  BY <1>1, <1>2 DEF IInv, TypeOK, ServerTypeOK, HistoryTypeOK, ConnectionTypeOK, Sequences,
                    LastSequence, Phases
<1> QED BY <1>1, <1>3, ConnectionStep
-----------------------------------------------------------------------------
(***************************************************************************)
(* The answers and failures of a run                                       *)
(***************************************************************************)

\* A run that goes on or settles without a change of the view.
LEMMA ContinueStep ==
    ASSUME IInv, UNCHANGED <<log, tl, floor, acked, older, attached, through>>,
           ServerTypeOK', HistoryTypeOK',
           link' \in {"closed", "connecting", "ready", "joined"}, attached,
           stored' \in StoredCursors, stored'.cursor <= tl.cursor,
           stored'.through # Null => stored'.cursor <= stored'.through,
           reply' = NoPage,
           NEW outcome, OutcomeFits(outcome, tl), NEW l,
           Continue(outcome, tl, through, l)
    PROVE  IInv'
<1>1. /\ LastSequence \in Nat /\ LastSequence' = LastSequence /\ Sequences' = Sequences
      /\ tl.cursor \in (0..LastSequence) \cup {Null} /\ IsCursor(through)
  BY InvariantFacts DEF LastSequence, Sequences
<1>2. /\ RunFits(run', tl)
      /\ phase' \in Phases
      /\ start' \in {"none", "connecting", "run", "drain"}
      /\ drain' \in {"idle", "awaiting", "queued"}
  BY <1>1, ContinueFits DEF IInv, TypeOK
<1>3. ConnectionTypeOK'
  BY <1>2 DEF ConnectionTypeOK, IInv, TypeOK
<1>4. RunFits(run, tl)'
  BY <1>1, <1>2 DEF RunFits
<1>5. IsPage(reply)'
  BY NoPageIsPage DEF IsPage
<1>6. RunInv'
  BY <1>1, <1>2, <1>3, <1>4, <1>5 DEF RunInv, IsCursor, StoredCursors
<1>7. ViewInv'
  BY ViewInvHolds, ViewKept
<1> QED BY <1>6, <1>7, InvariantParts

\* What the invariant says of the cursor storage.
LEMMA StoredFacts ==
    ASSUME IInv
    PROVE  /\ stored \in StoredCursors /\ stored.cursor <= tl.cursor
           /\ stored.through # Null => stored.cursor <= stored.through
           /\ run # NoRun => attached
           /\ \A state \in {"idle", "recovery_pending"} :
                 /\ Saved(tl, through, state) \in StoredCursors
                 /\ Saved(tl, through, state).cursor = tl.cursor
                 /\ Saved(tl, through, state).through = through
                 /\ tl.cursor \in Int
BY InvariantFacts DEF IInv, TypeOK, SessionTypeOK, SessionResumes, StoredCursorIsValid,
                       Saved, StoredCursors, IsCursor

\* A closed socket ends a pending recovery.
LEMMA DisconnectStep ==
    ASSUME IInv, Disconnect
    PROVE  IInv'
<1>1. /\ UNCHANGED <<log, own, fanout, attached, tl, through, stored, older>>
      /\ UNCHANGED <<floor, acked, lost, owed, errors, reopens>>
      /\ link' = "connecting" /\ results' = {} /\ anchored' = FALSE /\ drops' = drops + 1
  BY DEF Disconnect
<1>2. ServerTypeOK'
  BY <1>1 DEF IInv, TypeOK, ServerTypeOK, Sequences, LastSequence
<1>3. HistoryTypeOK'
  <2>1. anchored' \in BOOLEAN
    BY <1>1, Zenon
  <2> QED BY <1>1, <2>1 DEF IInv, TypeOK, HistoryTypeOK, Sequences, LastSequence
<1>4. CASE run.pc = "sync"
  <2>1. run # NoRun
    BY <1>4 DEF NoRun
  <2>2. reply' = NoPage /\ Continue(Settled("retryable_failure"), tl, through, "connecting")
    BY <1>4 DEF Disconnect
  <2>3. OutcomeFits(Settled("retryable_failure"), tl)
    BY SettledFits DEF Phases
  <2> QED BY <1>1, <1>2, <1>3, <2>1, <2>2, <2>3, StoredFacts, ContinueStep
<1>5. CASE run.pc # "sync"
  <2>1. /\ phase' \in {phase, "retryable_failure"}
        /\ UNCHANGED <<run, reply, start, drain>>
    BY <1>5 DEF Disconnect
  <2>2. ConnectionTypeOK' /\ phase' \in Phases
    BY <1>1, <2>1 DEF IInv, TypeOK, SessionTypeOK, ConnectionTypeOK, Phases
  <2> QED BY <1>1, <1>2, <1>3, <2>1, <2>2, ConnectionStep
<1> QED BY <1>4, <1>5

\* What the steps that end or resume a request have in common.
LEMMA RunEndsStep ==
    ASSUME IInv, UNCHANGED <<log, own, fanout, results, link, attached, tl, through, older>>,
           UNCHANGED <<floor, acked, lost, anchored, owed, drops, reopens>>,
           errors' \in Nat, run # NoRun, reply' = NoPage,
           stored' \in StoredCursors, stored'.cursor <= tl.cursor,
           stored'.through # Null => stored'.cursor <= stored'.through,
           NEW outcome, OutcomeFits(outcome, tl),
           Continue(outcome, tl, through, link)
    PROVE  IInv'
<1>1. ServerTypeOK' /\ HistoryTypeOK'
  BY DEF IInv, TypeOK, ServerTypeOK, HistoryTypeOK, Sequences, LastSequence
<1>2. link' \in {"closed", "connecting", "ready", "joined"} /\ attached
  BY StoredFacts DEF IInv, TypeOK, ConnectionTypeOK
<1> QED BY <1>1, <1>2, ContinueStep

\* A failed request ends its run.
LEMMA RequestFailsStep ==
    ASSUME IInv, LatestFails \/ SyncFails
    PROVE  IInv'
<1>1. /\ UNCHANGED <<log, own, fanout, results, link, attached, tl, through, stored, older>>
      /\ UNCHANGED <<floor, acked, lost, anchored, owed, drops, reopens>>
      /\ errors' = errors + 1 /\ run # NoRun /\ reply' = NoPage
  BY DEF LatestFails, SyncFails, server, ghosts, NoRun
<1>2. PICK ph \in {"retryable_failure", "stream_unavailable", "protocol_failure"} :
        Continue(Settled(ph), tl, through, link)
  BY DEF LatestFails, SyncFails
<1>3. OutcomeFits(Settled(ph), tl)
  BY SettledFits DEF Phases
<1>4. errors' \in Nat
  BY <1>1 DEF IInv, TypeOK, HistoryTypeOK
<1> QED BY <1>1, <1>2, <1>3, <1>4, StoredFacts, RunEndsStep

\* A rate-limited run stores its cursor and waits, or ends.
LEMMA RateLimitedStep ==
    ASSUME IInv, SyncRateLimited
    PROVE  IInv'
<1>1. /\ UNCHANGED <<log, own, fanout, results, link, attached, tl, through, reply, older>>
      /\ UNCHANGED <<floor, acked, lost, anchored, owed, drops, reopens>>
      /\ errors' = errors + 1 /\ run # NoRun /\ reply = NoPage
      /\ run.pc = "sync"
  BY DEF SyncRateLimited, server, ghosts, NoRun
<1>2. errors' \in Nat
  BY <1>1 DEF IInv, TypeOK, HistoryTypeOK
<1>3. tl.cursor # Null
  BY <1>1 DEF IInv, RunFits
<1>4. CASE stored' = stored /\ Continue(Settled("protocol_failure"), tl, through, link)
  <2>1. OutcomeFits(Settled("protocol_failure"), tl)
    BY SettledFits DEF Phases
  <2> QED BY <1>1, <1>2, <1>4, <2>1, StoredFacts, RunEndsStep
<1>5. CASE /\ ~(through # Null /\ tl.cursor > through)
           /\ stored' = Saved(tl, through, "recovery_pending")
           /\ Continue(Suspended("delay", "recovery_pending"), tl, through, link)
  <2>1. OutcomeFits(Suspended("delay", "recovery_pending"), tl)
    BY <1>3, SuspendedFits DEF Phases
  <2>2. /\ stored' \in StoredCursors /\ stored'.cursor <= tl.cursor
        /\ stored'.through # Null => stored'.cursor <= stored'.through
    BY <1>5, StoredFacts, InvariantFacts DEF IsCursor
  <2> QED BY <1>1, <1>2, <1>5, <2>1, <2>2, RunEndsStep
<1> QED BY <1>4, <1>5 DEF SyncRateLimited

\* A run that resumes asks for the next page, or ends.
LEMMA ResumeStep ==
    ASSUME IInv, Resume
    PROVE  IInv'
<1>1. /\ UNCHANGED <<log, own, fanout, results, link, attached, tl, through, stored, reply, older>>
      /\ UNCHANGED <<floor, acked, lost, anchored, owed, drops, errors, reopens>>
      /\ run.pc \in {"delay", "yield"} /\ run # NoRun
      /\ Continue(RequestSync(tl, through, link), tl, through, link)
  BY DEF Resume, server, ghosts, budget, NoRun
<1>2. errors' \in Nat /\ reply' = NoPage
  BY <1>1, RunInvHolds DEF RunInv, IInv, TypeOK, HistoryTypeOK
<1>3. tl.cursor \in 0..LastSequence /\ LastSequence \in Nat /\ IsCursor(through)
  BY <1>1, InvariantFacts DEF IInv, RunFits
<1>4. OutcomeFits(RequestSync(tl, through, link), tl)
  BY <1>3, RequestSyncFits
<1> QED BY <1>1, <1>2, <1>4, StoredFacts, RunEndsStep
-----------------------------------------------------------------------------
(***************************************************************************)
(* The pages of the read model                                             *)
(***************************************************************************)
\* A page of the stream is well formed and holds exactly its range.
LEMMA PageProperties ==
    ASSUME IInv, NEW first, NEW last, first..last \subseteq Sequences,
           NEW watermark, IsCursor(watermark), NEW next, IsCursor(next), NEW rest,
           NEW p, p = Page(first, last, watermark, next, rest)
    PROVE  /\ IsPage(p)
           /\ DOMAIN p.content = first..last
<1>1. \A x \in Sequences : log[x] \in Content
  BY ElementOfSeq DEF IInv, TypeOK, ServerTypeOK, LastSequence, Sequences
<1>2. IsContentOf([x \in first..last |-> log[x]], Sequences)
  BY <1>1 DEF IsContentOf
<1>3. (rest > 0) \in BOOLEAN
  OBVIOUS
<1> QED BY <1>2, <1>3 DEF Page, IsPage, IsCursor

\* A page that starts at the first message is the last one.
LEMMA PageHasMore ==
    ASSUME NEW first \in Nat, NEW last, NEW watermark, NEW next, NEW p,
           NEW rest, p = Page(first, last, watermark, next, rest), rest = first - 1
    PROVE  p.more <=> first > 1
<1> DEFINE b == rest > 0
<1>1. b \in BOOLEAN /\ (b <=> first > 1)
  OBVIOUS
<1>2. p.more = b
  BY Zenon DEF Page
<1> HIDE DEF b
<1> QED BY <1>1, <1>2, Zenon

\* load-latest answers with pages that fit the latest query.
LEMMA LatestPagesFit ==
    ASSUME IInv, NEW p \in LatestPages
    PROVE  IsPage(p) /\ LatestPageFits(p)
<1>1. LastSequence \in Nat
  BY InvariantFacts
<1>2. CASE LastSequence = 0 /\ p = EmptyBackwardPage(0)
  <2>1. p = [content |-> [s \in {} |-> Original], through |-> 0, next |-> Null, more |-> FALSE]
    BY <1>2 DEF EmptyBackwardPage, NoPage
  <2>2. /\ p.through = 0 /\ p.next = Null /\ p.content = [s \in {} |-> Original]
        /\ p \in [content : {p.content}, through : {0}, next : {Null}, more : BOOLEAN]
    BY <2>1
  <2>3. ~p.more
    BY <2>1, Zenon
  <2> QED BY <1>1, <2>2, <2>3 DEF IsPage, IsContentOf, LatestPageFits
<1>3. CASE LastSequence # 0 /\ \E first \in 1..LastSequence :
              p = BackwardPage(first, LastSequence, LastSequence)
  <2>1. PICK first, rest :
           /\ p = Page(first, LastSequence, LastSequence, first, rest)
           /\ first \in 1..LastSequence /\ rest = first - 1
    BY <1>3 DEF BackwardPage
  <2>2. IsCursor(first) /\ IsCursor(LastSequence) /\ first..LastSequence \subseteq Sequences
    BY <1>1, <1>3, <2>1 DEF IsCursor, Sequences
  <2>3. /\ IsPage(p) /\ DOMAIN p.content = first..LastSequence
        /\ p.through = LastSequence /\ p.next = first
    <3>1. p = Page(first, LastSequence, LastSequence, first, rest)
      BY <2>1
    <3>2. IsPage(p) /\ DOMAIN p.content = first..LastSequence
      BY <2>2, <3>1, PageProperties
    <3>3. p.through = LastSequence /\ p.next = first
      BY <3>1 DEF Page
    <3> QED BY <3>2, <3>3
  <2>4. p.more <=> first > 1
    BY <1>1, <2>1, PageHasMore
  <2> QED BY <1>1, <2>1, <2>3, <2>4 DEF LatestPageFits
<1> QED BY <1>2, <1>3 DEF LatestPages, BackwardStarts

\* load-older answers with pages that end just before the window.
LEMMA OlderPagesFit ==
    ASSUME IInv, tl.before # Null, tl.more, NEW p \in OlderPages(tl.before)
    PROVE  IsPage(p) /\ OlderPageFits(p)
<1>1. LastSequence \in Nat /\ tl.before \in 1..LastSequence
  BY InvariantFacts
<1>2. tl.before = floor /\ floor > 1
  BY DEF IInv, HistoryMeetsView
<1>3. PICK first, rest :
         /\ p = Page(first, floor - 1, 0, first, rest)
         /\ first \in 1..(floor - 1) /\ rest = first - 1
  BY <1>1, <1>2 DEF OlderPages, BackwardStarts, BackwardPage
<1>4. IsCursor(first) /\ IsCursor(0) /\ first..(floor - 1) \subseteq Sequences
  BY <1>1, <1>2, <1>3 DEF IsCursor, Sequences
<1>5. /\ IsPage(p) /\ DOMAIN p.content = first..(floor - 1)
      /\ p.next = first
  <2>1. p = Page(first, floor - 1, 0, first, rest)
    BY <1>3
  <2>2. IsPage(p) /\ DOMAIN p.content = first..(floor - 1)
    BY <1>4, <2>1, PageProperties
  <2>3. p.next = first
    BY <2>1 DEF Page
  <2> QED BY <2>2, <2>3
<1>6. p.more <=> first > 1
  BY <1>1, <1>2, <1>3, PageHasMore
<1> QED BY <1>1, <1>2, <1>3, <1>5, <1>6 DEF OlderPageFits

\* sync-after answers a valid request with pages that begin after its cursor.
LEMMA SyncPagesFit ==
    ASSUME IInv, NEW after \in 0..LastSequence, NEW limit, IsCursor(limit),
           ~InvalidSyncCursor(after, limit), NEW p \in SyncPages(after, limit)
    PROVE  IsPage(p) /\ SyncPageFits(p, after)
<1> DEFINE W == Watermark(limit)
<1>1. LastSequence \in Nat
  BY InvariantFacts
<1>2. W \in after..LastSequence
  BY <1>1 DEF Watermark, InvalidSyncCursor, IsCursor, Sequences
<1>a. PICK last \in after..W : \E rest : p = Page(after + 1, last, W, last, rest)
  <2> HIDE DEF W
  <2>1. CASE after = W /\ p = Page(after + 1, after, W, W, 0)
    <3>1. p = Page(after + 1, after, W, after, 0)
      BY <2>1
    <3> QED BY <1>2, <3>1
  <2>2. CASE \E last \in (after + 1)..W : p = Page(after + 1, last, W, last, W - last)
    BY <1>2, <2>2
  <2> QED BY <2>1, <2>2 DEF SyncPages, W
<1>3. PICK rest : p = Page(after + 1, last, W, last, rest)
  BY <1>a
<1> HIDE DEF W
<1>4. IsCursor(last) /\ IsCursor(W) /\ (after + 1)..last \subseteq Sequences
  BY <1>1, <1>2 DEF IsCursor, Sequences
<1>5. IsPage(p) /\ DOMAIN p.content = (after + 1)..last
  BY <1>3, <1>4, PageProperties
<1>6. p.next = last /\ p.through = W
  BY <1>3 DEF Page
<1> QED BY <1>1, <1>2, <1>5, <1>6 DEF SyncPageFits

\* A page reaches the run that asked for it.
LEMMA AnswerStep ==
    ASSUME IInv, UNCHANGED <<log, own, fanout, results, link, attached, start, drain>>,
           UNCHANGED <<tl, phase, through, stored, run, older>>,
           UNCHANGED <<floor, acked, lost, owed, drops, errors, reopens>>,
           anchored' \in BOOLEAN, run.pc \in {"latest", "sync"}, IsPage(reply'),
           run.pc = "latest" => LatestPageFits(reply'),
           run.pc = "sync" => SyncPageFits(reply', run.after)
    PROVE  IInv'
<1>1. LastSequence' = LastSequence /\ Sequences' = Sequences
  BY DEF LastSequence, Sequences
<1>2. ServerTypeOK' /\ HistoryTypeOK'
  BY <1>1 DEF IInv, TypeOK, ServerTypeOK, HistoryTypeOK
<1>3. ViewInv'
  BY ViewInvHolds, ViewKept
<1>4. RunInv /\ attached
  BY RunInvHolds DEF RunInv, NoRun
<1>5. ConnectionTypeOK' /\ IsPage(reply)' /\ RunFits(run, tl)'
  BY <1>1, <1>4 DEF RunInv, ConnectionTypeOK, IsPage, RunFits
<1>6. /\ (reply # NoPage /\ run.pc = "latest" => LatestPageFits(reply))'
      /\ (reply # NoPage /\ run.pc = "sync" => SyncPageFits(reply, run.after))'
  BY <1>1 DEF LatestPageFits, SyncPageFits
<1>7. RunInv'
  BY <1>1, <1>4, <1>5, <1>6 DEF RunInv, IsCursor, StoredCursors
<1> QED BY <1>2, <1>3, <1>7, InvariantParts

\* The answer to the latest query keeps the invariant.
LEMMA LatestAnsweredStep ==
    ASSUME IInv, LatestAnswered
    PROVE  IInv'
<1>1. /\ UNCHANGED <<log, own, fanout, results, link, attached, start, drain>>
      /\ UNCHANGED <<tl, phase, through, stored, run, older>>
      /\ UNCHANGED <<floor, acked, lost, owed, drops, errors, reopens>>
      /\ run.pc = "latest" /\ reply' \in LatestPages
  BY DEF LatestAnswered, server, conn, budget
<1>2. anchored' \in BOOLEAN
  BY Zenon DEF LatestAnswered
<1>3. IsPage(reply') /\ LatestPageFits(reply')
  BY <1>1, LatestPagesFit
<1> QED BY <1>1, <1>2, <1>3, AnswerStep

\* The answer to a syncAfter request keeps the invariant.
LEMMA SyncAnsweredStep ==
    ASSUME IInv, SyncAnswered
    PROVE  IInv'
<1>1. /\ UNCHANGED <<log, own, fanout, results, link, attached, tl, through, stored, older>>
      /\ UNCHANGED <<floor, acked, lost, owed, drops, errors, reopens>>
      /\ run.pc = "sync" /\ run # NoRun /\ reply = NoPage
  BY DEF SyncAnswered, server, budget, NoRun
<1>2. CASE InvalidSyncCursor(run.after, run.limit)
  <2>1. /\ Continue(Settled("invalid_cursor"), tl, through, link)
        /\ reply' = NoPage /\ UNCHANGED anchored
    BY <1>1, <1>2 DEF SyncAnswered
  <2>2. OutcomeFits(Settled("invalid_cursor"), tl)
    BY SettledFits DEF Phases
  <2>3. errors' \in Nat
    BY <1>1 DEF IInv, TypeOK, HistoryTypeOK
  <2> QED BY <1>1, <2>1, <2>2, <2>3, StoredFacts, RunEndsStep
<1>3. CASE ~InvalidSyncCursor(run.after, run.limit)
  <2>1. /\ reply' \in SyncPages(run.after, run.limit)
        /\ UNCHANGED <<run, phase, start, drain>>
    BY <1>3 DEF SyncAnswered
  <2>2. anchored' \in BOOLEAN
    <3>1. anchored' = (anchored \/ run.limit = Null)
      BY <1>3 DEF SyncAnswered
    <3> QED BY <3>1, Zenon
  <2>3. run.after \in 0..LastSequence /\ IsCursor(run.limit)
    BY <1>1, InvariantFacts DEF IInv, RunFits, Runs, IsCursor
  <2>4. IsPage(reply') /\ SyncPageFits(reply', run.after)
    BY <1>3, <2>1, <2>3, SyncPagesFit
  <2> QED BY <1>1, <2>1, <2>2, <2>4, AnswerStep
<1> QED BY <1>2, <1>3

\* A page is applied, and its run goes on or settles.
LEMMA PageAppliedStep ==
    ASSUME IInv, ViewInv', UNCHANGED <<log, own, fanout, results, link, attached>>,
           HistoryTypeOK', tl'.cursor \in (0..LastSequence) \cup {Null},
           run # NoRun, reply' = NoPage, IsCursor(through'),
           stored' \in StoredCursors, stored'.cursor <= tl'.cursor,
           stored'.through # Null => stored'.cursor <= stored'.through,
           NEW outcome, OutcomeFits(outcome, tl'),
           Continue(outcome, tl', through', link)
    PROVE  IInv'
<1>1. LastSequence' = LastSequence /\ Sequences' = Sequences
  BY DEF LastSequence, Sequences
<1>2. link' = link /\ link \in {"closed", "connecting", "ready", "joined"} /\ attached
  BY StoredFacts DEF IInv, TypeOK, ConnectionTypeOK
<1>3. RunFits(run, tl)' /\ phase' \in Phases /\ ConnectionTypeOK'
  BY <1>2, RunContinues
<1>4. IsPage(reply)'
  BY NoPageIsPage DEF IsPage
<1>5. RunInv'
  BY <1>1, <1>2, <1>3, <1>4 DEF RunInv, IsCursor, StoredCursors
<1>6. ServerTypeOK'
  BY <1>1 DEF IInv, TypeOK, ServerTypeOK
<1> QED BY <1>5, <1>6, InvariantParts

\* What #persistCursor writes is a cursor of the stream.
LEMMA SavedFits ==
    ASSUME NEW t, t.cursor \in Sequences \cup {0}, NEW limit, IsCursor(limit),
           NEW state \in {"idle", "recovery_pending"}
    PROVE  /\ Saved(t, limit, state) \in StoredCursors
           /\ Saved(t, limit, state).cursor = t.cursor /\ Saved(t, limit, state).through = limit
BY DEF Saved, StoredCursors, IsCursor

\* The first page opens the view: its window ends at the delivery cursor, and
\* what else is in view is own messages that were accepted in the meantime.
LEMMA LatestMoves ==
    ASSUME IInv, LatestApplied
    PROVE  /\ tl.cursor = Null /\ older = NoPage
           /\ IsTimeline(tl', 1..LastSequence) /\ Buffered(tl') /\ Holds(tl', acked)
           /\ tl'.before = reply.next /\ tl'.more = reply.more
           /\ tl'.cursor \in 0..LastSequence
           /\ floor' \in 1..(tl'.cursor + 1)
           /\ floor'..tl'.cursor \subseteq tl'.visible
           /\ tl'.visible \subseteq (floor'..tl'.cursor) \cup {s \in acked : s <= tl'.cursor}
           /\ reply.next # Null => floor' = reply.next /\ (reply.more <=> floor' > 1)
<1>1. /\ UNCHANGED <<log, own, fanout, results, link, attached, older>>
      /\ UNCHANGED <<acked, lost, anchored, owed, drops, errors, reopens>>
      /\ run.pc = "latest" /\ run # NoRun /\ reply # NoPage /\ reply' = NoPage
      /\ tl' = ApplyLatest(tl, reply)
      /\ floor' = IF reply.next = Null THEN 1 ELSE reply.next
      /\ through' = Null /\ stored' = Saved(tl', Null, "idle")
      /\ Continue(Settled("ready"), tl', Null, link)
  BY DEF LatestApplied, server, budget, NoRun
<1>2. /\ LastSequence \in Nat /\ Sequences = 1..LastSequence
      /\ LastSequence' = LastSequence /\ Sequences' = Sequences
      /\ IsTimeline(tl, 1..LastSequence) /\ Buffered(tl) /\ Holds(tl, acked)
      /\ tl.cursor = Null => tl.visible = {}
  BY <1>1, InvariantFacts DEF LastSequence, Sequences
<1>3. tl.cursor = Null /\ tl.visible = {} /\ older = NoPage
  BY <1>1, <1>2 DEF IInv, RunFits, WindowConnects
<1>4. LatestPageFits(reply) /\ IsPage(reply)
  BY <1>1 DEF IInv, PagesFit, TypeOK, SessionTypeOK
<1>5. /\ IsContentOf(reply.content, 1..LastSequence)
      /\ reply.through \in 0..LastSequence
      /\ reply.next \in (1..LastSequence) \cup {Null}
      /\ reply.more \in BOOLEAN
  BY <1>2, <1>4 DEF LatestPageFits, IsPage
<1>6. /\ IsTimeline(tl', 1..LastSequence) /\ Buffered(tl')
      /\ Holds(tl', acked)
      /\ tl'.before = reply.next /\ tl'.more = reply.more
      /\ tl'.cursor \in reply.through..LastSequence
      /\ DOMAIN reply.content \cup ((reply.through + 1)..tl'.cursor) \subseteq tl'.visible
      /\ \A s \in tl'.visible \ (DOMAIN reply.content \cup ((reply.through + 1)..tl'.cursor)) :
            s \in tl.visible \/ (s \in tl.accepted /\ s <= reply.through)
  BY <1>1, <1>2, <1>5, ApplyLatestProperties
<1>7. /\ floor' \in 1..(reply.through + 1)
      /\ DOMAIN reply.content = floor'..reply.through
      /\ reply.next # Null => floor' = reply.next /\ (reply.more <=> floor' > 1)
  <2>1. CASE reply.next = Null
    <3>1. reply.through = 0 /\ DOMAIN reply.content = {} /\ floor' = 1
      BY <1>1, <1>2, <1>4, <2>1 DEF LatestPageFits
    <3> QED BY <2>1, <3>1
  <2>2. CASE reply.next # Null
    <3>1. /\ reply.next \in 1..reply.through /\ reply.through \in 0..LastSequence
          /\ DOMAIN reply.content = reply.next..reply.through
          /\ (reply.more <=> reply.next > 1)
      BY <1>4, <2>2 DEF LatestPageFits
    <3>2. floor' = reply.next
      BY <1>1, <2>2
    <3> QED BY <1>2, <3>1, <3>2
  <2> QED BY <2>1, <2>2
<1>8. tl.accepted \subseteq acked
  BY <1>2 DEF Holds
<1>9. tl'.visible \subseteq (floor'..tl'.cursor) \cup {s \in acked : s <= tl'.cursor}
  <2> SUFFICES ASSUME NEW s \in tl'.visible, s \notin floor'..tl'.cursor
               PROVE  s \in acked /\ s <= tl'.cursor
    OBVIOUS
  <2>1. s \in 1..LastSequence
    BY <1>6 DEF IsTimeline
  <2>2. s \notin DOMAIN reply.content \cup ((reply.through + 1)..tl'.cursor)
    BY <1>2, <1>5, <1>6, <1>7, <2>1
  <2>3. s \in tl.accepted /\ s <= reply.through
    BY <1>3, <1>6, <2>2
  <2> QED BY <1>2, <1>5, <1>6, <1>8, <2>1, <2>3
<1>10. floor'..tl'.cursor \subseteq tl'.visible
  BY <1>2, <1>5, <1>6, <1>7
<1> QED BY <1>2, <1>3, <1>5, <1>6, <1>7, <1>9, <1>10

\* The first page keeps the invariant.
LEMMA LatestAppliedStep ==
    ASSUME IInv, LatestApplied
    PROVE  IInv'
<1>1. /\ UNCHANGED <<log, own, fanout, results, link, attached, older>>
      /\ UNCHANGED <<acked, lost, anchored, owed, drops, errors, reopens>>
      /\ run # NoRun /\ reply' = NoPage
      /\ through' = Null /\ stored' = Saved(tl', Null, "idle")
      /\ Continue(Settled("ready"), tl', Null, link)
  BY DEF LatestApplied, server, budget, NoRun
<1>2. /\ LastSequence \in Nat /\ Sequences = 1..LastSequence
      /\ LastSequence' = LastSequence /\ Sequences' = Sequences
  BY <1>1, InvariantFacts DEF LastSequence, Sequences
<1>3. /\ tl.cursor = Null /\ older = NoPage
      /\ IsTimeline(tl', 1..LastSequence) /\ Buffered(tl') /\ Holds(tl', acked)
      /\ tl'.before = reply.next /\ tl'.more = reply.more
      /\ tl'.cursor \in 0..LastSequence
      /\ floor' \in 1..(tl'.cursor + 1)
      /\ floor'..tl'.cursor \subseteq tl'.visible
      /\ tl'.visible \subseteq (floor'..tl'.cursor) \cup {s \in acked : s <= tl'.cursor}
      /\ reply.next # Null => floor' = reply.next /\ (reply.more <=> floor' > 1)
  BY LatestMoves
<1>4. ViewInv'
  <2>1. NoSkippedMessage'
    BY <1>1, <1>3 DEF NoSkippedMessage
  <2>2. BufferBeyondCursor'
    BY <1>2, <1>3 DEF Buffered, BufferBeyondCursor
  <2>3. HistoryMeetsView'
    BY <1>1, <1>3 DEF HistoryMeetsView
  <2>4. WindowConnects'
    BY <1>1, <1>2, <1>3 DEF WindowConnects
  <2>5. AcceptedAreMarked'
    BY <1>1, <1>3 DEF Holds, AcceptedAreMarked
  <2>6. IsTimeline(tl, Sequences)'
    BY <1>2, <1>3
  <2>7. IsPage(older)' /\ (older # NoPage => OlderPageFits(older))'
    BY <1>1, <1>3, NoPageIsPage DEF IsPage
  <2> QED BY <2>1, <2>2, <2>3, <2>4, <2>5, <2>6, <2>7 DEF ViewInv
<1>5. HistoryTypeOK'
  BY <1>1, <1>2, <1>3 DEF IInv, TypeOK, HistoryTypeOK
<1>6. /\ tl'.cursor \in (0..LastSequence) \cup {Null}
      /\ tl'.cursor \in Sequences \cup {0} /\ tl'.cursor \in Int
  BY <1>2, <1>3
<1>7. OutcomeFits(Settled("ready"), tl')
  BY SettledFits DEF Phases
<1>8. IsCursor(Null)
  BY DEF IsCursor
<1>9. stored' \in StoredCursors /\ stored'.cursor = tl'.cursor /\ stored'.through = Null
  BY <1>1, <1>6, <1>8, SavedFits
<1>10. stored'.cursor <= tl'.cursor
  BY <1>6, <1>9
<1> QED BY <1>1, <1>4, <1>5, <1>6, <1>7, <1>8, <1>9, <1>10, PageAppliedStep

\* A page of a recovery moves the cursor over the messages it brings and the
\* buffered ones that follow them.
LEMMA SyncMoves ==
    ASSUME IInv, run.pc = "sync", reply # NoPage, ~SyncCursorMismatch(tl, run.after),
           tl' = ApplySync(tl, reply)
    PROVE  /\ tl.cursor # Null /\ tl'.cursor \in 0..LastSequence
           /\ IsTimeline(tl', 1..LastSequence) /\ Buffered(tl') /\ Holds(tl', acked)
           /\ Advances(tl, tl')
           /\ tl'.before = tl.before /\ tl'.more = tl.more
           /\ reply.more => tl'.cursor <= reply.through
<1>1. /\ LastSequence \in Nat /\ Sequences = 1..LastSequence
      /\ IsTimeline(tl, 1..LastSequence) /\ Buffered(tl) /\ Holds(tl, acked)
      /\ tl.cursor \in (0..LastSequence) \cup {Null}
  BY InvariantFacts
<1>2. SyncPageFits(reply, run.after) /\ IsPage(reply) /\ tl.cursor # Null
  BY DEF IInv, PagesFit, TypeOK, SessionTypeOK, RunFits
<1>3. /\ IsContentOf(reply.content, 1..LastSequence)
      /\ reply.next \in tl.cursor..LastSequence
      /\ DOMAIN reply.content = (tl.cursor + 1)..reply.next
  BY <1>1, <1>2 DEF SyncPageFits, IsPage, SyncCursorMismatch
<1>4. /\ IsTimeline(tl', 1..LastSequence) /\ Buffered(tl')
      /\ Holds(tl', acked)
      /\ Advances(tl, tl') /\ tl'.cursor >= reply.next
      /\ reply.more => tl'.cursor = reply.next
      /\ tl'.before = tl.before /\ tl'.more = tl.more
  BY <1>1, <1>2, <1>3, ApplySyncProperties
<1>5. tl'.cursor \in 0..LastSequence
  BY <1>1, <1>2, <1>3, <1>4 DEF IsTimeline
<1>6. reply.next <= reply.through
  BY <1>2 DEF SyncPageFits
<1> QED BY <1>2, <1>4, <1>5, <1>6

\* A page of a recovery keeps the invariant, refused or applied.
LEMMA SyncAppliedStep ==
    ASSUME IInv, NEW full \in BOOLEAN, SyncApplied(full)
    PROVE  IInv'
<1>1. /\ UNCHANGED <<log, own, fanout, results, link, attached, older>>
      /\ UNCHANGED <<floor, acked, lost, anchored, owed, drops, errors, reopens>>
      /\ run.pc = "sync" /\ run # NoRun /\ reply # NoPage /\ reply' = NoPage
  BY DEF SyncApplied, server, ghosts, budget, NoRun
<1>2. /\ LastSequence \in Nat /\ Sequences = 1..LastSequence
      /\ LastSequence' = LastSequence /\ Sequences' = Sequences
      /\ IsTimeline(tl, 1..LastSequence) /\ Buffered(tl) /\ Holds(tl, acked)
      /\ tl.cursor \in (0..LastSequence) \cup {Null}
      /\ IsCursor(through)
  BY <1>1, InvariantFacts DEF LastSequence, Sequences
<1>3. SyncPageFits(reply, run.after) /\ IsPage(reply) /\ tl.cursor # Null
  BY <1>1 DEF IInv, PagesFit, TypeOK, SessionTypeOK, RunFits
<1>4. HistoryTypeOK'
  BY <1>1, <1>2 DEF IInv, TypeOK, HistoryTypeOK
<1>5. IsCursor(reply.through) /\ IsCursor(Null)
  BY <1>3 DEF IsPage, IsCursor
<1>6. CASE /\ UNCHANGED <<tl, stored>> /\ through' \in {through, reply.through}
           /\ Continue(Settled("protocol_failure"), tl, through', link)
  <2>1. ViewInv'
    BY <1>1, <1>6, ViewInvHolds, ViewKept
  <2>2. OutcomeFits(Settled("protocol_failure"), tl')
    BY SettledFits DEF Phases
  <2>3. /\ stored' \in StoredCursors /\ stored'.cursor <= tl'.cursor
        /\ stored'.through # Null => stored'.cursor <= stored'.through
    BY <1>6, StoredFacts
  <2>4. tl'.cursor \in (0..LastSequence) \cup {Null}
    BY <1>2, <1>6
  <2>5. Continue(Settled("protocol_failure"), tl', through', link)
    BY <1>6
  <2>6. IsCursor(through')
    BY <1>2, <1>5, <1>6
  <2> QED BY <1>1, <1>4, <2>1, <2>2, <2>3, <2>4, <2>5, <2>6, PageAppliedStep
<1>7. CASE /\ ~SyncCursorMismatch(tl, run.after)
           /\ tl' = ApplySync(tl, reply)
           /\ through' = IF reply.more THEN reply.through ELSE Null
           /\ stored' = Saved(tl', through',
                              IF reply.more /\ full THEN "recovery_pending" ELSE "idle")
           /\ Continue(IF RecoveryDone(tl', reply) THEN Settled("ready")
                       ELSE IF reply.more /\ full THEN Suspended("yield", "recovery_pending")
                       ELSE RequestSync(tl', through', link),
                       tl', through', link)
  <2>1. /\ tl'.cursor \in 0..LastSequence
        /\ IsTimeline(tl', 1..LastSequence) /\ Buffered(tl')
        /\ Holds(tl', acked)
        /\ Advances(tl, tl')
        /\ tl'.before = tl.before /\ tl'.more = tl.more
        /\ reply.more => tl'.cursor <= reply.through
    BY <1>1, <1>7, SyncMoves
  <2>3. /\ tl'.cursor \in 0..LastSequence /\ tl'.cursor # Null
        /\ tl'.cursor \in (0..LastSequence) \cup {Null}
        /\ tl'.cursor \in Sequences \cup {0} /\ tl'.cursor \in Int
        /\ tl'.cursor >= tl.cursor
    BY <1>2, <1>3, <2>1 DEF IsTimeline, Advances
  <2>4. ViewInv'
    BY <1>1, <1>2, <1>3, <2>1, <2>3, ViewMoves DEF Advances
  <2>5. IsCursor(through')
    BY <1>5, <1>7
  <2>6. PICK state \in {"idle", "recovery_pending"} : stored' = Saved(tl', through', state)
    BY <1>7
  <2>7. stored' \in StoredCursors /\ stored'.cursor = tl'.cursor /\ stored'.through = through'
    BY <2>3, <2>5, <2>6, SavedFits
  <2>8. stored'.cursor <= tl'.cursor /\ (stored'.through # Null => stored'.cursor <= stored'.through)
    <3>1. through' # Null => tl'.cursor <= through'
      BY <1>7, <2>1
    <3> QED BY <2>3, <2>7, <3>1
  <2>9. PICK outcome : OutcomeFits(outcome, tl') /\ Continue(outcome, tl', through', link)
    <3>1. OutcomeFits(Settled("ready"), tl')
      BY SettledFits DEF Phases
    <3>2. OutcomeFits(Suspended("yield", "recovery_pending"), tl')
      BY <2>3, SuspendedFits DEF Phases
    <3>3. OutcomeFits(RequestSync(tl', through', link), tl')
      BY <1>2, <2>3, <2>5, RequestSyncFits
    <3> QED BY <1>7, <3>1, <3>2, <3>3
  <2> QED BY <1>1, <1>4, <2>3, <2>4, <2>5, <2>7, <2>8, <2>9, PageAppliedStep
<1>8. <1>6!1 \/ <1>7!1
  BY DEF SyncApplied
<1> QED BY <1>6, <1>7, <1>8

-----------------------------------------------------------------------------
(***************************************************************************)
(* Older history, and the end of a session                                 *)
(***************************************************************************)

\* A step of the older history: the cursor and the run stand still.
LEMMA OlderStep ==
    ASSUME IInv, ViewInv', HistoryTypeOK', UNCHANGED <<log, own, fanout, results, conn>>,
           UNCHANGED <<phase, through, stored, run, reply>>,
           tl'.cursor = tl.cursor, attached \/ older' = NoPage
    PROVE  IInv'
<1>1. /\ LastSequence' = LastSequence /\ Sequences' = Sequences
      /\ tl.cursor \in (0..LastSequence) \cup {Null} /\ LastSequence \in Nat
  BY InvariantFacts DEF LastSequence, Sequences
<1>2. ServerTypeOK'
  BY <1>1 DEF IInv, TypeOK, ServerTypeOK
<1>3. RunInv
  BY RunInvHolds
<1>4. RunFits(run, tl)'
  BY <1>1, RunKept
<1>5. ConnectionTypeOK' /\ IsPage(reply)'
  BY <1>1, <1>3 DEF RunInv, ConnectionTypeOK, conn, IsPage
<1>6. RunInv'
  BY <1>1, <1>3, <1>4, <1>5
     DEF RunInv, IsCursor, StoredCursors, conn, LatestPageFits, SyncPageFits
<1> QED BY <1>2, <1>6, InvariantParts

\* A request for older messages keeps the invariant.
LEMMA LoadOlderStep ==
    ASSUME IInv, LoadOlder
    PROVE  IInv'
<1>1. /\ UNCHANGED <<log, own, fanout, results, conn, tl, phase, through, stored, run, reply>>
      /\ UNCHANGED <<floor, acked, lost, anchored, owed, drops, errors, reopens>>
      /\ attached /\ tl.before # Null /\ tl.more
      /\ older' \in OlderPages(tl.before)
  BY DEF LoadOlder, server, ghosts, budget
<1>2. LastSequence' = LastSequence /\ Sequences' = Sequences
  BY <1>1 DEF LastSequence, Sequences
<1>3. IsPage(older') /\ OlderPageFits(older')
  BY <1>1, OlderPagesFit
<1>4. HistoryTypeOK'
  BY <1>1, <1>2 DEF IInv, TypeOK, HistoryTypeOK
<1>5. ViewInv
  BY ViewInvHolds
<1>6. IsPage(older)' /\ OlderPageFits(older)' /\ IsTimeline(tl, Sequences)'
  BY <1>1, <1>2, <1>3, <1>5 DEF IsPage, OlderPageFits, ViewInv
<1>7. HistoryMeetsView' /\ WindowConnects'
  BY <1>1, <1>5, <1>6 DEF ViewInv, HistoryMeetsView, WindowConnects, OlderPageFits
<1>8. (NoSkippedMessage /\ BufferBeyondCursor /\ AcceptedAreMarked)'
  BY <1>1, <1>5 DEF ViewInv, NoSkippedMessage, BufferBeyondCursor, AcceptedAreMarked
<1>9. ViewInv'
  BY <1>6, <1>7, <1>8 DEF ViewInv
<1> QED BY <1>1, <1>4, <1>9, OlderStep

\* A page of older messages ends just before the window and extends it.
LEMMA OlderMoves ==
    ASSUME IInv, OlderApplied
    PROVE  /\ tl.cursor # Null /\ floor \in 1..(tl.cursor + 1)
           /\ older.next \in 1..floor /\ floor' = older.next
           /\ (older.more <=> older.next > 1)
           /\ IsTimeline(tl', 1..LastSequence) /\ Buffered(tl')
           /\ Holds(tl', acked)
           /\ tl'.visible = tl.visible \cup (older.next..(floor - 1))
           /\ tl'.cursor = tl.cursor
           /\ tl'.before = older.next /\ tl'.more = older.more
<1>1. /\ UNCHANGED <<log, own, fanout, results, conn, phase, through, stored, run, reply>>
      /\ UNCHANGED <<acked, lost, anchored, owed, drops, errors, reopens>>
      /\ older # NoPage /\ older' = NoPage
      /\ tl' = ApplyOlder(tl, older)
      /\ floor' = IF older.next = Null THEN floor ELSE older.next
  BY DEF OlderApplied, server, budget
<1>2. /\ LastSequence \in Nat /\ Sequences = 1..LastSequence
      /\ LastSequence' = LastSequence /\ Sequences' = Sequences
      /\ IsTimeline(tl, 1..LastSequence) /\ Buffered(tl) /\ Holds(tl, acked)
      /\ tl.cursor \in (0..LastSequence) \cup {Null}
  BY <1>1, InvariantFacts DEF LastSequence, Sequences
<1>3. OlderPageFits(older) /\ IsPage(older) /\ NoSkippedMessage /\ WindowConnects
  BY <1>1 DEF IInv, PagesFit, TypeOK, SessionTypeOK
<1>4. tl.cursor # Null /\ floor \in 1..(tl.cursor + 1)
  BY <1>1, <1>3 DEF WindowConnects
<1>5. /\ older.next \in 1..floor /\ floor' = older.next
      /\ DOMAIN older.content = older.next..(floor - 1)
      /\ older.next \in (1..LastSequence) \cup {Null}
      /\ (older.more <=> older.next > 1) /\ older.more \in BOOLEAN
      /\ IsContentOf(older.content, 1..LastSequence)
  BY <1>1, <1>2, <1>3, <1>4 DEF OlderPageFits, IsPage
<1>6. /\ IsTimeline(tl', 1..LastSequence) /\ Buffered(tl')
      /\ Holds(tl', acked)
      /\ tl'.visible = tl.visible \cup DOMAIN older.content
      /\ tl'.cursor = tl.cursor
      /\ tl'.before = older.next /\ tl'.more = older.more
  <2>1. /\ IsContentOf(older.content, 1..LastSequence)
        /\ older.next \in (1..LastSequence) \cup {Null} /\ older.more \in BOOLEAN
    BY <1>5
  <2>2. IsTimeline(tl, 1..LastSequence) /\ Buffered(tl) /\ Holds(tl, acked) /\ LastSequence \in Nat
    BY <1>2
  <2>3. tl' = ApplyOlder(tl, older)
    BY <1>1
  <2> QED BY <2>1, <2>2, <2>3, ApplyOlderProperties
<1> QED BY <1>4, <1>5, <1>6

\* A page of older messages keeps the invariant.
LEMMA OlderAppliedStep ==
    ASSUME IInv, OlderApplied
    PROVE  IInv'
<1>1. /\ UNCHANGED <<log, own, fanout, results, conn, phase, through, stored, run, reply>>
      /\ UNCHANGED <<acked, lost, anchored, owed, drops, errors, reopens>>
      /\ older' = NoPage
  BY DEF OlderApplied, server, budget
<1>2. /\ LastSequence \in Nat /\ Sequences = 1..LastSequence
      /\ LastSequence' = LastSequence /\ Sequences' = Sequences
      /\ tl.cursor \in (0..LastSequence) \cup {Null}
  BY <1>1, InvariantFacts DEF LastSequence, Sequences
<1>3. /\ tl.cursor # Null /\ floor \in 1..(tl.cursor + 1)
      /\ older.next \in 1..floor /\ floor' = older.next
      /\ (older.more <=> older.next > 1)
      /\ IsTimeline(tl', 1..LastSequence) /\ Buffered(tl')
      /\ Holds(tl', acked)
      /\ tl'.visible = tl.visible \cup (older.next..(floor - 1))
      /\ tl'.cursor = tl.cursor
      /\ tl'.before = older.next /\ tl'.more = older.more
  BY OlderMoves
<1>4. NoSkippedMessage
  BY DEF IInv
<1>5. ViewInv'
  <2>1. NoSkippedMessage'
    BY <1>1, <1>2, <1>3, <1>4 DEF NoSkippedMessage
  <2>2. BufferBeyondCursor'
    BY <1>3 DEF Buffered, BufferBeyondCursor
  <2>3. HistoryMeetsView'
    BY <1>1, <1>3 DEF HistoryMeetsView
  <2>4. WindowConnects'
    BY <1>1, <1>2, <1>3 DEF WindowConnects
  <2>5. AcceptedAreMarked'
    BY <1>1, <1>3 DEF Holds, AcceptedAreMarked
  <2>6. IsTimeline(tl, Sequences)'
    BY <1>2, <1>3
  <2>7. IsPage(older)' /\ (older # NoPage => OlderPageFits(older))'
    BY <1>1, NoPageIsPage DEF IsPage
  <2> QED BY <2>1, <2>2, <2>3, <2>4, <2>5, <2>6, <2>7 DEF ViewInv
<1>6. HistoryTypeOK'
  BY <1>1, <1>2, <1>3 DEF IInv, TypeOK, HistoryTypeOK
<1> QED BY <1>1, <1>3, <1>5, <1>6, OlderStep

\* A failed request for older messages keeps the invariant.
LEMMA OlderFailsStep ==
    ASSUME IInv, OlderFails
    PROVE  IInv'
<1>1. /\ UNCHANGED <<log, own, fanout, results, conn, tl, phase, through, stored, run, reply>>
      /\ UNCHANGED <<floor, acked, lost, anchored, owed, drops, reopens>>
      /\ errors' = errors + 1 /\ older' = NoPage
  BY DEF OlderFails, server, ghosts
<1>2. LastSequence' = LastSequence /\ Sequences' = Sequences
  BY <1>1 DEF LastSequence, Sequences
<1>3. HistoryTypeOK'
  BY <1>1, <1>2 DEF IInv, TypeOK, HistoryTypeOK
<1>4. ViewInv
  BY ViewInvHolds
<1>5. IsPage(older)' /\ IsTimeline(tl, Sequences)'
  BY <1>1, <1>2, <1>4, NoPageIsPage DEF IsPage, ViewInv
<1>6. ViewInv'
  BY <1>1, <1>4, <1>5 DEF ViewInv, NoSkippedMessage, BufferBeyondCursor, HistoryMeetsView,
                          WindowConnects, AcceptedAreMarked
<1> QED BY <1>1, <1>3, <1>6, OlderStep

\* A session that resumes from the stored cursor satisfies the invariant.
LEMMA ReopenStep ==
    ASSUME IInv, NEW clearCursor \in BOOLEAN, Reopen(clearCursor)
    PROVE  IInv'
<1>1. /\ UNCHANGED <<log, own, fanout, results, link, lost, drops, errors>>
      /\ reopens' = reopens + 1 /\ attached' = FALSE /\ start' = "none" /\ drain' = "idle"
      /\ stored' \in {NothingStored, stored}
      /\ tl' = IF stored'.cursor = Null THEN EmptyTimeline ELSE RestoredTimeline(stored'.cursor)
      /\ through' = stored'.through /\ phase' = stored'.state
      /\ run' = NoRun /\ reply' = NoPage /\ older' = NoPage
      /\ floor' = IF stored'.cursor = Null THEN 1 ELSE stored'.cursor + 1
      /\ acked' = {} /\ anchored' = FALSE /\ owed' = 0
  BY DEF Reopen, server
<1>2. /\ LastSequence \in Nat /\ Sequences = 1..LastSequence
      /\ LastSequence' = LastSequence /\ Sequences' = Sequences
  BY <1>1, InvariantFacts DEF LastSequence, Sequences
<1>3. stored' \in StoredCursors /\ (stored'.through # Null => stored'.cursor <= stored'.through)
  BY <1>1, StoredFacts DEF NothingStored, StoredCursors
<1>4. stored'.cursor \in (0..LastSequence) \cup {Null}
  BY <1>2, <1>3 DEF StoredCursors
<1>5. /\ tl'.cursor = stored'.cursor /\ tl'.before = Null
      /\ tl'.visible = {} /\ tl'.accepted = {} /\ tl'.buffered = {}
      /\ IsTimeline(tl', 1..LastSequence)
  <2> DEFINE c == stored'.cursor
  <2>1. tl' = [records |-> [s \in {} |-> Original], visible |-> {}, accepted |-> {},
               buffered |-> {}, cursor |-> c, before |-> Null, more |-> FALSE]
    BY <1>1 DEF RestoredTimeline, EmptyTimeline
  <2>2. FALSE \in BOOLEAN /\ c \in (1..LastSequence) \cup {0, Null}
    BY <1>4
  <2> HIDE DEF c
  <2>3. tl'.records = [s \in {} |-> Original] /\ tl'.cursor = c
    BY <2>1
  <2>4. DOMAIN tl'.records = {}
    BY <2>3
  <2>5. IsContentOf(tl'.records, 1..LastSequence)
    BY <2>4 DEF IsContentOf
  <2>6. tl'.before = Null /\ tl'.visible = {} /\ tl'.accepted = {} /\ tl'.buffered = {}
    BY <2>1
  <2>7. tl' \in [records : {tl'.records}, visible : SUBSET (1..LastSequence),
                 accepted : SUBSET (1..LastSequence), buffered : SUBSET (1..LastSequence),
                 cursor : (1..LastSequence) \cup {0, Null},
                 before : (1..LastSequence) \cup {Null}, more : BOOLEAN]
    BY <2>1, <2>2, <2>3
  <2>8. IsTimeline(tl', 1..LastSequence)
    BY <2>5, <2>6, <2>7 DEF IsTimeline
  <2> QED BY <2>3, <2>6, <2>8 DEF c
<1>6. ServerTypeOK' /\ ConnectionTypeOK' /\ HistoryTypeOK'
  <2>1. attached' \in BOOLEAN /\ anchored' \in BOOLEAN
    BY <1>1, Zenon
  <2> QED BY <1>1, <1>2, <1>4, <2>1
          DEF IInv, TypeOK, ServerTypeOK, ConnectionTypeOK, HistoryTypeOK
<1>7. ViewInv'
  <2>1. NoSkippedMessage'
    BY <1>1, <1>4, <1>5 DEF NoSkippedMessage
  <2>2. BufferBeyondCursor' /\ HistoryMeetsView' /\ AcceptedAreMarked'
    BY <1>1, <1>5 DEF BufferBeyondCursor, HistoryMeetsView, AcceptedAreMarked
  <2>3. WindowConnects'
    BY <1>1, <1>4, <1>5 DEF WindowConnects
  <2>4. IsTimeline(tl, Sequences)' /\ IsPage(older)' /\ (older # NoPage => OlderPageFits(older))'
    BY <1>1, <1>2, <1>5, NoPageIsPage DEF IsPage
  <2> QED BY <2>1, <2>2, <2>3, <2>4 DEF ViewInv
<1>8. RunInv'
  <2>1. IsPage(reply)' /\ RunFits(run, tl)'
    BY <1>1, NoPageIsPage, NoRunFits DEF IsPage, RunFits, NoRun
  <2>2. phase' \in Phases /\ IsCursor(through)' /\ stored'.cursor <= tl'.cursor
    BY <1>1, <1>2, <1>3, <1>4, <1>5 DEF StoredCursors, IsCursor, Phases
  <2>3. (stored \in StoredCursors)'
    BY <1>2, <1>3 DEF StoredCursors
  <2> QED BY <1>1, <1>3, <1>6, <2>1, <2>2, <2>3 DEF RunInv
<1> QED BY <1>6, <1>7, <1>8, InvariantParts
-----------------------------------------------------------------------------
(***************************************************************************)
(* The invariant of the specification                                      *)
(***************************************************************************)
\* Every step keeps the invariant.
LEMMA StepInvariant == IInv /\ [Next]_vars => IInv'
<1> SUFFICES ASSUME IInv, [Next]_vars PROVE IInv'
  OBVIOUS
<1>1. CASE UNCHANGED vars
  <2>1. UNCHANGED <<log, own, fanout, results, conn, session, ghosts, budget>>
    BY <1>1 DEF vars, server
  <2>2. LastSequence' = LastSequence /\ Sequences' = Sequences
    BY <2>1 DEF LastSequence, Sequences
  <2>3. ServerTypeOK' /\ HistoryTypeOK'
    BY <2>1, <2>2 DEF ghosts, budget, IInv, TypeOK, ServerTypeOK, HistoryTypeOK
  <2> QED BY <2>1, <2>2, <2>3, ServerStep DEF ghosts
<1>2. CASE Server
  BY <1>2, CommitStep, MutateStep, FanOutStep, FanOutLostStep DEF Server
<1>3. CASE Frames
  BY <1>3, AckStep, ResultStep DEF Frames
<1>4. CASE Connection
  BY <1>4, StartStep, RetryRecoveryStep, ConnectedStep, JoinHandledStep, ConnectFailsStep,
     DisconnectStep DEF Connection
<1>5. CASE Recovery
  BY <1>5, LatestAnsweredStep, LatestAppliedStep, RequestFailsStep, SyncAnsweredStep,
     RateLimitedStep, ResumeStep, SyncAppliedStep DEF Recovery
<1>6. CASE History
  BY <1>6, LoadOlderStep, OlderAppliedStep, OlderFailsStep, ReopenStep DEF History
<1> QED BY <1>1, <1>2, <1>3, <1>4, <1>5, <1>6 DEF Next

\* IInv holds in every reachable state: the timeline, the coroutine, the pages
\* and the stored cursor always fit together.
THEOREM InvariantHolds == Spec => []IInv
<1>1. Init => IInv
  BY InitInvariant
<1>2. IInv /\ [Next]_vars => IInv'
  BY StepInvariant
<1> QED BY <1>1, <1>2, PTL DEF Spec

\* Every variable has its type, and the client knows of no message that the
\* server has not committed.
THEOREM TypesHold == Spec => []TypeOK
<1>1. IInv => TypeOK
  BY DEF IInv
<1> QED BY <1>1, InvariantHolds, PTL

\* The view has no hole between its oldest message and the delivery cursor, and
\* shows nothing else but own messages the server has accepted.
THEOREM NothingIsSkipped == Spec => []NoSkippedMessage
<1>1. IInv => NoSkippedMessage
  BY DEF IInv
<1> QED BY <1>1, InvariantHolds, PTL

\* What waits in the buffer lies beyond the delivery cursor and out of view.
THEOREM BufferIsBeyondCursor == Spec => []BufferBeyondCursor
<1>1. IInv => BufferBeyondCursor
  BY DEF IInv
<1> QED BY <1>1, InvariantHolds, PTL

\* A message the client was told is accepted stays in view or in the buffer.
THEOREM AcceptedIsNeverLost == Spec => []AcceptedNeverLost
<1>1. IInv => AcceptedNeverLost
  BY DEF IInv, AcceptedAreMarked, AcceptedNeverLost
<1> QED BY <1>1, InvariantHolds, PTL

\* The history cursor is the first message in view, and a page of older
\* messages on its way ends just before it.
THEOREM HistoryAlwaysMeetsView == Spec => []HistoryMeetsView
<1>1. IInv => HistoryMeetsView
  BY DEF IInv
<1> QED BY <1>1, InvariantHolds, PTL

\* The client never sends a syncAfter request that the server would refuse with
\* invalid_cursor.
THEOREM RequestsAreAlwaysValid == Spec => []RequestsAreValid
<1>1. IInv => RequestsAreValid
  <2> SUFFICES ASSUME IInv, run.pc = "sync"
               PROVE  ~InvalidSyncCursor(run.after, run.limit)
    BY DEF RequestsAreValid
  <2>1. /\ run.after \in 0..tl.cursor /\ run.limit \in {Null} \cup run.after..LastSequence
        /\ tl.cursor # Null
    BY DEF IInv, RunFits
  <2>2. LastSequence \in Nat /\ tl.cursor \in (0..LastSequence) \cup {Null}
    BY InvariantFacts
  <2> QED BY <2>1, <2>2 DEF InvalidSyncCursor, Watermark
<1> QED BY <1>1, InvariantHolds, PTL

\* The page stores no cursor beyond its watermark, so a later session never
\* finds one that isStoredCursor rejects.
THEOREM StoredCursorIsAlwaysValid == Spec => []StoredCursorIsValid
<1>1. IInv => StoredCursorIsValid
  BY DEF IInv
<1> QED BY <1>1, InvariantHolds, PTL

-----------------------------------------------------------------------------
(***************************************************************************)
(* Whoever waits for a run, and the word "ready"                           *)
(***************************************************************************)
\* The recovery queue and the start wait for a run that is active, and a session
\* whose run is active does not say ready.
WaitInv ==
    /\ drain # "idle" => run # NoRun
    /\ start \in {"run", "drain"} => run # NoRun
    /\ run # NoRun => phase # "ready"

\* What a step of the coroutine leaves is not ready while it runs.
NotYetReady(o) == o.run # NoRun => o.phase # "ready"

\* A bootstrap that begins is never ready at once: it waits, or it has failed.
LEMMA RequestSyncNotReady ==
    ASSUME NEW t, NEW limit, NEW l
    PROVE  RequestSync(t, limit, l).phase # "ready" /\ Bootstrap(t, limit, l).phase # "ready"
BY DEF RequestSync, Bootstrap, Settled, Suspended

\* A settled outcome runs no more.
LEMMA SettledIsOver ==
    ASSUME NEW ph
    PROVE  NotYetReady(Settled(ph)) /\ Settled(ph).phase = ph
BY DEF NotYetReady, Settled

\* Whoever awaited the promise either finds a new run or waits no more; and only
\* a run that settles as ready makes the session ready.
LEMMA ContinueWaits ==
    ASSUME WaitInv, NEW outcome, NotYetReady(outcome), NEW t, NEW limit, NEW l,
           Continue(outcome, t, limit, l)
    PROVE  /\ WaitInv'
           /\ phase' = "ready" => outcome.phase = "ready"
<1>1. CASE outcome.run # NoRun
  <2>1. run' = outcome.run /\ phase' = outcome.phase /\ UNCHANGED <<start, drain>>
    BY <1>1 DEF Continue
  <2>2. NoRun' = NoRun
    BY DEF NoRun
  <2> QED BY <1>1, <2>1, <2>2 DEF WaitInv, NotYetReady
<1>2. CASE outcome.run = NoRun
  <2>1. PICK next : /\ next = IF drain = "queued" THEN Bootstrap(t, limit, l) ELSE outcome
                    /\ run' = next.run
                    /\ drain' = IF next.run # NoRun THEN "awaiting" ELSE "idle"
                    /\ start' = IF start = "connecting" \/ (start = "drain" /\ next.run # NoRun)
                                THEN start ELSE "none"
                    /\ phase' \in PhasesAfter(outcome, next, l)
    BY <1>2 DEF Continue
  <2>2. next.run # NoRun => next.phase # "ready"
    BY <1>2, <2>1, RequestSyncNotReady
  <2>3. next.phase = "ready" => outcome.phase = "ready"
    BY <2>1, RequestSyncNotReady
  <2>4. phase' = "ready" => next.phase = "ready"
    BY <2>1 DEF PhasesAfter, AfterStart
  <2>5. start' \in {"run", "drain"} => next.run # NoRun
    BY <2>1
  <2>6. drain' # "idle" => next.run # NoRun
    BY <2>1
  <2> QED BY <2>1, <2>2, <2>3, <2>4, <2>5, <2>6 DEF WaitInv
<1> QED BY <1>1, <1>2

\* Nothing waits before the session has started.
LEMMA InitWaits == Init => WaitInv
BY DEF Init, WaitInv

\* What happens on the server, in frames and in the history leaves the waiters
\* alone, or ends them with their session.
LEMMA OthersWait ==
    ASSUME WaitInv, Server \/ Frames \/ History
    PROVE  WaitInv' /\ (phase' = "ready" => phase = "ready" \/ tl'.buffered = {})
<1>1. CASE UNCHANGED <<run, phase, start, drain>>
  BY <1>1 DEF WaitInv
<1>2. CASE \E clearCursor \in BOOLEAN : Reopen(clearCursor)
  <2>1. run' = NoRun /\ start' = "none" /\ drain' = "idle" /\ tl'.buffered = {}
    BY <1>2 DEF Reopen, EmptyTimeline, RestoredTimeline
  <2> QED BY <2>1 DEF WaitInv, NoRun
<1>3. CASE Server
  BY <1>1, <1>3 DEF Server, Commit, Mutate, FanOut, FanOutLost, session, conn
<1>4. CASE Frames
  BY <1>1, <1>4 DEF Frames, AckArrives, ResultArrives, conn
<1>5. CASE LoadOlder \/ OlderApplied \/ OlderFails
  BY <1>1, <1>5 DEF LoadOlder, OlderApplied, OlderFails, conn
<1> QED BY <1>2, <1>3, <1>4, <1>5 DEF History

\* What happens on the connection starts a run for whoever is to wait, and
\* leaves no session ready that was not.
LEMMA ConnectionWaits ==
    ASSUME WaitInv, Connection
    PROVE  WaitInv' /\ (phase' = "ready" => phase = "ready")
<1>1. CASE Start
  BY <1>1, RequestSyncNotReady DEF Start, WaitInv
<1>2. CASE RetryRecovery
  BY <1>2, RequestSyncNotReady DEF RetryRecovery, WaitInv
<1>3. CASE Connected
  BY <1>3, RequestSyncNotReady DEF Connected, WaitInv
<1>4. CASE JoinHandled
  BY <1>4 DEF JoinHandled, WaitInv, session
<1>5. CASE ConnectFails
  BY <1>5 DEF ConnectFails, WaitInv
<1>6. CASE Disconnect /\ run.pc = "sync"
  <2>1. Continue(Settled("retryable_failure"), tl, through, "connecting")
    BY <1>6 DEF Disconnect
  <2> QED BY <2>1, SettledIsOver, ContinueWaits
<1>7. CASE Disconnect /\ run.pc # "sync"
  BY <1>7 DEF Disconnect, WaitInv
<1> QED BY <1>1, <1>2, <1>3, <1>4, <1>5, <1>6, <1>7 DEF Connection

\* A page of a recovery ends the run as ready only when nothing is left to read
\* and nothing waits behind a gap.
LEMMA SyncAppliedWaits ==
    ASSUME WaitInv, NEW full \in BOOLEAN, SyncApplied(full)
    PROVE  WaitInv' /\ (phase' = "ready" => tl'.buffered = {})
<1>1. PICK o, t, limit :
        /\ Continue(o, t, limit, link)
        /\ NotYetReady(o)
        /\ o.phase = "ready" => tl'.buffered = {}
  <2>1. CASE Continue(Settled("protocol_failure"), tl, through, link)
    BY <2>1, SettledIsOver
  <2>2. CASE Continue(Settled("protocol_failure"), tl, through', link)
    BY <2>2, SettledIsOver
  <2>3. CASE Continue(IF RecoveryDone(tl', reply) THEN Settled("ready")
                      ELSE IF reply.more /\ full THEN Suspended("yield", "recovery_pending")
                      ELSE RequestSync(tl', through', link), tl', through', link)
    <3>1. CASE RecoveryDone(tl', reply)
      <4>1. Continue(Settled("ready"), tl', through', link) /\ tl'.buffered = {}
        BY <2>3, <3>1 DEF RecoveryDone
      <4> QED BY <4>1, SettledIsOver
    <3>2. CASE ~RecoveryDone(tl', reply) /\ reply.more /\ full
      <4>1. Continue(Suspended("yield", "recovery_pending"), tl', through', link)
        BY <2>3, <3>2
      <4>2. Suspended("yield", "recovery_pending").phase # "ready"
        BY DEF Suspended
      <4> QED BY <4>1, <4>2 DEF NotYetReady
    <3>3. CASE ~RecoveryDone(tl', reply) /\ ~(reply.more /\ full)
      <4>1. Continue(RequestSync(tl', through', link), tl', through', link)
        BY <2>3, <3>3
      <4> QED BY <4>1, RequestSyncNotReady DEF NotYetReady
    <3> QED BY <3>1, <3>2, <3>3
  <2> QED BY <2>1, <2>2, <2>3 DEF SyncApplied
<1> QED BY <1>1, ContinueWaits

\* So does every other step of a run.
LEMMA RecoveryWaits ==
    ASSUME WaitInv, Recovery
    PROVE  WaitInv' /\ (run.pc = "sync" /\ phase' = "ready" => tl'.buffered = {})
<1>1. CASE \E full \in BOOLEAN : SyncApplied(full)
  BY <1>1, SyncAppliedWaits
<1>2. CASE LatestApplied
  <2>1. Continue(Settled("ready"), tl', Null, link) /\ run.pc = "latest"
    BY <1>2 DEF LatestApplied
  <2> QED BY <2>1, SettledIsOver, ContinueWaits
<1>3. CASE LatestFails \/ SyncFails
  <2>1. PICK ph \in {"retryable_failure", "stream_unavailable", "protocol_failure"} :
            Continue(Settled(ph), tl, through, link)
    BY <1>3 DEF LatestFails, SyncFails
  <2> QED BY <2>1, SettledIsOver, ContinueWaits
<1>4. CASE UNCHANGED <<run, phase, start, drain>>
  <2>1. WaitInv'
    BY <1>4 DEF WaitInv
  <2>2. run.pc = "sync" => phase # "ready"
    BY DEF WaitInv, NoRun
  <2> QED BY <1>4, <2>1, <2>2
<1>5. CASE Continue(Settled("invalid_cursor"), tl, through, link)
  BY <1>5, SettledIsOver, ContinueWaits
<1>6. CASE Continue(Settled("protocol_failure"), tl, through, link)
  BY <1>6, SettledIsOver, ContinueWaits
<1>7. CASE Continue(Suspended("delay", "recovery_pending"), tl, through, link)
  <2>1. /\ NotYetReady(Suspended("delay", "recovery_pending"))
        /\ Suspended("delay", "recovery_pending").phase # "ready"
    BY DEF NotYetReady, Suspended
  <2> QED BY <1>7, <2>1, ContinueWaits
<1>8. CASE Continue(RequestSync(tl, through, link), tl, through, link)
  <2>1. NotYetReady(RequestSync(tl, through, link))
    BY RequestSyncNotReady DEF NotYetReady
  <2> QED BY <1>8, <2>1, RequestSyncNotReady, ContinueWaits
<1>9. CASE LatestAnswered
  BY <1>4, <1>9 DEF LatestAnswered, conn
<1>10. CASE SyncAnswered
  BY <1>4, <1>5, <1>10 DEF SyncAnswered
<1>11. CASE SyncRateLimited
  BY <1>6, <1>7, <1>11 DEF SyncRateLimited
<1>12. CASE Resume
  BY <1>8, <1>12 DEF Resume
<1> QED BY <1>1, <1>2, <1>3, <1>9, <1>10, <1>11, <1>12 DEF Recovery

\* Every step keeps the waiters with their run, and a recovery that a step makes
\* ready has left nothing in the buffer.
LEMMA StepWaits ==
    ASSUME WaitInv, [Next]_vars
    PROVE  WaitInv' /\ (run.pc = "sync" /\ phase' = "ready" => tl'.buffered = {})
<1>1. run.pc = "sync" => phase # "ready"
  BY DEF WaitInv, NoRun
<1>2. CASE UNCHANGED vars
  <2>1. UNCHANGED <<run, phase, start, drain>>
    BY <1>2 DEF vars, session, conn
  <2> QED BY <1>1, <2>1 DEF WaitInv
<1>3. CASE Server \/ Frames \/ History
  BY <1>1, <1>3, OthersWait
<1>4. CASE Connection
  BY <1>1, <1>4, ConnectionWaits
<1>5. CASE Recovery
  BY <1>5, RecoveryWaits
<1> QED BY <1>2, <1>3, <1>4, <1>5 DEF Next

\* The recovery queue and the start wait only for a run that is active, so each of
\* them is woken when it settles, and an answer on its way belongs to a run that
\* can take it.
THEOREM WaitersAlwaysHaveARun == Spec => []WaitersHaveARun
<1>1. Init => WaitInv
  BY InitWaits
<1>2. WaitInv /\ [Next]_vars => WaitInv'
  BY StepWaits
<1>3. WaitInv /\ IInv => WaitersHaveARun
  BY DEF WaitInv, IInv, PagesFit, WaitersHaveARun
<1> QED BY <1>1, <1>2, <1>3, InvariantHolds, PTL DEF Spec

\* A run that recovered a cursor says ready only with an empty buffer, whatever
\* live messages, acceptances, failures and reconnections came between its pages.
THEOREM ReadyAlwaysClosesGaps == Spec => ReadyClosesGaps
<1>1. Init => WaitInv
  BY InitWaits
<1>2. WaitInv /\ [Next]_vars => WaitInv'
  BY StepWaits
<1>3. WaitInv /\ [Next]_vars =>
          [run.pc = "sync" /\ phase' = "ready" => tl'.buffered = {}]_vars
  BY StepWaits
<1> QED BY <1>1, <1>2, <1>3, PTL DEF Spec, ReadyClosesGaps

-----------------------------------------------------------------------------
(***************************************************************************)
(* A session that says ready misses nothing, once its watermark was read   *)
(* after the gateway had joined it                                         *)
(***************************************************************************)
\* Of the first N messages, those beyond n have been passed by the cursor, wait
\* in the buffer, or are among those that are still to be relayed or lost.
Covers(n, N, t, away) ==
    \A s \in 1..N : s > n => s <= t.cursor \/ s \in t.buffered \cup away

Away == fanout \cup lost

\* What holds from the join on: each message beyond the watermark that is to be
\* reached is accounted for, and so is each one beyond the cursor of a session
\* that says ready, because every relay finds the session joined.
Watched ==
    anchored =>
        /\ link = "joined" /\ attached
        /\ through # Null => Covers(through, LastSequence, tl, Away)
        /\ reply # NoPage => Covers(reply.through, LastSequence, tl, Away)
        /\ phase = "ready" => Covers(tl.cursor, LastSequence, tl, Away)

\* A request carries the watermark of the session, and the page that reaches the
\* watermark is the last one.
RunReads(r, limit) == r.pc = "sync" => r.limit = limit

LastPageEnds == reply # NoPage /\ run.pc = "sync" => (reply.more \/ reply.through <= reply.next)

ViewEnds(t) == \A s \in t.visible : s <= t.cursor

\* Before the first page there is no watermark, in the session or in the storage.
HasRead(t, limit) == t.cursor = Null => limit = Null

AnchorInv ==
    /\ Watched
    /\ RunReads(run, through)
    /\ LastPageEnds
    /\ ViewEnds(tl)
    /\ HasRead(tl, through) /\ HasRead(stored, stored.through)
    /\ phase = "ready" => through = Null

\* A bootstrap asks for the watermark that it was given.
LEMMA BootstrapReads ==
    ASSUME NEW t, NEW limit, NEW l
    PROVE  RunReads(RequestSync(t, limit, l).run, limit) /\ RunReads(Bootstrap(t, limit, l).run, limit)
BY DEF RequestSync, Bootstrap, Settled, Suspended, Awaiting, NoRun, SyncRun, RunReads

LEMMA OthersRead ==
    \A limit, ph : /\ RunReads(Settled(ph).run, limit)
                   /\ RunReads(Suspended("delay", ph).run, limit)
                   /\ RunReads(Suspended("yield", ph).run, limit)
BY DEF Settled, Suspended, Awaiting, NoRun, RunReads

LEMMA ContinueReads ==
    ASSUME NEW outcome, NEW t, NEW limit, NEW l, RunReads(outcome.run, limit),
           Continue(outcome, t, limit, l)
    PROVE  RunReads(run', limit)
<1>1. CASE outcome.run # NoRun
  BY <1>1 DEF Continue
<1>2. CASE outcome.run = NoRun
  BY <1>2, BootstrapReads DEF Continue
<1> QED BY <1>1, <1>2

\* A timeline that moves on accounts for what it accounted for.
LEMMA CoversKept ==
    ASSUME NEW M \in Nat, NEW N \in Nat, NEW t, NEW u,
           t.cursor \in Int, u.cursor \in Int, u.cursor >= t.cursor, Waits(t, u),
           NEW away, NEW off,
           \A s \in away : s \in off \/ s <= u.cursor \/ s \in u.buffered,
           \A s \in 1..N : s \in 1..M \/ s \in off,
           NEW n \in Int
    PROVE  /\ Covers(n, M, t, away) => Covers(n, N, u, off)
           /\ Covers(n, M, t, away) /\ u.cursor >= n => Covers(u.cursor, N, u, off)
<1>1. SUFFICES ASSUME Covers(n, M, t, away) PROVE Covers(n, N, u, off)
  BY DEF Covers
<1>2. ASSUME NEW s \in 1..N, s > n
      PROVE  s <= u.cursor \/ s \in u.buffered \cup off
  <2>1. CASE s \in off
    BY <2>1
  <2>2. CASE s \in 1..M /\ s <= t.cursor
    BY <2>2
  <2>3. CASE s \in t.buffered
    BY <2>3 DEF Waits
  <2>4. CASE s \in away
    BY <2>4
  <2> QED BY <1>1, <1>2, <2>1, <2>2, <2>3, <2>4 DEF Covers
<1> QED BY <1>2 DEF Covers

\* Facts about types that the next lemmas share.
LEMMA AnchorTypes ==
    ASSUME IInv
    PROVE  /\ LastSequence \in Nat /\ Sequences = 1..LastSequence
           /\ tl.cursor \in Int /\ through \in Int /\ reply.through \in Int
           /\ IsShaped(tl) /\ tl.buffered \in SUBSET (1..LastSequence)
           /\ tl.visible \in SUBSET (1..LastSequence)
           /\ tl.cursor \in (0..LastSequence) \cup {Null}
<1>1. /\ LastSequence \in Nat /\ Sequences = 1..LastSequence
      /\ IsTimeline(tl, 1..LastSequence) /\ IsCursor(through)
      /\ tl.cursor \in (0..LastSequence) \cup {Null}
  BY InvariantFacts
<1>2. tl.buffered \in SUBSET (1..LastSequence) /\ tl.visible \in SUBSET (1..LastSequence)
  BY <1>1 DEF IsTimeline
<1>3. through \in Int
  BY <1>1 DEF IsCursor
<1>4. reply.through \in Int
  BY <1>1 DEF IInv, TypeOK, SessionTypeOK, IsPage
<1> QED BY <1>1, <1>2, <1>3, <1>4, TimelineIsShaped

\* A step of the connection, or one that fails, leaves the view alone and no
\* session ready that was not.
LEMMA AnchorKept ==
    ASSUME AnchorInv, UNCHANGED <<log, fanout, lost, tl, through>>,
           anchored' => anchored /\ link' = "joined" /\ attached',
           RunReads(run', through),
           reply' = NoPage \/ (reply' = reply /\ run' = run),
           stored' = stored \/ \E state : stored' = Saved(tl, through, state),
           phase' = "ready" => phase = "ready"
    PROVE  AnchorInv'
<1>1. LastSequence' = LastSequence /\ NoPage' = NoPage /\ Away' = Away
  BY DEF LastSequence, NoPage, Away
<1>2. Watched'
  BY <1>1 DEF AnchorInv, Watched
<1>3. LastPageEnds'
  BY <1>1 DEF AnchorInv, LastPageEnds
<1>4. HasRead(tl', through') /\ HasRead(stored', stored'.through)
  BY DEF AnchorInv, HasRead, Saved
<1> QED BY <1>2, <1>3, <1>4 DEF AnchorInv

\* A step that moves the view on accounts for the relay it takes away.
LEMMA AnchorMoves ==
    ASSUME IInv, AnchorInv, LastSequence' \in Nat, tl'.cursor \in Int,
           UNCHANGED <<link, attached, anchored, through, stored, reply, run, phase>>,
           tl'.cursor >= tl.cursor, ViewEnds(tl'), Waits(tl, tl'),
           anchored => \A s \in Away : s \in Away' \/ s <= tl'.cursor \/ s \in tl'.buffered,
           \A s \in 1..LastSequence' : s \in 1..LastSequence \/ s \in Away'
    PROVE  AnchorInv'
<1>1. /\ LastSequence \in Nat /\ tl.cursor \in Int /\ through \in Int
      /\ reply.through \in Int
  BY AnchorTypes
<1>2. ASSUME anchored
      PROVE  \A n \in Int :
                /\ Covers(n, LastSequence, tl, Away) => Covers(n, LastSequence', tl', Away')
                /\ Covers(n, LastSequence, tl, Away) /\ tl'.cursor >= n
                       => Covers(tl'.cursor, LastSequence', tl', Away')
  <2> DEFINE M == LastSequence
             N == LastSequence'
             t == tl
             u == tl'
             off == Away'
  <2>1. /\ M \in Nat /\ N \in Nat /\ t.cursor \in Int /\ u.cursor \in Int
        /\ u.cursor >= t.cursor /\ Waits(t, u)
        /\ \A s \in Away : s \in off \/ s <= u.cursor \/ s \in u.buffered
        /\ \A s \in 1..N : s \in 1..M \/ s \in off
    BY <1>1, <1>2
  <2> HIDE DEF M, N, t, u, off
  <2>2. \A n \in Int :
            /\ Covers(n, M, t, Away) => Covers(n, N, u, off)
            /\ Covers(n, M, t, Away) /\ u.cursor >= n => Covers(u.cursor, N, u, off)
    BY <2>1, CoversKept
  <2> QED BY <2>2 DEF M, N, t, u, off
<1>3. NoPage' = NoPage
  BY DEF NoPage
<1>4. Watched'
  <2> SUFFICES ASSUME anchored
               PROVE  /\ link = "joined" /\ attached
                      /\ through # Null => Covers(through, LastSequence', tl', Away')
                      /\ reply # NoPage => Covers(reply.through, LastSequence', tl', Away')
                      /\ phase = "ready" => Covers(tl'.cursor, LastSequence', tl', Away')
    BY <1>3 DEF Watched
  <2> QED BY <1>1, <1>2 DEF AnchorInv, Watched
<1>5. LastPageEnds'
  BY <1>3 DEF AnchorInv, LastPageEnds
<1>6. HasRead(tl', through') /\ HasRead(stored', stored'.through)
  <2>1. tl.cursor \in (0..LastSequence) \cup {Null}
    BY AnchorTypes
  <2> QED BY <1>1, <2>1 DEF AnchorInv, HasRead
<1> QED BY <1>4, <1>5, <1>6 DEF AnchorInv

-----------------------------------------------------------------------------
\* Nothing is owed before the session has started.
LEMMA InitAnchors == Init => AnchorInv
<1> SUFFICES ASSUME Init PROVE AnchorInv
  OBVIOUS
<1>1. anchored = FALSE
  BY Zenon DEF Init
<1>2. /\ run = NoRun /\ reply = NoPage /\ phase = "idle" /\ tl.visible = {}
      /\ through = Null /\ stored.through = Null
  BY DEF Init, EmptyTimeline, NothingStored
<1> QED BY <1>1, <1>2 DEF AnchorInv, Watched, RunReads, LastPageEnds, ViewEnds, NoRun, HasRead

\* The stream grows by messages that are to be relayed, and what leaves the relay
\* has reached a session that has joined, or is lost.
LEMMA ServerAnchors ==
    ASSUME IInv, AnchorInv, Server
    PROVE  AnchorInv'
<1>1. /\ LastSequence \in Nat /\ Sequences = 1..LastSequence
      /\ tl.cursor \in Int /\ through \in Int /\ reply.through \in Int
      /\ IsShaped(tl) /\ tl.buffered \in SUBSET (1..LastSequence)
      /\ tl.visible \in SUBSET (1..LastSequence)
      /\ tl.cursor \in (0..LastSequence) \cup {Null}
  BY AnchorTypes
<1>2. Waits(tl, tl) /\ ViewEnds(tl)
  BY DEF Waits, AnchorInv
<1>3. CASE \E mine \in BOOLEAN : Commit(mine)
  <2>1. /\ log' = Append(log, Original) /\ fanout' = fanout \cup {LastSequence + 1}
        /\ UNCHANGED <<lost, tl, link, attached, anchored, through, stored, reply, run, phase>>
    BY <1>3 DEF Commit, conn, session, ghosts
  <2>2. LastSequence' = LastSequence + 1
    BY <2>1 DEF LastSequence, IInv, TypeOK, ServerTypeOK
  <2>3. \A s \in 1..LastSequence' : s \in 1..LastSequence \/ s \in Away'
    BY <1>1, <2>1, <2>2 DEF Away
  <2>4. Away \subseteq Away'
    BY <2>1 DEF Away
  <2> QED BY <1>1, <1>2, <2>1, <2>2, <2>3, <2>4, AnchorMoves
<1>4. CASE \E s \in Sequences, delete, asked \in BOOLEAN : Mutate(s, delete, asked)
  <2>1. PICK s \in Sequences, delete \in BOOLEAN, stamp \in Stamps :
            log' = [log EXCEPT ![s] = Changed(log[s], delete, stamp)]
    BY <1>4 DEF Mutate
  <2>2. UNCHANGED <<fanout, lost, tl, link, attached, anchored, through, stored, reply, run, phase>>
    BY <1>4 DEF Mutate, conn, session, ghosts
  <2>3. LastSequence' = LastSequence
    BY <2>1 DEF LastSequence, IInv, TypeOK, ServerTypeOK
  <2>4. Away' = Away
    BY <2>2 DEF Away
  <2> QED BY <1>1, <1>2, <2>2, <2>3, <2>4, AnchorMoves
<1>5. ASSUME NEW s \in Sequences, FanOutLost(s)
      PROVE  AnchorInv'
  <2>1. /\ fanout' = fanout \ {s} /\ lost' = lost \cup {s} /\ log' = log
        /\ UNCHANGED <<tl, link, attached, anchored, through, stored, reply, run, phase>>
    BY <1>5 DEF FanOutLost, conn, session
  <2>2. LastSequence' = LastSequence /\ Away \subseteq Away'
    BY <2>1 DEF Away, LastSequence
  <2> QED BY <1>1, <1>2, <2>1, <2>2, AnchorMoves
<1>6. ASSUME NEW s \in Sequences, FanOut(s)
      PROVE  AnchorInv'
  <2>1. /\ fanout' = fanout \ {s} /\ lost' = lost /\ log' = log
        /\ UNCHANGED <<link, attached, anchored, through, stored, reply, run, phase>>
    BY <1>6 DEF FanOut, conn, ghosts
  <2>2. /\ IsTimeline(tl', 1..LastSequence)
        /\ tl.cursor = Null => tl'.cursor = Null /\ tl'.visible = tl.visible
        /\ tl.cursor # Null => tl'.cursor # Null /\ Advances(tl, tl')
    BY <1>6, FanOutMoves
  <2>3. tl'.cursor \in Int /\ tl'.cursor >= tl.cursor /\ LastSequence' = LastSequence
    BY <1>1, <2>1, <2>2 DEF Advances, IsTimeline, LastSequence
  <2>4. ViewEnds(tl')
    BY <1>1, <1>2, <2>2, <2>3 DEF ViewEnds, Advances
  <2>5. tl' = tl \/ (link = "joined" /\ attached /\ tl' = ApplyLive(tl, s, Original))
    BY <1>6 DEF FanOut
  <2>6. /\ tl.cursor = Null => tl.visible = {}
        /\ s > tl.cursor => s \notin tl.visible
    BY <1>1, <1>2, InvariantFacts DEF ViewEnds
  <2>7. tl' = ApplyLive(tl, s, Original) => Waits(tl, tl') /\ (s > tl'.cursor => s \in tl'.buffered)
    BY <1>1, <2>6, ApplyLiveWaits
  <2>8. tl' # ApplyLive(tl, s, Original) => ~anchored
    BY <1>6 DEF FanOut, AnchorInv, Watched
  <2>9. Waits(tl, tl')
    BY <1>2, <2>5, <2>7
  <2>10. anchored => \A x \in Away : x \in Away' \/ x <= tl'.cursor \/ x \in tl'.buffered
    <3>1. anchored => s <= tl'.cursor \/ s \in tl'.buffered
      BY <1>1, <2>3, <2>7, <2>8
    <3> QED BY <2>1, <3>1 DEF Away
  <2>11. Away \subseteq Away' \cup {s}
    BY <2>1 DEF Away
  <2> QED BY <1>1, <2>1, <2>3, <2>4, <2>9, <2>10, AnchorMoves
<1> QED BY <1>3, <1>4, <1>5, <1>6 DEF Server

\* Acceptances and results move the view on, and take nothing out of the buffer
\* that the cursor has not passed.
LEMMA FramesAnchor ==
    ASSUME IInv, AnchorInv, Frames
    PROVE  AnchorInv'
<1>1. /\ LastSequence \in Nat /\ Sequences = 1..LastSequence
      /\ tl.cursor \in Int /\ through \in Int /\ reply.through \in Int
      /\ IsShaped(tl) /\ tl.buffered \in SUBSET (1..LastSequence)
      /\ tl.visible \in SUBSET (1..LastSequence)
      /\ tl.cursor \in (0..LastSequence) \cup {Null}
  BY AnchorTypes
<1>2. ViewEnds(tl)
  BY DEF AnchorInv
<1>3. ASSUME NEW s \in Sequences, AckArrives(s)
      PROVE  AnchorInv'
  <2>1. UNCHANGED <<log, fanout, lost, link, attached, anchored, through, stored, reply, run, phase>>
    BY <1>3 DEF AckArrives, server, conn
  <2>2. /\ IsTimeline(tl', 1..LastSequence)
        /\ tl.cursor = Null => tl'.cursor = Null /\ tl'.visible = tl.visible
        /\ tl.cursor # Null =>
              /\ tl'.cursor # Null
              /\ IF s <= tl.cursor
                 THEN tl'.cursor = tl.cursor /\ tl'.visible = tl.visible \cup {s}
                 ELSE Advances(tl, tl')
    BY <1>3, AckMoves
  <2>3. tl'.cursor \in Int /\ tl'.cursor >= tl.cursor /\ LastSequence' = LastSequence
    BY <1>1, <2>1, <2>2 DEF Advances, IsTimeline, LastSequence
  <2>4. ViewEnds(tl')
    BY <1>1, <1>2, <2>2, <2>3 DEF ViewEnds, Advances
  <2>5. /\ tl.cursor = Null => tl.visible = {}
        /\ s > tl.cursor => s \notin tl.visible
    BY <1>1, <1>2, InvariantFacts DEF ViewEnds
  <2>6. Waits(tl, tl')
    BY <1>1, <1>3, <2>5, ApplyAcceptedWaits DEF AckArrives
  <2>7. Away' = Away
    BY <2>1 DEF Away
  <2> QED BY <1>1, <2>1, <2>3, <2>4, <2>6, <2>7, AnchorMoves
<1>4. ASSUME NEW r \in results, ResultArrives(r)
      PROVE  AnchorInv'
  <2>1. UNCHANGED <<log, fanout, lost, link, attached, anchored, through, stored, reply, run, phase>>
    BY <1>4 DEF ResultArrives, conn, ghosts
  <2>2. r.content \in Content /\ tl' = ReplaceKnown(tl, r.seq, r.content)
    BY <1>4 DEF ResultArrives, IInv, TypeOK, ServerTypeOK
  <2>3. tl'.visible = tl.visible /\ tl'.buffered = tl.buffered /\ tl'.cursor = tl.cursor
    BY <2>2, InvariantFacts, ReplaceKnownProperties
  <2>4. ViewEnds(tl') /\ Waits(tl, tl') /\ LastSequence' = LastSequence /\ Away' = Away
    BY <1>2, <2>1, <2>3 DEF ViewEnds, Waits, LastSequence, Away
  <2> QED BY <1>1, <2>1, <2>3, <2>4, AnchorMoves
<1> QED BY <1>3, <1>4 DEF Frames

\* A connection that changes is anchored no more, or has not changed.
LEMMA ConnectionAnchors ==
    ASSUME IInv, WaitInv, AnchorInv, Connection
    PROVE  AnchorInv'
<1>1. phase' = "ready" => phase = "ready"
  BY ConnectionWaits
<1>2. RunReads(NoRun, through) /\ RunReads(run, through) /\ RunReads(Bootstrap(tl, through, link).run, through)
      /\ RunReads(Bootstrap(tl, through, "ready").run, through)
  BY BootstrapReads DEF RunReads, NoRun, AnchorInv
<1>3. anchored => link = "joined" /\ attached
  BY DEF AnchorInv, Watched
<1>4. CASE Start
  <2>1. UNCHANGED <<log, fanout, lost, tl, through, stored, reply, anchored>> /\ ~attached
    BY <1>4 DEF Start, server, ghosts
  <2>2. reply = NoPage
    BY <2>1 DEF IInv, SessionResumes
  <2>3. RunReads(run', through)
    BY <1>2, <1>4 DEF Start
  <2> QED BY <1>1, <1>3, <2>1, <2>2, <2>3, AnchorKept
<1>5. CASE RetryRecovery
  <2>1. UNCHANGED <<log, fanout, lost, tl, through, stored, reply, anchored, attached>>
    BY <1>5 DEF RetryRecovery, server, ghosts
  <2>2. RunReads(run', through)
    BY <1>2, <1>5 DEF RetryRecovery
  <2>3. anchored => link' = link
    BY <1>3, <1>5 DEF RetryRecovery, Up
  <2>4. reply = NoPage \/ run' = run
    BY <1>5 DEF RetryRecovery, IInv, PagesFit, NoRun
  <2> QED BY <1>1, <1>3, <2>1, <2>2, <2>3, <2>4, AnchorKept
<1>6. CASE Connected
  <2>1. UNCHANGED <<log, fanout, lost, tl, through, stored, reply, anchored, attached>> /\ ~anchored
    BY <1>3, <1>6 DEF Connected, server
  <2>2. RunReads(run', through)
    BY <1>2, <1>6 DEF Connected
  <2>3. reply = NoPage \/ run' = run
    BY <1>6 DEF Connected, IInv, PagesFit, NoRun
  <2> QED BY <1>1, <2>1, <2>2, <2>3, AnchorKept
<1>7. CASE JoinHandled
  BY <1>1, <1>2, <1>3, <1>7, AnchorKept DEF JoinHandled, server, session, ghosts
<1>8. CASE ConnectFails
  BY <1>1, <1>2, <1>3, <1>8, AnchorKept DEF ConnectFails, server, ghosts
<1>9. CASE Disconnect
  <2>1. UNCHANGED <<log, fanout, lost, tl, through, stored>>
    BY <1>9 DEF Disconnect
  <2>2. ~anchored'
    BY <1>9, Zenon DEF Disconnect
  <2>3. RunReads(run', through) /\ (reply' = NoPage \/ (reply' = reply /\ run' = run))
    <3>1. CASE run.pc = "sync"
      BY <1>9, <3>1, OthersRead, ContinueReads DEF Disconnect
    <3>2. CASE run.pc # "sync"
      BY <1>2, <1>9, <3>2 DEF Disconnect
    <3> QED BY <3>1, <3>2
  <2> QED BY <1>1, <2>1, <2>2, <2>3, AnchorKept
<1> QED BY <1>4, <1>5, <1>6, <1>7, <1>8, <1>9 DEF Connection

-----------------------------------------------------------------------------
\* The answer to the latest query was read up to the head.
LEMMA LatestReachesHead ==
    ASSUME NEW p \in LatestPages
    PROVE  p.through = LastSequence
BY DEF LatestPages, EmptyBackwardPage, NoPage, BackwardPage, Page

\* So was the answer to a request without a watermark; one with a watermark is
\* answered for it, and the last page reaches it.
LEMMA SyncReachesWatermark ==
    ASSUME IInv, NEW after \in 0..LastSequence, NEW limit, IsCursor(limit),
           ~InvalidSyncCursor(after, limit), NEW p \in SyncPages(after, limit)
    PROVE  p.through = Watermark(limit) /\ (p.more \/ p.through <= p.next)
<1> DEFINE W == Watermark(limit)
<1>1. LastSequence \in Nat
  BY InvariantFacts
<1>2. W \in after..LastSequence
  BY <1>1 DEF Watermark, InvalidSyncCursor, IsCursor, Sequences
<1> HIDE DEF W
<1>3. PICK first, last, next, rest :
         /\ p = Page(first, last, W, next, rest)
         /\ next = W \/ (next = last /\ last \in after..W /\ rest = W - last)
  <2>1. CASE p = Page(after + 1, after, W, W, 0)
    BY <2>1
  <2>2. CASE \E last \in (after + 1)..W : p = Page(after + 1, last, W, last, W - last)
    <3>1. PICK last \in (after + 1)..W : p = Page(after + 1, last, W, last, W - last)
      BY <2>2
    <3>2. last \in after..W
      BY <1>2
    <3> QED BY <3>1, <3>2
  <2> QED BY <2>1, <2>2 DEF SyncPages, W
<1>4. p.through = W /\ p.next = next
  BY <1>3 DEF Page
<1>5. next = W \/ (rest > 0) \/ W <= next
  BY <1>2, <1>3
<1>6. (rest > 0) => p.more
  BY <1>3, Zenon DEF Page
<1>7. next = W => W <= next
  BY <1>2
<1>8. p.more \/ p.through <= p.next
  BY <1>4, <1>5, <1>6, <1>7, Zenon
<1> QED BY <1>4, <1>8 DEF W

\* Nothing beyond the head is to be reached.
LEMMA HeadCovers ==
    ASSUME LastSequence \in Nat, NEW t, NEW away
    PROVE  Covers(LastSequence, LastSequence, t, away)
BY DEF Covers

\* A page that is read once the gateway has joined the session anchors it.
LEMMA AnswersAnchor ==
    ASSUME IInv, WaitInv, AnchorInv, LatestAnswered \/ SyncAnswered
    PROVE  AnchorInv'
<1>1. /\ UNCHANGED <<log, fanout, lost, link, attached, tl, through, stored>>
      /\ LastSequence' = LastSequence /\ NoPage' = NoPage /\ Away' = Away
  BY DEF LatestAnswered, SyncAnswered, server, conn, LastSequence, Away, NoPage
<1>2. LastSequence \in Nat /\ run # NoRun /\ attached
  BY InvariantFacts DEF LatestAnswered, SyncAnswered, NoRun, IInv, SessionResumes
<1>3. ASSUME UNCHANGED <<run, phase>>,
             anchored' => /\ link = "joined"
                          /\ through # Null => Covers(through, LastSequence, tl, Away)
                          /\ Covers(reply'.through, LastSequence, tl, Away),
             run.pc = "sync" => (reply'.more \/ reply'.through <= reply'.next)
      PROVE  AnchorInv'
  <2>1. phase # "ready"
    BY <1>2 DEF WaitInv
  <2>2. Watched'
    BY <1>1, <1>2, <1>3, <2>1 DEF Watched
  <2>3. LastPageEnds'
    BY <1>1, <1>3 DEF LastPageEnds
  <2> QED BY <1>1, <1>3, <2>2, <2>3 DEF AnchorInv
<1>4. CASE LatestAnswered
  <2>1. /\ UNCHANGED <<run, phase>> /\ run.pc = "latest" /\ tl.cursor = Null
        /\ reply'.through = LastSequence
    BY <1>4, LatestReachesHead DEF LatestAnswered, IInv, RunFits
  <2>2. through = Null
    BY <2>1 DEF AnchorInv, HasRead
  <2>3. anchored' => link = "joined"
    BY <1>4, Zenon DEF LatestAnswered
  <2> QED BY <1>2, <1>3, <2>1, <2>2, <2>3, HeadCovers
<1>5. CASE SyncAnswered /\ InvalidSyncCursor(run.after, run.limit)
  <2>1. /\ Continue(Settled("invalid_cursor"), tl, through, link)
        /\ UNCHANGED <<reply, anchored>> /\ reply = NoPage
    BY <1>5 DEF SyncAnswered
  <2>2. RunReads(run', through) /\ phase' # "ready"
    BY <2>1, OthersRead, ContinueReads, SettledIsOver, ContinueWaits
  <2>3. reply' = NoPage
    BY <2>1
  <2>4. anchored' => anchored /\ link' = "joined" /\ attached'
    BY <1>1, <2>1 DEF AnchorInv, Watched
  <2> QED BY <1>1, <2>2, <2>3, <2>4, AnchorKept
<1>6. CASE SyncAnswered /\ ~InvalidSyncCursor(run.after, run.limit)
  <2>1. /\ UNCHANGED <<run, phase>> /\ run.pc = "sync" /\ link = "joined"
        /\ reply' \in SyncPages(run.after, run.limit)
    BY <1>6 DEF SyncAnswered
  <2>2. anchored' => anchored \/ run.limit = Null
    BY <1>6, Zenon DEF SyncAnswered
  <2>3. run.after \in 0..LastSequence /\ IsCursor(run.limit) /\ run.limit = through
    BY <2>1, InvariantFacts DEF IInv, RunFits, Runs, IsCursor, AnchorInv, RunReads
  <2>4. /\ reply'.through = Watermark(run.limit)
        /\ (reply'.more \/ reply'.through <= reply'.next)
    BY <1>6, <2>1, <2>3, SyncReachesWatermark
  <2>5. CASE run.limit = Null
    <3>1. reply'.through = LastSequence /\ through = Null
      BY <2>3, <2>4, <2>5 DEF Watermark
    <3> QED BY <1>2, <1>3, <2>1, <2>4, <3>1, HeadCovers
  <2>6. CASE run.limit # Null
    <3>1. reply'.through = through /\ through # Null /\ (anchored' => anchored)
      BY <2>2, <2>3, <2>4, <2>6 DEF Watermark
    <3>2. anchored' => Covers(through, LastSequence, tl, Away)
      BY <3>1 DEF AnchorInv, Watched
    <3> QED BY <1>3, <2>1, <2>4, <3>1, <3>2
  <2> QED BY <2>5, <2>6
<1> QED BY <1>4, <1>5, <1>6

\* A page that is applied takes the session to the watermark, or nearer to it.
LEMMA PageAnchors ==
    ASSUME IInv, AnchorInv, reply # NoPage, reply' = NoPage,
           UNCHANGED <<log, fanout, lost, link, attached, anchored>>,
           tl'.cursor \in Int, tl'.cursor >= tl.cursor, Waits(tl, tl'), ViewEnds(tl'),
           through' \in {Null, reply.through}, RunReads(run', through'),
           HasRead(tl', through'), HasRead(stored', stored'.through),
           phase' = "ready" => through' = Null /\ reply.through <= tl'.cursor
    PROVE  AnchorInv'
<1>1. /\ LastSequence \in Nat /\ tl.cursor \in Int /\ reply.through \in Int
      /\ LastSequence' = LastSequence /\ NoPage' = NoPage /\ Away' = Away
  BY AnchorTypes DEF LastSequence, NoPage, Away
<1>2. ASSUME anchored
      PROVE  /\ Covers(reply.through, LastSequence, tl', Away)
             /\ phase' = "ready" => Covers(tl'.cursor, LastSequence, tl', Away)
  <2> DEFINE N == LastSequence
             t == tl
             u == tl'
             w == reply.through
  <2>1. /\ N \in Nat /\ t.cursor \in Int /\ u.cursor \in Int /\ w \in Int
        /\ u.cursor >= t.cursor /\ Waits(t, u) /\ Covers(w, N, t, Away)
    BY <1>1, <1>2 DEF AnchorInv, Watched
  <2>2. phase' = "ready" => u.cursor >= w
    BY <2>1
  <2> HIDE DEF N, t, u, w
  <2>3. Covers(w, N, u, Away) /\ (u.cursor >= w => Covers(u.cursor, N, u, Away))
    BY <2>1, CoversKept
  <2> QED BY <2>2, <2>3 DEF N, t, u, w
<1>3. Watched'
  <2> SUFFICES ASSUME anchored
               PROVE  /\ link = "joined" /\ attached
                      /\ through' # Null => Covers(through', LastSequence, tl', Away)
                      /\ phase' = "ready" => Covers(tl'.cursor, LastSequence, tl', Away)
    BY <1>1 DEF Watched
  <2> QED BY <1>2 DEF AnchorInv, Watched
<1>4. LastPageEnds'
  BY <1>1 DEF LastPageEnds
<1> QED BY <1>3, <1>4 DEF AnchorInv

-----------------------------------------------------------------------------
\* The first page takes the session to its watermark.
LEMMA LatestAppliedAnchors ==
    ASSUME IInv, AnchorInv, LatestApplied
    PROVE  AnchorInv'
<1>1. /\ UNCHANGED <<log, fanout, lost, link, attached, anchored>>
      /\ run.pc = "latest" /\ reply # NoPage /\ reply' = NoPage
      /\ tl' = ApplyLatest(tl, reply)
      /\ through' = Null /\ stored' = Saved(tl', Null, "idle")
      /\ Continue(Settled("ready"), tl', Null, link)
  BY DEF LatestApplied, server
<1>2. /\ LastSequence \in Nat /\ Sequences = 1..LastSequence
      /\ IsTimeline(tl, 1..LastSequence) /\ Buffered(tl) /\ tl.cursor = Null
      /\ IsShaped(tl) /\ tl.buffered \in SUBSET (1..LastSequence)
  BY InvariantFacts, AnchorTypes, LatestMoves
<1>3. LatestPageFits(reply) /\ IsPage(reply)
  BY <1>1 DEF IInv, PagesFit, TypeOK, SessionTypeOK
<1>4. /\ IsContentOf(reply.content, 1..LastSequence)
      /\ reply.through \in 0..LastSequence
      /\ reply.next \in (1..LastSequence) \cup {Null}
      /\ reply.more \in BOOLEAN
  BY <1>2, <1>3 DEF LatestPageFits, IsPage
<1>5. DOMAIN reply.content \subseteq 1..reply.through
  BY <1>3 DEF LatestPageFits
<1>6. Waits(tl, tl')
  BY <1>1, <1>2, <1>4, <1>5, ApplyLatestWaits
<1>7. /\ tl'.cursor \in reply.through..LastSequence
      /\ tl'.visible \subseteq (floor'..tl'.cursor) \cup {s \in acked : s <= tl'.cursor}
  BY <1>1, <1>2, <1>4, LatestMoves, ApplyLatestProperties
<1>8. /\ tl'.cursor \in Int /\ tl'.cursor >= tl.cursor /\ reply.through <= tl'.cursor
      /\ tl'.cursor # Null /\ ViewEnds(tl')
  BY <1>2, <1>4, <1>7 DEF ViewEnds
<1>9. HasRead(tl', through') /\ HasRead(stored', stored'.through)
  BY <1>1 DEF HasRead, Saved
<1>10. RunReads(run', through')
  BY <1>1, OthersRead, ContinueReads
<1> QED BY <1>1, <1>6, <1>8, <1>9, <1>10, PageAnchors

\* A page of a recovery takes it to its watermark or nearer to it, and a run that
\* ends as ready has reached it.
LEMMA SyncAppliedAnchors ==
    ASSUME IInv, WaitInv, AnchorInv, NEW full \in BOOLEAN, SyncApplied(full)
    PROVE  AnchorInv'
<1>1. /\ UNCHANGED <<log, fanout, lost, link, attached, anchored>>
      /\ run.pc = "sync" /\ reply # NoPage /\ reply' = NoPage
  BY DEF SyncApplied, server, ghosts
<1>2. /\ LastSequence \in Nat /\ tl.cursor \in Int /\ tl.cursor \in (0..LastSequence) \cup {Null}
      /\ IsShaped(tl) /\ tl.buffered \in SUBSET (1..LastSequence)
      /\ tl.visible \in SUBSET (1..LastSequence) /\ tl.cursor # Null
      /\ Sequences = 1..LastSequence
  BY <1>1, AnchorTypes DEF IInv, RunFits
<1>3. ViewEnds(tl) /\ Waits(tl, tl) /\ HasRead(stored, stored.through)
  BY DEF AnchorInv, Waits
<1>4. CASE /\ UNCHANGED <<tl, through, stored>>
           /\ Continue(Settled("protocol_failure"), tl, through, link)
  <2>1. RunReads(run', through) /\ phase' # "ready"
    BY <1>4, OthersRead, ContinueReads, SettledIsOver, ContinueWaits
  <2>2. anchored' => anchored /\ link' = "joined" /\ attached'
    BY <1>1 DEF AnchorInv, Watched
  <2> QED BY <1>1, <1>4, <2>1, <2>2, AnchorKept
<1>5. CASE /\ UNCHANGED <<tl, stored>> /\ through' = reply.through
           /\ Continue(Settled("protocol_failure"), tl, through', link)
  <2>1. RunReads(run', through') /\ phase' # "ready"
    BY <1>5, OthersRead, ContinueReads, SettledIsOver, ContinueWaits
  <2>2. HasRead(tl', through') /\ HasRead(stored', stored'.through)
    BY <1>2, <1>3, <1>5 DEF HasRead
  <2> QED BY <1>1, <1>2, <1>3, <1>5, <2>1, <2>2, PageAnchors
<1>6. ASSUME NEW o, ~SyncCursorMismatch(tl, run.after), tl' = ApplySync(tl, reply),
             through' \in {Null, reply.through}, \E state : stored' = Saved(tl', through', state),
             Continue(o, tl', through', link), NotYetReady(o), RunReads(o.run, through'),
             o.phase = "ready" => through' = Null /\ ~reply.more
      PROVE  AnchorInv'
  <2>1. /\ tl'.cursor \in 0..LastSequence /\ Advances(tl, tl')
    BY <1>1, <1>6, SyncMoves
  <2>2. SyncPageFits(reply, run.after) /\ IsPage(reply)
    BY <1>1 DEF IInv, PagesFit, TypeOK, SessionTypeOK
  <2>3. /\ IsContentOf(reply.content, 1..LastSequence)
        /\ reply.next \in tl.cursor..LastSequence
        /\ DOMAIN reply.content = (tl.cursor + 1)..reply.next
    BY <1>2, <1>6, <2>2 DEF SyncPageFits, IsPage, SyncCursorMismatch
  <2>4. Waits(tl, tl')
    BY <1>2, <1>6, <2>3, ApplySyncWaits
  <2>5. tl'.cursor >= reply.next
    BY <1>2, <1>6, <2>3, InvariantFacts, ApplySyncProperties
  <2>6. tl'.cursor \in Int /\ tl'.cursor >= tl.cursor /\ tl'.cursor # Null
    BY <1>2, <2>1 DEF Advances
  <2>7. ViewEnds(tl')
    BY <1>2, <1>3, <2>1 DEF ViewEnds, Advances
  <2>8. RunReads(run', through') /\ (phase' = "ready" => o.phase = "ready")
    BY <1>6, ContinueReads, ContinueWaits
  <2>9. reply.more \/ reply.through <= reply.next
    BY <1>1 DEF AnchorInv, LastPageEnds
  <2>10. phase' = "ready" => reply.through <= reply.next
    BY <1>6, <2>8, <2>9, Zenon
  <2>11. phase' = "ready" => through' = Null /\ reply.through <= tl'.cursor
    <3>1. reply.through \in Int /\ reply.next \in Int
      BY <1>2, <2>3, AnchorTypes
    <3>2. reply.through <= reply.next => reply.through <= tl'.cursor
      BY <2>5, <2>6, <3>1
    <3> QED BY <1>6, <2>8, <2>10, <3>2, Zenon
  <2>12. HasRead(tl', through') /\ HasRead(stored', stored'.through)
    BY <1>6, <2>6 DEF HasRead, Saved
  <2> QED BY <1>1, <1>6, <2>4, <2>6, <2>7, <2>8, <2>11, <2>12, PageAnchors
<1>7. CASE ~(through # Null /\ through # reply.through)
           /\ ~(SyncCursorMismatch(tl, run.after) \/ SyncNoProgress(run.after, reply))
  <2>1. /\ tl' = ApplySync(tl, reply) /\ ~SyncCursorMismatch(tl, run.after)
        /\ through' = IF reply.more THEN reply.through ELSE Null
        /\ stored' = Saved(tl', through',
                           IF reply.more /\ full THEN "recovery_pending" ELSE "idle")
        /\ Continue(IF RecoveryDone(tl', reply) THEN Settled("ready")
                    ELSE IF reply.more /\ full THEN Suspended("yield", "recovery_pending")
                    ELSE RequestSync(tl', through', link),
                    tl', through', link)
    BY <1>7 DEF SyncApplied
  <2>2. through' \in {Null, reply.through} /\ \E state : stored' = Saved(tl', through', state)
    BY <2>1
  <2>3. CASE RecoveryDone(tl', reply)
    <3>1. Continue(Settled("ready"), tl', through', link)
      BY <2>1, <2>3
    <3>2. ~reply.more
      BY <2>3, Zenon DEF RecoveryDone
    <3>3. through' = Null
      BY <2>1, <3>2
    <3> QED BY <1>6, <2>1, <2>2, <3>1, <3>2, <3>3, SettledIsOver, OthersRead
  <2>4. CASE ~RecoveryDone(tl', reply) /\ reply.more /\ full
    <3>1. Continue(Suspended("yield", "recovery_pending"), tl', through', link)
      BY <2>1, <2>4
    <3>2. /\ NotYetReady(Suspended("yield", "recovery_pending"))
          /\ Suspended("yield", "recovery_pending").phase # "ready"
      BY DEF NotYetReady, Suspended
    <3> QED BY <1>6, <2>1, <2>2, <3>1, <3>2, OthersRead
  <2>5. CASE ~RecoveryDone(tl', reply) /\ ~(reply.more /\ full)
    <3>1. Continue(RequestSync(tl', through', link), tl', through', link)
      BY <2>1, <2>5
    <3>2. /\ NotYetReady(RequestSync(tl', through', link))
          /\ RequestSync(tl', through', link).phase # "ready"
      BY RequestSyncNotReady DEF NotYetReady
    <3> QED BY <1>6, <2>1, <2>2, <3>1, <3>2, BootstrapReads
  <2> QED BY <2>3, <2>4, <2>5
<1> QED BY <1>4, <1>5, <1>7 DEF SyncApplied

\* So every step of a run keeps what the session is owed.
LEMMA RecoveryAnchors ==
    ASSUME IInv, WaitInv, AnchorInv, Recovery
    PROVE  AnchorInv'
<1>1. anchored => link = "joined" /\ attached
  BY DEF AnchorInv, Watched
<1>2. CASE LatestFails \/ SyncFails
  <2>1. PICK ph \in {"retryable_failure", "stream_unavailable", "protocol_failure"} :
            Continue(Settled(ph), tl, through, link)
    BY <1>2 DEF LatestFails, SyncFails
  <2>2. RunReads(run', through) /\ phase' # "ready"
    BY <2>1, OthersRead, ContinueReads, SettledIsOver, ContinueWaits
  <2>3. /\ UNCHANGED <<log, fanout, lost, tl, through, stored, link, attached, anchored>>
        /\ reply' = NoPage
    BY <1>2 DEF LatestFails, SyncFails, server, ghosts
  <2> QED BY <1>1, <2>2, <2>3, AnchorKept
<1>3. CASE SyncRateLimited
  <2>1. /\ UNCHANGED <<log, fanout, lost, tl, through, link, attached, anchored, reply>>
        /\ reply = NoPage
        /\ stored' = stored \/ stored' = Saved(tl, through, "recovery_pending")
        /\ \/ Continue(Settled("protocol_failure"), tl, through, link)
           \/ Continue(Suspended("delay", "recovery_pending"), tl, through, link)
    BY <1>3 DEF SyncRateLimited, server, ghosts
  <2>2. /\ NotYetReady(Suspended("delay", "recovery_pending"))
        /\ Suspended("delay", "recovery_pending").phase # "ready"
    BY DEF NotYetReady, Suspended
  <2>3. RunReads(run', through) /\ phase' # "ready"
    BY <2>1, <2>2, OthersRead, ContinueReads, SettledIsOver, ContinueWaits
  <2> QED BY <1>1, <2>1, <2>3, AnchorKept
<1>4. CASE Resume
  <2>1. /\ UNCHANGED <<log, fanout, lost, tl, through, stored, link, attached, anchored, reply>>
        /\ run.pc \in {"delay", "yield"}
        /\ Continue(RequestSync(tl, through, link), tl, through, link)
    BY <1>4 DEF Resume, server, ghosts
  <2>2. reply = NoPage
    BY <2>1 DEF IInv, PagesFit
  <2>3. NotYetReady(RequestSync(tl, through, link)) /\ RequestSync(tl, through, link).phase # "ready"
    BY RequestSyncNotReady DEF NotYetReady
  <2>4. RunReads(run', through) /\ phase' # "ready"
    BY <2>1, <2>3, BootstrapReads, ContinueReads, ContinueWaits
  <2> QED BY <1>1, <2>1, <2>2, <2>4, AnchorKept
<1> QED BY <1>2, <1>3, <1>4, AnswersAnchor, LatestAppliedAnchors, SyncAppliedAnchors DEF Recovery

\* Older history lies before the window, and a new session starts unanchored.
LEMMA HistoryAnchors ==
    ASSUME IInv, AnchorInv, History
    PROVE  AnchorInv'
<1>1. anchored => link = "joined" /\ attached
  BY DEF AnchorInv, Watched
<1>2. CASE LoadOlder \/ OlderFails
  <2>1. UNCHANGED <<log, fanout, lost, tl, through, stored, link, attached, anchored, reply, run,
                    phase>>
    BY <1>2 DEF LoadOlder, OlderFails, server, conn, ghosts
  <2>2. RunReads(run', through)
    BY <2>1 DEF AnchorInv
  <2> QED BY <1>1, <2>1, <2>2, AnchorKept
<1>3. CASE OlderApplied
  <2>1. /\ UNCHANGED <<log, fanout, lost, link, attached, anchored, through, stored, reply, run, phase>>
        /\ tl' = ApplyOlder(tl, older) /\ older # NoPage
    BY <1>3 DEF OlderApplied, server, conn
  <2>2. /\ LastSequence \in Nat /\ IsShaped(tl) /\ tl.cursor \in Int
        /\ tl.visible \in SUBSET (1..LastSequence)
    BY AnchorTypes
  <2>3. OlderPageFits(older) /\ tl.cursor # Null /\ floor \in 1..(tl.cursor + 1)
    BY <2>1 DEF IInv, PagesFit, WindowConnects
  <2>4. \A s \in DOMAIN older.content : ~(s > tl.cursor)
    BY <2>2, <2>3 DEF OlderPageFits
  <2>5. Waits(tl, tl') /\ tl'.cursor = tl.cursor
    BY <2>1, <2>2, <2>4, ApplyOlderWaits
  <2>6. tl'.visible = tl.visible \cup (older.next..(floor - 1))
    BY <1>3, OlderMoves
  <2>7. ViewEnds(tl')
    BY <2>2, <2>3, <2>5, <2>6 DEF ViewEnds, AnchorInv, OlderPageFits
  <2>8. LastSequence' = LastSequence /\ Away' = Away
    BY <2>1 DEF LastSequence, Away
  <2> QED BY <2>1, <2>2, <2>5, <2>7, <2>8, AnchorMoves
<1>4. CASE \E clearCursor \in BOOLEAN : Reopen(clearCursor)
  <2>1. /\ run' = NoRun /\ reply' = NoPage /\ through' = stored'.through
        /\ phase' = stored'.state /\ stored' \in {NothingStored, stored}
    BY <1>4 DEF Reopen
  <2>2. tl'.visible = {} /\ tl'.cursor = stored'.cursor
    BY <1>4 DEF Reopen, EmptyTimeline, RestoredTimeline
  <2>3. ~anchored'
    BY <1>4, Zenon DEF Reopen
  <2>4. phase' # "ready"
    BY <2>1 DEF NothingStored, IInv, TypeOK, SessionTypeOK, StoredCursors
  <2>5. HasRead(stored', stored'.through) /\ HasRead(tl', through')
    BY <2>1, <2>2 DEF HasRead, AnchorInv, NothingStored
  <2>6. Watched'
    BY <2>3 DEF Watched
  <2>7. LastPageEnds' /\ ViewEnds(tl') /\ RunReads(run', through')
    BY <2>1, <2>2 DEF LastPageEnds, ViewEnds, RunReads, NoPage, NoRun
  <2> QED BY <2>4, <2>5, <2>6, <2>7 DEF AnchorInv
<1> QED BY <1>2, <1>3, <1>4 DEF History

LEMMA StepAnchors == IInv /\ WaitInv /\ AnchorInv /\ [Next]_vars => AnchorInv'
<1> SUFFICES ASSUME IInv, WaitInv, AnchorInv, [Next]_vars PROVE AnchorInv'
  OBVIOUS
<1>1. CASE UNCHANGED vars
  <2>1. UNCHANGED <<log, fanout, lost, tl, through, stored, link, attached, anchored, reply, run,
                    phase>>
    BY <1>1 DEF vars, server, conn, session, ghosts
  <2>2. RunReads(run', through) /\ (anchored => link = "joined" /\ attached)
    BY <2>1 DEF AnchorInv, Watched
  <2> QED BY <2>1, <2>2, AnchorKept
<1> QED BY <1>1, ServerAnchors, FramesAnchor, ConnectionAnchors, RecoveryAnchors, HistoryAnchors
        DEF Next

\* A session that says ready on a joined connection misses nothing, if its last
\* watermark was read after the gateway had joined it on this connection: for any
\* stream and any order of relays, pages, acceptances, failures and reconnections,
\* each message beyond the cursor waits in the buffer, is still to be relayed, or
\* is one that the gateway lost.
THEOREM AnchoredReadyNeverMisses == Spec => []AnchoredReadyMissesNothing
<1>1. Init => WaitInv /\ AnchorInv
  BY InitWaits, InitAnchors
<1>2. WaitInv /\ [Next]_vars => WaitInv'
  BY StepWaits
<1>3. IInv /\ WaitInv /\ AnchorInv /\ [Next]_vars => AnchorInv'
  BY StepAnchors
<1>4. IInv /\ AnchorInv => AnchoredReadyMissesNothing
  <2> SUFFICES ASSUME IInv, AnchorInv, phase = "ready", anchored
               PROVE  Missed = {}
    BY DEF AnchoredReadyMissesNothing
  <2>1. Covers(tl.cursor, LastSequence, tl, Away)
    BY DEF AnchorInv, Watched
  <2>2. Sequences = 1..LastSequence /\ tl.cursor \in Int /\ LastSequence \in Nat
    BY AnchorTypes
  <2> QED BY <2>1, <2>2 DEF Missed, Covers, Away
<1> QED BY <1>1, <1>2, <1>3, <1>4, InvariantHolds, PTL DEF Spec

-----------------------------------------------------------------------------
(***************************************************************************)
(* StreamSession implements StreamView: pages, live messages, acceptances, *)
(* reconnections and reopened sessions, in any order, never punch a hole   *)
(* into the window of the view or take a message out of it.  And the       *)
(* stream under the session is a StreamLog.                                *)
(***************************************************************************)

\* A step that leaves the stream's length, the own messages and the view alone
\* is a stutter of the view.
LEMMA ViewStutters ==
    ASSUME UNCHANGED <<LastSequence, own, floor, tl>>
    PROVE  [View!Next]_View!vars
BY DEF View!vars, View!view

\* A run of messages at the end of the window moves it forward.
LEMMA ViewAdvances ==
    ASSUME IInv, UNCHANGED <<log, own, floor>>,
           tl.cursor # Null, tl'.cursor \in 0..LastSequence, Advances(tl, tl')
    PROVE  [View!Next]_View!vars
<1>1. /\ LastSequence \in Nat /\ LastSequence' = LastSequence
      /\ tl.cursor \in 0..LastSequence
  BY InvariantFacts DEF LastSequence
<1>2. /\ tl'.cursor >= tl.cursor
      /\ tl'.visible = tl.visible \cup ((tl.cursor + 1)..tl'.cursor)
  BY DEF Advances
<1>3. CASE tl'.cursor = tl.cursor
  <2>1. tl'.visible = tl.visible
    BY <1>1, <1>2, <1>3
  <2> QED BY <1>1, <1>3, <2>1 DEF View!vars, View!view
<1>4. CASE tl'.cursor # tl.cursor
  <2>1. tl'.cursor \in (tl.cursor + 1)..LastSequence
    BY <1>1, <1>2, <1>4
  <2>2. View!Forward
    BY <1>1, <1>2, <2>1 DEF View!Forward, View!NoCursor
  <2> QED BY <2>2 DEF View!Next
<1> QED BY <1>3, <1>4

\* A committed message lengthens the stream.
LEMMA CommitRefines ==
    ASSUME IInv, NEW mine \in BOOLEAN, Commit(mine)
    PROVE  [View!Next]_View!vars
<1>1. LastSequence' = LastSequence + 1
  <2>1. log \in Seq(Content) /\ Original \in Content
    BY DEF IInv, TypeOK, ServerTypeOK, Original, Content
  <2> QED BY <2>1, AppendProperties DEF Commit, LastSequence
<1>2. own' \in {own, own \cup {LastSequence + 1}} /\ UNCHANGED <<floor, tl>>
  BY DEF Commit, session, ghosts
<1>3. View!Grow
  BY <1>1, <1>2 DEF View!Grow, View!view
<1> QED BY <1>3 DEF View!Next

\* An edit or a delete is a stutter of the view.
LEMMA MutateRefines ==
    ASSUME IInv, NEW s \in Sequences, NEW delete \in BOOLEAN, NEW asked \in BOOLEAN,
           Mutate(s, delete, asked)
    PROVE  [View!Next]_View!vars
<1>1. Len(log') = Len(log)
  <2>1. log \in Seq(Content) /\ s \in 1..Len(log)
    BY DEF IInv, TypeOK, ServerTypeOK, Sequences, LastSequence
  <2>2. PICK stamp \in Stamps : log' = [log EXCEPT ![s] = Changed(log[s], delete, stamp)]
    BY DEF Mutate
  <2>3. Changed(log[s], delete, stamp) \in Content
    BY <2>1, ElementOfSeq, ChangedContent
  <2> QED BY <2>1, <2>2, <2>3, ExceptSeq
<1>2. UNCHANGED <<own, floor, tl>>
  BY DEF Mutate, session, ghosts
<1> QED BY <1>1, <1>2, ViewStutters DEF LastSequence

\* A live message moves the window forward, or waits.
LEMMA FanOutRefines ==
    ASSUME IInv, NEW s \in Sequences, FanOut(s)
    PROVE  [View!Next]_View!vars
<1>1. UNCHANGED <<log, own, floor>>
  BY FanOutMoves
<1>2. LastSequence' = LastSequence
  BY <1>1 DEF LastSequence
<1>3. CASE tl.cursor = Null
  BY <1>1, <1>2, <1>3, FanOutMoves DEF View!vars, View!view
<1>4. CASE tl.cursor # Null
  <2>1. IsTimeline(tl', 1..LastSequence) /\ tl'.cursor # Null /\ Advances(tl, tl')
    BY <1>4, FanOutMoves
  <2>2. tl'.cursor \in 0..LastSequence
    BY <2>1, InvariantFacts DEF IsTimeline
  <2> QED BY <1>1, <1>4, <2>1, <2>2, ViewAdvances
<1> QED BY <1>3, <1>4

\* An acceptance before the cursor shows an own message, another is a live message.
LEMMA AckRefines ==
    ASSUME IInv, NEW s \in Sequences, AckArrives(s)
    PROVE  [View!Next]_View!vars
<1>1. UNCHANGED <<log, own, floor>> /\ s \in own
  BY AckMoves
<1>2. LastSequence' = LastSequence
  BY <1>1 DEF LastSequence
<1>3. CASE tl.cursor = Null
  BY <1>1, <1>2, <1>3, AckMoves DEF View!vars, View!view
<1>4. CASE tl.cursor # Null /\ s <= tl.cursor
  <2>1. tl'.cursor = tl.cursor /\ tl'.visible = tl.visible \cup {s}
    BY <1>4, AckMoves
  <2>2. View!Accept(s)
    BY <1>1, <1>2, <1>4, <2>1 DEF View!Accept, View!NoCursor
  <2> QED BY <1>1, <2>2 DEF View!Next
<1>5. CASE tl.cursor # Null /\ ~(s <= tl.cursor)
  <2>1. IsTimeline(tl', 1..LastSequence) /\ tl'.cursor # Null /\ Advances(tl, tl')
    BY <1>5, AckMoves
  <2>2. tl'.cursor \in 0..LastSequence
    BY <2>1, InvariantFacts DEF IsTimeline
  <2> QED BY <1>1, <1>5, <2>1, <2>2, ViewAdvances
<1> QED BY <1>3, <1>4, <1>5

\* A result replaces the content of a message and is a stutter of the view.
LEMMA ResultRefines ==
    ASSUME IInv, NEW r \in results, ResultArrives(r)
    PROVE  [View!Next]_View!vars
<1>1. UNCHANGED <<log, own, floor>> /\ tl' = ReplaceKnown(tl, r.seq, r.content)
  BY DEF ResultArrives, ghosts
<1>2. r.content \in Content
  BY DEF IInv, TypeOK, ServerTypeOK
<1>3. tl'.visible = tl.visible /\ tl'.cursor = tl.cursor
  BY <1>1, <1>2, InvariantFacts, ReplaceKnownProperties
<1> QED BY <1>1, <1>3 DEF View!vars, View!view, LastSequence

\* The first page opens the window.
LEMMA LatestAppliedRefines ==
    ASSUME IInv, LatestApplied
    PROVE  [View!Next]_View!vars
<1>1. UNCHANGED <<log, own>>
  BY DEF LatestApplied, server
<1>2. LastSequence' = LastSequence /\ LastSequence \in Nat
  BY <1>1, InvariantFacts DEF LastSequence
<1>3. /\ tl.cursor = Null
      /\ tl'.cursor \in 0..LastSequence
      /\ floor' \in 1..(tl'.cursor + 1)
      /\ floor'..tl'.cursor \subseteq tl'.visible
      /\ tl'.visible \subseteq (floor'..tl'.cursor) \cup {s \in acked : s <= tl'.cursor}
  BY LatestMoves
<1>4. acked \subseteq own
  BY DEF IInv, TypeOK, HistoryTypeOK
<1>5. View!Open
  BY <1>1, <1>2, <1>3, <1>4 DEF View!Open, View!NoCursor
<1> QED BY <1>5 DEF View!Next

\* A page of a recovery moves the window forward.
LEMMA SyncAppliedRefines ==
    ASSUME IInv, NEW full \in BOOLEAN, SyncApplied(full)
    PROVE  [View!Next]_View!vars
<1>1. UNCHANGED <<log, own, floor>> /\ run.pc = "sync" /\ reply # NoPage
  BY DEF SyncApplied, server, ghosts
<1>2. CASE UNCHANGED tl
  BY <1>1, <1>2, ViewStutters DEF LastSequence
<1>3. CASE ~SyncCursorMismatch(tl, run.after) /\ tl' = ApplySync(tl, reply)
  <2>1. tl.cursor # Null /\ tl'.cursor \in 0..LastSequence /\ Advances(tl, tl')
    BY <1>1, <1>3, SyncMoves
  <2> QED BY <1>1, <2>1, ViewAdvances
<1> QED BY <1>2, <1>3 DEF SyncApplied

\* A page of older messages moves the window backward.
LEMMA OlderAppliedRefines ==
    ASSUME IInv, OlderApplied
    PROVE  [View!Next]_View!vars
<1>1. UNCHANGED <<log, own>>
  BY DEF OlderApplied, server
<1>2. LastSequence' = LastSequence
  BY <1>1 DEF LastSequence
<1>3. /\ tl.cursor # Null /\ floor \in 1..(tl.cursor + 1)
      /\ floor' \in 1..floor
      /\ tl'.visible = tl.visible \cup (floor'..(floor - 1))
      /\ tl'.cursor = tl.cursor /\ tl.cursor \in Int
  BY OlderMoves, InvariantFacts
<1>4. CASE floor' = floor
  <2>1. tl'.visible = tl.visible
    BY <1>3, <1>4
  <2> QED BY <1>1, <1>2, <1>3, <1>4, <2>1 DEF View!vars, View!view
<1>5. CASE floor' # floor
  <2>1. floor' \in 1..(floor - 1)
    BY <1>3, <1>5
  <2>2. View!Backward
    BY <1>1, <1>2, <1>3, <2>1 DEF View!Backward, View!NoCursor
  <2> QED BY <2>2 DEF View!Next
<1> QED BY <1>4, <1>5

\* A new session restarts from nothing or from a stored cursor.
LEMMA ReopenRefines ==
    ASSUME IInv, NEW clearCursor \in BOOLEAN, Reopen(clearCursor)
    PROVE  [View!Next]_View!vars
<1>1. /\ UNCHANGED <<log, own>>
      /\ stored' \in {NothingStored, stored}
      /\ tl' = IF stored'.cursor = Null THEN EmptyTimeline ELSE RestoredTimeline(stored'.cursor)
      /\ floor' = IF stored'.cursor = Null THEN 1 ELSE stored'.cursor + 1
  BY DEF Reopen, server
<1>2. LastSequence' = LastSequence /\ LastSequence \in Nat
  BY <1>1, InvariantFacts DEF LastSequence
<1>3. tl'.cursor = stored'.cursor /\ tl'.visible = {}
  BY <1>1 DEF RestoredTimeline, EmptyTimeline
<1>4. stored'.cursor \in {Null} \cup 0..tl.cursor
  <2>1. /\ stored.cursor \in (0..LastSequence) \cup {Null} /\ stored.cursor <= tl.cursor
        /\ tl.cursor \in (0..LastSequence) \cup {Null}
    BY InvariantFacts, StoredFacts DEF StoredCursors
  <2>2. NothingStored.cursor = Null
    BY DEF NothingStored
  <2> QED BY <1>1, <1>2, <2>1, <2>2
<1>5. View!Restart
  BY <1>1, <1>2, <1>3, <1>4 DEF View!Restart, View!NoCursor
<1> QED BY <1>5 DEF View!Next

\* Every other step leaves the view alone.
LEMMA OthersRefine ==
    ASSUME IInv,
           \/ \E s \in Sequences : FanOutLost(s)
           \/ Connection
           \/ LatestAnswered \/ LatestFails \/ SyncAnswered \/ SyncFails
           \/ SyncRateLimited \/ Resume \/ LoadOlder \/ OlderFails
    PROVE  [View!Next]_View!vars
<1>1. UNCHANGED <<log, own, floor, tl>>
  BY DEF FanOutLost, Connection, Start, RetryRecovery, Connected, JoinHandled, ConnectFails,
         Disconnect, LatestAnswered, LatestFails, SyncAnswered, SyncFails, SyncRateLimited,
         Resume, LoadOlder, OlderFails, server, session, ghosts
<1> QED BY <1>1, ViewStutters DEF LastSequence

\* Every behaviour of the session, with the window that ends at the delivery
\* cursor and begins at the oldest loaded message, is one of StreamView.
THEOREM SessionImplementsStreamView == Spec => ImplementsStreamView
<1>1. Init => View!Init
  <2> SUFFICES ASSUME Init PROVE View!Init
    OBVIOUS
  <2>1. LastSequence \in Nat
    BY InitInvariant, InvariantFacts
  <2>2. tl.cursor = Null /\ tl.visible = {}
    BY DEF Init, EmptyTimeline
  <2> QED BY <2>1, <2>2 DEF Init, View!Init, View!NoCursor
<1>2. IInv /\ [Next]_vars => [View!Next]_View!vars
  <2> SUFFICES ASSUME IInv, [Next]_vars PROVE [View!Next]_View!vars
    OBVIOUS
  <2>1. CASE UNCHANGED vars
    BY <2>1, ViewStutters DEF vars, server, session, ghosts, LastSequence
  <2>2. CASE Server
    BY <2>2, CommitRefines, MutateRefines, FanOutRefines, OthersRefine DEF Server
  <2>3. CASE Frames
    BY <2>3, AckRefines, ResultRefines DEF Frames
  <2>4. CASE Connection
    BY <2>4, OthersRefine
  <2>5. CASE Recovery
    BY <2>5, LatestAppliedRefines, SyncAppliedRefines, OthersRefine DEF Recovery
  <2>6. CASE History
    BY <2>6, OlderAppliedRefines, ReopenRefines, OthersRefine DEF History
  <2> QED BY <2>1, <2>2, <2>3, <2>4, <2>5, <2>6 DEF Next
<1> QED BY <1>1, <1>2, InvariantHolds, PTL DEF Spec, ImplementsStreamView, View!Spec

\* The window of the abstract view lies within the stream and connects to what is
\* shown; that it may be empty, but never starts further than one past its end,
\* makes it inductive.
WindowInv ==
    /\ LastSequence \in Nat
    /\ tl.cursor \in {Null} \cup 0..LastSequence
    /\ tl.cursor # Null => floor \in 1..(tl.cursor + 1)
    /\ View!WindowInView

\* The promise of the abstract view, and so of the session that implements it: in
\* every reachable state the window is in view without a hole, and whatever else
\* is in view is an own message of the stream.
THEOREM WindowStaysInView == View!Spec => []View!WindowInView
<1> USE DEF View!NoCursor
<1>1. View!Init => WindowInv
  BY DEF View!Init, WindowInv, View!WindowInView
<1>2. WindowInv /\ [View!Next]_View!vars => WindowInv'
  <2> SUFFICES ASSUME WindowInv, [View!Next]_View!vars PROVE WindowInv'
    OBVIOUS
  <2>1. CASE View!Open
    <3>1. /\ LastSequence' = LastSequence /\ LastSequence \in Nat
          /\ tl'.cursor \in 0..LastSequence /\ floor' \in 1..(tl'.cursor + 1)
      BY <2>1 DEF View!Open, WindowInv
    <3>2. /\ floor'..tl'.cursor \subseteq tl'.visible
          /\ tl'.visible \subseteq (floor'..tl'.cursor) \cup own'
      BY <2>1 DEF View!Open
    <3>3. /\ LastSequence' \in Nat /\ tl'.cursor \in {Null} \cup 0..LastSequence'
          /\ floor' \in 1..(tl'.cursor + 1) /\ tl'.cursor <= LastSequence'
      BY <3>1
    <3> QED BY ONLY <3>2, <3>3 DEF WindowInv, View!WindowInView
  <2>2. CASE View!Restart
    <3>1. /\ LastSequence' = LastSequence /\ tl'.cursor \in {Null} \cup 0..tl.cursor
          /\ tl'.visible = {} /\ (tl'.cursor # Null => floor' = tl'.cursor + 1)
      BY <2>2 DEF View!Restart
    <3>2. tl'.cursor \in {Null} \cup 0..LastSequence
      BY <3>1 DEF WindowInv
    <3> QED BY <3>1, <3>2 DEF WindowInv, View!WindowInView
  <2> USE DEF WindowInv, View!WindowInView
  <2>3. CASE View!Grow
    BY <2>3 DEF View!Grow, View!view
  <2>4. CASE View!Forward
    BY <2>4 DEF View!Forward
  <2>5. CASE View!Backward
    BY <2>5 DEF View!Backward
  <2>6. CASE \E s \in own : View!Accept(s)
    BY <2>6 DEF View!Accept
  <2>7. CASE UNCHANGED View!vars
    BY <2>7 DEF View!vars, View!view
  <2> QED BY <2>1, <2>2, <2>3, <2>4, <2>5, <2>6, <2>7 DEF View!Next
<1>3. WindowInv => View!WindowInView
  BY DEF WindowInv
<1> QED BY <1>1, <1>2, <1>3, PTL DEF View!Spec

(***************************************************************************)
(* The stream under the session.                                           *)
(***************************************************************************)

\* What of a content the log of the store knows.
Row(c) == [rev |-> c.rev, deleted |-> c.deleted]

\* A commit appends to the log, and changes none of its rows.
LEMMA CommitGrowsLog ==
    ASSUME IInv, NEW mine \in BOOLEAN, Commit(mine)
    PROVE  Log!Next
<1> DEFINE N == LastSequence
<1>1. log \in Seq(Content) /\ N = Len(log) /\ N \in Nat
  BY InvariantFacts DEF IInv, TypeOK, ServerTypeOK, LastSequence
<1>2. Original \in Content /\ Row(Original) = [rev |-> 0, deleted |-> FALSE]
  BY DEF Original, Content, Row
<1>3. /\ LastSequence' = N + 1
      /\ \A s \in 1..(N + 1) : log'[s] = IF s = N + 1 THEN Original ELSE log[s]
  BY <1>1, <1>2 DEF Commit, LastSequence
<1>4. Sequences = 1..N /\ Sequences' = 1..(N + 1)
  BY <1>1, <1>3 DEF Sequences
<1> DEFINE rows == [s \in 1..N |-> Row(log[s])]
<1>5. rows \in Seq([rev : Nat, deleted : BOOLEAN]) /\ Len(rows) = N
  <2>1. \A s \in 1..N : Row(log[s]) \in [rev : Nat, deleted : BOOLEAN]
    <3> TAKE s \in 1..N
    <3>1. log[s] \in Content
      BY <1>1
    <3> QED BY <3>1 DEF Row, Content
  <2> QED BY <1>1, <2>1
<1>6. [s \in 1..(N + 1) |-> Row(log'[s])] = Append(rows, Row(Original))
  <2> DEFINE grown == [s \in 1..(N + 1) |-> Row(log'[s])]
             appended == Append(rows, Row(Original))
  <2>1. DOMAIN appended = 1..(N + 1) /\ appended = [s \in 1..(N + 1) |-> appended[s]]
    BY <1>1, <1>2, <1>5
  <2>2. \A s \in 1..(N + 1) : appended[s] = IF s = N + 1 THEN Row(Original) ELSE rows[s]
    BY <1>1, <1>2, <1>5
  <2>3. \A s \in 1..(N + 1) : grown[s] = appended[s]
    BY <1>1, <1>3, <2>2
  <2> QED BY <2>1, <2>3
<1>7. Log!Grow
  BY <1>2, <1>4, <1>6 DEF Log!Grow, Log!Fresh, Row
<1> QED BY <1>7 DEF Log!Next

\* An edit or a delete changes one row of the log, unless it is deleted.
LEMMA MutateChangesLog ==
    ASSUME IInv, NEW s \in Sequences, NEW delete \in BOOLEAN, NEW asked \in BOOLEAN,
           Mutate(s, delete, asked)
    PROVE  Log!Next \/ UNCHANGED log
<1>1. /\ log \in Seq(Content) /\ Sequences = 1..Len(log) /\ Len(log) \in Nat
  BY InvariantFacts DEF IInv, TypeOK, ServerTypeOK, LastSequence
<1>2. PICK stamp \in Stamps : log' = [log EXCEPT ![s] = Changed(log[s], delete, stamp)]
  BY DEF Mutate
<1>3. log[s] \in Content
  BY <1>1
<1>4. CASE log[s].deleted
  <2>1. log' = log
    BY <1>1, <1>2, <1>4 DEF Changed
  <2> QED BY <2>1
<1>5. CASE ~log[s].deleted
  <2>1. Row(Changed(log[s], delete, stamp)) = [rev |-> log[s].rev + 1, deleted |-> delete]
    BY <1>5 DEF Changed, Row
  <2>2. Sequences' = Sequences
    BY <1>1, <1>2 DEF Sequences, LastSequence
  <2>3. \A i \in Sequences : log'[i] = IF i = s THEN Changed(log[s], delete, stamp) ELSE log[i]
    BY <1>1, <1>2
  <2>4. [i \in Sequences |-> Row(log'[i])]
            = [[i \in Sequences |-> Row(log[i])] EXCEPT
                  ![s] = [rev |-> log[s].rev + 1, deleted |-> delete]]
    BY <2>1, <2>3
  <2>5. Log!Change(s)
    BY <1>5, <2>2, <2>4 DEF Log!Change, Row
  <2> QED BY <2>5 DEF Log!Next
<1> QED BY <1>4, <1>5

\* The stream that the session follows is a StreamLog: what is proved and checked
\* of the session rests on nothing that the store does not promise.
THEOREM ServerKeepsStreamLog == Spec => ServerIsStreamLog
<1>1. Init => Log!Init
  <2> SUFFICES ASSUME Init PROVE Log!Init
    OBVIOUS
  <2>1. log \in Seq(Content) /\ LastSequence \in Nat /\ Sequences = 1..LastSequence
    BY InitInvariant, InvariantFacts DEF IInv, TypeOK, ServerTypeOK
  <2>2. \A s \in 1..LastSequence : Row(log[s]) \in [rev : Nat, deleted : BOOLEAN]
    <3> TAKE s \in 1..LastSequence
    <3>1. log[s] \in Content
      BY <2>1 DEF LastSequence
    <3> QED BY <3>1 DEF Row, Content
  <2>3. [s \in 1..LastSequence |-> Row(log[s])] \in Seq([rev : Nat, deleted : BOOLEAN])
    BY <2>1, <2>2
  <2> QED BY <2>1, <2>3 DEF Log!Init, Row
<1>2. IInv /\ [Next]_vars => [Log!Next]_([s \in Sequences |-> [rev |-> log[s].rev, deleted |-> log[s].deleted]])
  <2> SUFFICES ASSUME IInv, [Next]_vars PROVE Log!Next \/ UNCHANGED log
    BY DEF Sequences, LastSequence
  <2>1. CASE UNCHANGED vars
    BY <2>1 DEF vars, server
  <2>2. CASE Server
    <3>1. CASE \E mine \in BOOLEAN : Commit(mine)
      BY <3>1, CommitGrowsLog
    <3>2. CASE \E s \in Sequences, delete, asked \in BOOLEAN : Mutate(s, delete, asked)
      BY <3>2, MutateChangesLog
    <3>3. CASE \E s \in Sequences : FanOut(s) \/ FanOutLost(s)
      BY <3>3 DEF FanOut, FanOutLost
    <3> QED BY <2>2, <3>1, <3>2, <3>3 DEF Server
  <2>3. CASE Frames
    BY <2>3 DEF Frames, AckArrives, ResultArrives, server
  <2>4. CASE Connection
    BY <2>4 DEF Connection, Start, RetryRecovery, Connected, JoinHandled, ConnectFails,
                Disconnect, server
  <2>5. CASE Recovery
    BY <2>5 DEF Recovery, LatestAnswered, LatestApplied, LatestFails, SyncAnswered, SyncFails,
                SyncRateLimited, Resume, SyncApplied, server
  <2>6. CASE History
    BY <2>6 DEF History, LoadOlder, OlderApplied, OlderFails, Reopen, server
  <2> QED BY <2>1, <2>2, <2>3, <2>4, <2>5, <2>6 DEF Next
<1> QED BY <1>1, <1>2, InvariantHolds, PTL DEF Spec, ServerIsStreamLog, Log!Spec

-----------------------------------------------------------------------------
(***************************************************************************)
(* The known contents                                                      *)
(***************************************************************************)

LEMMA KeptIsNewer ==
    ASSUME NEW r, NEW q, NEW S, IsContentOf(r, S), Keeps(r, q)
    PROVE  KeepsNewer(r, q)
<1>1. \A s \in DOMAIN r : r[s].at \in Nat /\ q[s] = r[s]
  BY DEF IsContentOf, Keeps, Content
<1> QED BY <1>1 DEF KeepsNewer

\* A page replaces what is known only by what is no older.
LEMMA MergedIsNewer ==
    ASSUME NEW r, NEW page, NEW S, IsContentOf(r, S), IsContentOf(page, S)
    PROVE  KeepsNewer(r, MergedRecords(r, page))
<1> SUFFICES ASSUME NEW s \in DOMAIN r
             PROVE  LET d == MergedRecords(r, page)[s]
                    IN  (r[s].deleted => d.deleted) /\ (d.deleted \/ d.at >= r[s].at)
  BY DEF KeepsNewer
<1>1. r[s].at \in Nat /\ r[s].deleted \in BOOLEAN
  BY DEF IsContentOf, Content
<1>2. CASE s \notin DOMAIN page
  BY <1>1, <1>2 DEF MergedRecords
<1>3. CASE s \in DOMAIN page
  <2>1. page[s].at \in Nat /\ page[s].deleted \in BOOLEAN
    BY <1>3 DEF IsContentOf, Content
  <2>2. MergedRecords(r, page)[s] = Reconciled(r[s], page[s])
    BY <1>3 DEF MergedRecords
  <2>3. CASE Reconciled(r[s], page[s]) = r[s]
    BY <1>1, <2>2, <2>3
  <2>4. CASE Reconciled(r[s], page[s]) = page[s] /\ ~r[s].deleted /\ ~HasNewerEdit(r[s], page[s])
    BY <1>1, <2>1, <2>2, <2>4 DEF HasNewerEdit
  <2> QED BY <2>3, <2>4 DEF Reconciled
<1> QED BY <1>2, <1>3

\* Whatever a step applies to the timeline, the result of an edit excepted, what
\* was known is kept or gives way to what is no older.
LEMMA StepKeepsNewer ==
    ASSUME IInv, Next, attached', ~(\E r \in results : ResultArrives(r))
    PROVE  KeepsNewer(tl.records, tl'.records)
<1>1. /\ IsShaped(tl) /\ IsContentOf(tl.records, Sequences)
      /\ IsContentOf(reply.content, Sequences) /\ IsContentOf(older.content, Sequences)
  <2>1. IsTimeline(tl, Sequences)
    BY DEF IInv, TypeOK, SessionTypeOK
  <2> QED BY <2>1, TimelineIsShaped DEF IInv, TypeOK, SessionTypeOK, IsTimeline, IsPage
<1>2. CASE tl' = tl
  BY <1>1, <1>2, KeptIsNewer DEF Keeps
<1>3. CASE Server
  <2>1. tl' = tl \/ \E s \in Sequences : tl' = ApplyLive(tl, s, Original)
    BY <1>3 DEF Server, Commit, Mutate, FanOut, FanOutLost, session
  <2> QED BY <1>1, <1>2, <2>1, ApplyLiveKeeps, KeptIsNewer
<1>4. CASE Frames
  <2>1. \E s, c : tl' = ApplyAccepted(tl, s, c)
    BY <1>4 DEF Frames, AckArrives
  <2> QED BY <1>1, <2>1, ApplyAcceptedKeeps, KeptIsNewer
<1>5. CASE Connection
  <2>1. tl' = tl
    BY <1>5 DEF Connection, Start, RetryRecovery, Connected, JoinHandled, ConnectFails,
                Disconnect, session
  <2> QED BY <1>2, <2>1
<1>6. CASE Recovery
  <2>1. tl' = tl \/ tl' = ApplyLatest(tl, reply) \/ tl' = ApplySync(tl, reply)
    BY <1>6 DEF Recovery, LatestAnswered, LatestApplied, LatestFails, SyncAnswered, SyncFails,
                SyncRateLimited, Resume, SyncApplied
  <2>2. CASE tl' = tl
    BY <1>2, <2>2
  <2>3. CASE tl'.records = MergedRecords(tl.records, reply.content)
    BY <1>1, <2>3, MergedIsNewer
  <2> QED BY <1>1, <2>1, <2>2, <2>3, ApplyPageRecords
<1>7. CASE History
  <2>1. tl' = tl \/ tl' = ApplyOlder(tl, older)
    BY <1>7 DEF History, LoadOlder, OlderApplied, OlderFails, Reopen
  <2>2. CASE tl'.records = MergedRecords(tl.records, older.content)
    BY <1>1, <2>2, MergedIsNewer
  <2> QED BY <1>1, <1>2, <2>1, <2>2, ApplyPageRecords
<1> QED BY <1>3, <1>4, <1>5, <1>6, <1>7 DEF Next

\* Pages, live messages and acceptances, in any order with the edits of every
\* tab, never bring back a deleted message or a text with an earlier editedAt.
THEOREM ContentNeverGetsOlder == Spec => ContentNeverRegresses
<1>1. IInv /\ [Next]_vars =>
          [attached' /\ ~(\E r \in results : ResultArrives(r))
               => KeepsNewer(tl.records, tl'.records)]_vars
  BY StepKeepsNewer
<1> QED BY <1>1, InvariantHolds, PTL DEF Spec, ContentNeverRegresses

=============================================================================
