--------------------------- MODULE StreamSession ---------------------------
(***************************************************************************)
(* One browser session of one chat channel: how the client of              *)
(* realtime-chat-stream-messages-client keeps its timeline equal to the    *)
(* server's message stream over a connection that drops.                   *)
(*                                                                         *)
(* Four parts interact.                                                    *)
(*   - The message stream: messages are committed with consecutive         *)
(*     sequences, edited and deleted.                                      *)
(*   - The gateway: relays the message to the joined connections after the *)
(*     commit, each relay in its own task, so fan-outs overtake each other.*)
(*   - The connection (AuthenticatedRealtimeSessionModel and the browser   *)
(*     message transport): closed, connecting, ready, joined.              *)
(*   - The session: the timeline, the recovery phase and watermark, the    *)
(*     stored cursor, the bootstrap coroutine (run), the request for older *)
(*     history and the queue of recoveries that new connections ask for.   *)
(* A coroutine step extends from one await to the next, and so does an     *)
(* action.                                                                 *)
(***************************************************************************)
EXTENDS Timeline, Sequences

CONSTANTS
    InitialMessages,  \* messages of the stream before the session starts
    LatestLimit,      \* MAX_LATEST_MESSAGES_QUERY_COUNT, 5 in the code
    SyncLimit,        \* limit of a syncAfter request, 50 in the code
    OlderLimit,       \* limit of a loadOlder request, 50 in the code
    MaxMessages,      \* bound: length of the stream
    MaxOwn,           \* bound: messages this client sends
    MaxRevision,      \* bound: changes of one message
    MaxInFlight,      \* bound: edit and delete results on their way
    OtherTabs,        \* whether the actor edits from other tabs as well
    MaxLost,          \* bound: fan-outs the gateway never makes
    MaxDrops,         \* bound: connections that close or fail to open
    MaxErrors,        \* bound: requests that fail
    MaxReopens        \* bound: disposals followed by a new session

ASSUME LimitsAssumption ==
    /\ LatestLimit \in Nat \ {0}
    /\ SyncLimit \in Nat \ {0}
    /\ OlderLimit \in Nat \ {0}

ASSUME BoundsAssumption ==
    /\ InitialMessages \in Nat
    /\ MaxMessages \in Nat
    /\ MaxOwn \in Nat
    /\ MaxRevision \in Nat
    /\ MaxInFlight \in Nat
    /\ OtherTabs \in BOOLEAN
    /\ MaxLost \in Nat
    /\ MaxDrops \in Nat
    /\ MaxErrors \in Nat
    /\ MaxReopens \in Nat

VARIABLES
    log,       \* the stream: current content of every sequence
    own,       \* sequences this client sent
    fanout,    \* committed, not yet relayed by the gateway
    results,   \* edit and delete results on their way to this client
    link,      \* the connection
    attached,  \* the session listens to the message transport
    start,     \* what #runStart awaits
    drain,     \* #drainConnectionRecoveryQueue and the pending generation
    tl,        \* the timeline
    phase,     \* recovery.phase
    through,   \* recovery.throughSequence
    stored,    \* cursor storage of the page
    run,       \* the bootstrap coroutine: its await and its request
    reply,     \* the page on its way to run
    older,     \* the page on its way to loadOlder
    \* history variables
    floor,     \* first sequence of the contiguous history in view
    acked,     \* accepted messages this session was told of
    lost,      \* fan-outs the gateway did not make
    anchored,  \* the last watermark was read on this connection, after the join
    owed,      \* head of the stream when a session with a cursor reconnected
    drops, errors, reopens  \* what the bounds count

server  == <<log, own, fanout, results>>
conn    == <<link, attached, start, drain>>
session == <<tl, phase, through, stored, run, reply, older>>
ghosts  == <<floor, acked, lost, anchored, owed>>
budget  == <<drops, errors, reopens>>
vars    == <<server, conn, session, ghosts, budget>>

-----------------------------------------------------------------------------
(***************************************************************************)
(* The read model: load-latest, load-older and sync-after read one         *)
(* repeatable-read snapshot, and the API trims the page to the envelope    *)
(* size, so a page holds any nonempty part of what its limit allows,       *)
(* contiguous at the end the cursor refers to.                             *)
(***************************************************************************)
LastSequence == Len(log)

Sequences == 1..LastSequence

\* The page first..last, beyond which rest messages remain to be read.
Page(first, last, watermark, next, rest) ==
    [content |-> [s \in first..last |-> log[s]],
     through |-> watermark,
     next    |-> next,
     more    |-> rest > 0]

NoPage == [content |-> [s \in {} |-> Original],
           through |-> Null, next |-> Null, more |-> FALSE]

\* The first sequences a backward page that ends at last may start from.
BackwardStarts(last, limit) ==
    {first \in 1..last : last - first + 1 <= limit}

BackwardPage(first, last, watermark) ==
    Page(first, last, watermark, first, first - 1)

\* An empty stream or an empty range: oldest is undefined.
EmptyBackwardPage(watermark) == [NoPage EXCEPT !.through = watermark]

LatestPages ==
    IF LastSequence = 0
    THEN {EmptyBackwardPage(0)}
    ELSE {BackwardPage(first, LastSequence, LastSequence) :
              first \in BackwardStarts(LastSequence, LatestLimit)}

OlderPages(before) ==
    IF before = 1
    THEN {EmptyBackwardPage(0)}
    ELSE {BackwardPage(first, before - 1, 0) :
              first \in BackwardStarts(before - 1, OlderLimit)}

\* A request without a watermark is answered up to the head.
Watermark(limit) == IF limit = Null THEN LastSequence ELSE limit

SyncPages(after, limit) ==
    IF after = Watermark(limit)
    THEN {Page(after + 1, after, Watermark(limit), Watermark(limit), 0)}
    ELSE {Page(after + 1, last, Watermark(limit), last, Watermark(limit) - last) :
              last \in {n \in (after + 1)..Watermark(limit) :
                            n - after <= SyncLimit}}

InvalidSyncCursor(after, limit) ==
    \/ after > LastSequence
    \/ Watermark(limit) > LastSequence
    \/ after > Watermark(limit)

-----------------------------------------------------------------------------
(***************************************************************************)
(* The coroutine.  run.pc names the await it is suspended at: the latest   *)
(* query, a syncAfter request, the rate-limit delay or the yield between   *)
(* two batches.  An Outcome is the state of the coroutine after a step and *)
(* the phase it leaves; NoRun means that the promise has settled.          *)
(***************************************************************************)
NoRun        == [pc |-> "none", after |-> Null, limit |-> Null]
Awaiting(pc) == [NoRun EXCEPT !.pc = pc]
SyncRun(after, limit) == [pc |-> "sync", after |-> after, limit |-> limit]

Settled(ph)       == [run |-> NoRun, phase |-> ph]
Suspended(pc, ph) == [run |-> Awaiting(pc), phase |-> ph]

Up(l) == l \in {"ready", "joined"}

\* Faulty: a cursor that live messages have carried past the watermark is sent.
FaultyRequestSync(t, limit, l) ==
    IF l = "closed" THEN Settled("retryable_failure")
    ELSE IF ~Up(l) THEN Settled("protocol_failure")
    ELSE [run |-> SyncRun(t.cursor, limit), phase |-> "recovering"]

\* The loop of #recoverAfterCursor up to the request.  The request schema
\* rejects a cursor beyond the watermark, and the transport a connection that
\* is not ready; only socket_closed is retryable.
RequestSync(t, limit, l) ==
    IF limit # Null /\ t.cursor > limit THEN Settled("protocol_failure")
    ELSE IF l = "closed" THEN Settled("retryable_failure")
    ELSE IF ~Up(l) THEN Settled("protocol_failure")
    ELSE [run |-> SyncRun(t.cursor, limit), phase |-> "recovering"]

\* #runBootstrap up to its first await.
Bootstrap(t, limit, l) ==
    IF t.cursor = Null
    THEN Suspended("latest", "loading_latest")
    ELSE RequestSync(t, limit, l)

\* The end of #runStart: a session whose connection is gone is retryable.
AfterStart(ph, l) ==
    IF start \in {"run", "drain"} /\ ph # "protocol_failure" /\ ~Up(l)
    THEN "retryable_failure"
    ELSE ph

\* What the phase can be after a run has settled and the next one, if any, has
\* begun: the recovery queue sets it, and so does a start that awaited the same
\* run, and either may be the last.
PhasesAfter(outcome, next, l) ==
    LET drained == IF next.run = NoRun THEN AfterStart(next.phase, l)
                                       ELSE next.phase
        started == IF outcome.phase = "protocol_failure" THEN "protocol_failure"
                                       ELSE AfterStart(next.phase, l)
    IN  IF start = "run" THEN {drained, started} ELSE {drained}

\* Faulty: the settled promise wakes nobody.
FaultyContinue(outcome, t, limit, l) ==
    /\ run' = outcome.run
    /\ phase' = outcome.phase
    /\ UNCHANGED <<start, drain>>

\* Whoever awaited the promise goes on: #runStart returns, and the recovery
\* queue bootstraps once more if a new generation is pending.
Continue(outcome, t, limit, l) ==
    LET next == IF drain = "queued" THEN Bootstrap(t, limit, l) ELSE outcome
    IN  IF outcome.run # NoRun
        THEN /\ run' = outcome.run
             /\ phase' = outcome.phase
             /\ UNCHANGED <<start, drain>>
        ELSE /\ run' = next.run
             /\ drain' = IF next.run # NoRun THEN "awaiting" ELSE "idle"
             /\ start' = IF start = "connecting" \/ (start = "drain" /\ next.run # NoRun)
                         THEN start ELSE "none"
             /\ phase' \in PhasesAfter(outcome, next, l)

\* #persistCursor, for a state that the storage accepts.
Saved(t, limit, state) ==
    [cursor |-> t.cursor, through |-> limit, state |-> state]

NothingStored == [cursor |-> Null, through |-> Null, state |-> "idle"]

-----------------------------------------------------------------------------
Init ==
    /\ log = [s \in 1..InitialMessages |-> Original]
    /\ own = {} /\ fanout = {} /\ results = {}
    /\ link = "closed" /\ attached = FALSE
    /\ start = "none" /\ drain = "idle"
    /\ tl = EmptyTimeline
    /\ phase = "idle" /\ through = Null
    /\ stored = NothingStored
    /\ run = NoRun /\ reply = NoPage /\ older = NoPage
    /\ floor = 1 /\ acked = {} /\ lost = {}
    /\ anchored = FALSE /\ owed = 0
    /\ drops = 0 /\ errors = 0 /\ reopens = 0

(***************************************************************************)
(* The stream and the gateway                                              *)
(***************************************************************************)

\* The API commits a message: the next sequence, and a relay to make.  The
\* gateway takes a send only from a connection that has joined the channel.
Commit(mine) ==
    /\ LastSequence < MaxMessages
    /\ mine => link = "joined" /\ attached /\ Cardinality(own) < MaxOwn
    /\ log' = Append(log, Original)
    /\ own' = IF mine THEN own \cup {LastSequence + 1} ELSE own
    /\ fanout' = fanout \cup {LastSequence + 1}
    /\ UNCHANGED <<results, conn, session, ghosts, budget>>

\* Faulty: a deletion does not count as a change.
FaultyChanged(c, delete, stamp) ==
    IF c.deleted THEN c
    ELSE IF delete THEN [c EXCEPT !.deleted = TRUE]
    ELSE [rev |-> c.rev + 1, at |-> stamp, deleted |-> FALSE]

Changed(c, delete, stamp) ==
    IF c.deleted THEN c
    ELSE [rev |-> c.rev + 1, at |-> IF delete THEN c.at ELSE stamp, deleted |-> delete]

\* The times edited_at can take.  It is now(), the start of the transaction that
\* edits: one that waited for the row is stamped before the edit it follows.
Stamps == 1..MaxRevision

\* An edit or a delete of an own message commits.  A deleted message stays as
\* it is, and the tombstone is the result.  The result goes to the connection
\* that asked, if it is this one, which can name only a message in its view.
Mutate(s, delete, asked) ==
    /\ s \in own
    /\ log[s].rev < MaxRevision \/ log[s].deleted
    /\ IF asked THEN /\ Up(link) /\ s \in tl.visible
                     /\ Cardinality(results) < MaxInFlight
                ELSE OtherTabs
    /\ \E stamp \in Stamps : log' = [log EXCEPT ![s] = Changed(log[s], delete, stamp)]
    /\ results' = IF asked THEN results \cup {[seq |-> s, content |-> log'[s]]}
                           ELSE results
    /\ UNCHANGED <<own, fanout, conn, session, ghosts, budget>>

\* The relay reaches the connections that have joined by now.
FanOut(s) ==
    /\ s \in fanout
    /\ fanout' = fanout \ {s}
    /\ tl' = IF link = "joined" /\ attached THEN ApplyLive(tl, s, Original) ELSE tl
    /\ UNCHANGED <<log, own, results, conn, phase, through, stored, run, reply,
                   older, ghosts, budget>>

\* The API's answer to the gateway is lost, and a retry is answered as
\* existing, without a relay.
FanOutLost(s) ==
    /\ s \in fanout
    /\ Cardinality(lost) < MaxLost
    /\ fanout' = fanout \ {s}
    /\ lost' = lost \cup {s}
    /\ UNCHANGED <<log, own, results, conn, session, floor, acked, anchored,
                   owed, budget>>

\* message.accepted for an own message: the answer to the first send carries
\* the text that was sent, the answer to a retry the current text, and
\* neither carries editedAt.
AckContents(s) ==
    {Original} \cup IF log[s].deleted THEN {} ELSE {[log[s] EXCEPT !.at = 0]}

AckArrives(s) ==
    /\ s \in own
    /\ Up(link) /\ attached
    /\ \E c \in AckContents(s) : tl' = ApplyAccepted(tl, s, c)
    /\ acked' = acked \cup {s}
    /\ UNCHANGED <<server, conn, phase, through, stored, run, reply, older,
                   floor, lost, anchored, owed, budget>>

\* An edit or delete result is applied to the message it names.
ResultArrives(r) ==
    /\ r \in results
    /\ results' = results \ {r}
    /\ tl' = ReplaceKnown(tl, r.seq, r.content)
    /\ UNCHANGED <<log, own, fanout, conn, phase, through, stored, run, reply,
                   older, ghosts, budget>>

(***************************************************************************)
(* The connection                                                          *)
(***************************************************************************)

\* ensureStarted: the subscriptions are attached, which joins the channel and
\* queues a recovery at once if the connection is ready; then connect().
Start ==
    /\ ~attached
    /\ attached' = TRUE
    /\ IF Up(link)
       THEN LET first == Bootstrap(tl, through, link)
            IN  /\ run' = first.run
                /\ phase' = first.phase
                /\ drain' = IF first.run # NoRun THEN "awaiting" ELSE "idle"
                /\ start' = IF first.run # NoRun THEN "run" ELSE "none"
                /\ link' = link
       ELSE /\ link' = "connecting"
            /\ start' = "connecting"
            /\ UNCHANGED <<run, phase, drain>>
    /\ UNCHANGED <<server, tl, through, stored, reply, older, ghosts, budget>>

\* retryRecovery: without a start in progress, connect and bootstrap, or join
\* the bootstrap that is still active.
RetryRecovery ==
    /\ attached
    /\ phase = "retryable_failure"
    /\ start = "none"
    /\ IF ~Up(link)
       THEN /\ link' = "connecting"
            /\ start' = "connecting"
            /\ UNCHANGED <<run, phase>>
       ELSE /\ link' = link
            /\ LET first == IF run = NoRun THEN Bootstrap(tl, through, link)
                                           ELSE [run |-> run, phase |-> phase]
               IN  /\ run' = first.run
                   /\ phase' = first.phase
                   /\ start' = IF first.run # NoRun THEN "run" ELSE "none"
    /\ UNCHANGED <<server, attached, drain, tl, through, stored, reply, older,
                   ghosts, budget>>

\* gateway.connected: the join frame is sent and a recovery is queued for the
\* new generation; an active bootstrap is joined instead of a new one.
Connected ==
    /\ link = "connecting"
    /\ link' = "ready"
    /\ IF attached
       THEN LET first == IF run = NoRun THEN Bootstrap(tl, through, "ready")
                                        ELSE [run |-> run, phase |-> phase]
            IN  /\ run' = first.run
                /\ phase' = first.phase
                /\ drain' = IF drain # "idle" THEN "queued"
                            ELSE IF first.run # NoRun THEN "awaiting" ELSE "idle"
                /\ start' = IF start # "connecting" THEN start
                            ELSE IF first.run # NoRun THEN "drain" ELSE "none"
                /\ owed' = IF tl.cursor # Null THEN LastSequence ELSE 0
       ELSE UNCHANGED <<run, phase, drain, start, owed>>
    /\ UNCHANGED <<server, attached, tl, through, stored, reply, older,
                   floor, acked, lost, anchored, budget>>

\* The gateway handles the join frame of a listening session.
JoinHandled ==
    /\ link = "ready" /\ attached
    /\ link' = "joined"
    /\ UNCHANGED <<server, attached, start, drain, session, ghosts, budget>>

\* The attempts are used up; only a start that waits for them is told.
ConnectFails ==
    /\ link = "connecting"
    /\ drops < MaxDrops
    /\ drops' = drops + 1
    /\ link' = "closed"
    /\ IF start = "connecting"
       THEN /\ start' = "none"
            /\ phase' \in {"retryable_failure", "authentication_failure",
                           "protocol_failure"}
       ELSE UNCHANGED <<start, phase>>
    /\ UNCHANGED <<server, attached, drain, tl, through, stored, run, reply,
                   older, ghosts, errors, reopens>>

\* The socket closes: its frames are gone, the pending syncAfter is rejected
\* with socket_closed, the session is told, and a new attempt begins.
Disconnect ==
    /\ Up(link)
    /\ drops < MaxDrops
    /\ drops' = drops + 1
    /\ link' = "connecting"
    /\ results' = {}
    /\ anchored' = FALSE
    /\ IF run.pc = "sync"
       THEN /\ Continue(Settled("retryable_failure"), tl, through, "connecting")
            /\ reply' = NoPage
       ELSE /\ phase' = IF attached THEN "retryable_failure" ELSE phase
            /\ UNCHANGED <<run, reply, start, drain>>
    /\ UNCHANGED <<log, own, fanout, attached, tl, through, stored, older,
                   floor, acked, lost, owed, errors, reopens>>

(***************************************************************************)
(* Bootstrap without a cursor                                              *)
(***************************************************************************)
LatestAnswered ==
    /\ run.pc = "latest" /\ reply = NoPage
    /\ reply' \in LatestPages
    /\ anchored' = (link = "joined")
    /\ UNCHANGED <<server, conn, tl, phase, through, stored, run, older,
                   floor, acked, lost, owed, budget>>

LatestApplied ==
    /\ run.pc = "latest" /\ reply # NoPage
    /\ tl' = ApplyLatest(tl, reply)
    /\ floor' = IF reply.next = Null THEN 1 ELSE reply.next
    /\ through' = Null
    /\ stored' = Saved(tl', Null, "idle")
    /\ reply' = NoPage
    /\ Continue(Settled("ready"), tl', Null, link)
    /\ UNCHANGED <<server, link, attached, older, acked, lost, anchored, owed,
                   budget>>

\* The request fails; rate_limited is not retryable here.
LatestFails ==
    /\ run.pc = "latest"
    /\ errors < MaxErrors
    /\ errors' = errors + 1
    /\ reply' = NoPage
    /\ \E ph \in {"retryable_failure", "stream_unavailable", "protocol_failure"} :
          Continue(Settled(ph), tl, through, link)
    /\ UNCHANGED <<server, link, attached, tl, through, stored, older, ghosts,
                   drops, reopens>>

(***************************************************************************)
(* Recovery after a cursor                                                 *)
(***************************************************************************)

\* The gateway relays the request after the join frame that preceded it on
\* the socket, and the API reads a page.
SyncAnswered ==
    /\ run.pc = "sync" /\ reply = NoPage
    /\ link = "joined"
    /\ IF InvalidSyncCursor(run.after, run.limit)
       THEN /\ Continue(Settled("invalid_cursor"), tl, through, link)
            /\ UNCHANGED <<reply, anchored>>
       ELSE /\ reply' \in SyncPages(run.after, run.limit)
            /\ anchored' = (anchored \/ run.limit = Null)
            /\ UNCHANGED <<run, phase, start, drain>>
    /\ UNCHANGED <<server, link, attached, tl, through, stored, older,
                   floor, acked, lost, owed, budget>>

\* Faulty: a run that recovered its watermark ends, whatever waits behind a gap.
FaultyRecoveryDone(t, page) == ~page.more

\* hasBufferedGap: messages that wait keep the run going after the last page.
RecoveryDone(t, page) == ~page.more /\ t.buffered = {}

\* The watermark of the first page is kept before the page is applied.  The
\* last page ends the run, unless messages wait behind a gap; another page is
\* asked for at once or, when the batch is full, after a yield.
SyncApplied(full) ==
    /\ run.pc = "sync" /\ reply # NoPage
    /\ reply' = NoPage
    /\ IF through # Null /\ through # reply.through
       THEN /\ UNCHANGED <<tl, through, stored>>
            /\ Continue(Settled("protocol_failure"), tl, through, link)
       ELSE IF SyncCursorMismatch(tl, run.after) \/ SyncNoProgress(run.after, reply)
       THEN /\ UNCHANGED <<tl, stored>>
            /\ through' = reply.through
            /\ Continue(Settled("protocol_failure"), tl, through', link)
       ELSE /\ tl' = ApplySync(tl, reply)
            /\ through' = IF reply.more THEN reply.through ELSE Null
            /\ stored' = Saved(tl', through',
                               IF reply.more /\ full THEN "recovery_pending" ELSE "idle")
            /\ Continue(IF RecoveryDone(tl', reply) THEN Settled("ready")
                        ELSE IF reply.more /\ full THEN Suspended("yield", "recovery_pending")
                        ELSE RequestSync(tl', through', link),
                        tl', through', link)
    /\ UNCHANGED <<server, link, attached, older, ghosts, budget>>

SyncFails ==
    /\ run.pc = "sync"
    /\ errors < MaxErrors
    /\ errors' = errors + 1
    /\ reply' = NoPage
    /\ \E ph \in {"retryable_failure", "stream_unavailable", "protocol_failure"} :
          Continue(Settled(ph), tl, through, link)
    /\ UNCHANGED <<server, link, attached, tl, through, stored, older, ghosts,
                   drops, reopens>>

\* rate_limited: the cursor is saved and the run waits.  The storage refuses
\* a cursor that has passed the watermark, and that ends the run.
SyncRateLimited ==
    /\ run.pc = "sync" /\ reply = NoPage
    /\ link = "joined"
    /\ errors < MaxErrors
    /\ errors' = errors + 1
    /\ IF through # Null /\ tl.cursor > through
       THEN /\ UNCHANGED stored
            /\ Continue(Settled("protocol_failure"), tl, through, link)
       ELSE /\ stored' = Saved(tl, through, "recovery_pending")
            /\ Continue(Suspended("delay", "recovery_pending"), tl, through, link)
    /\ UNCHANGED <<server, link, attached, tl, through, reply, older, ghosts,
                   drops, reopens>>

\* The delay or the yield is over, whatever happened to the connection.
Resume ==
    /\ run.pc \in {"delay", "yield"}
    /\ Continue(RequestSync(tl, through, link), tl, through, link)
    /\ UNCHANGED <<server, link, attached, tl, through, stored, reply, older,
                   ghosts, budget>>

(***************************************************************************)
(* Older history, and the end of a session                                 *)
(***************************************************************************)
LoadOlder ==
    /\ attached
    /\ older = NoPage
    /\ tl.before # Null /\ tl.more
    /\ older' \in OlderPages(tl.before)
    /\ UNCHANGED <<server, conn, tl, phase, through, stored, run, reply, ghosts,
                   budget>>

OlderApplied ==
    /\ older # NoPage
    /\ tl' = ApplyOlder(tl, older)
    /\ floor' = IF older.next = Null THEN floor ELSE older.next
    /\ older' = NoPage
    /\ UNCHANGED <<server, conn, phase, through, stored, run, reply, acked,
                   lost, anchored, owed, budget>>

OlderFails ==
    /\ older # NoPage
    /\ errors < MaxErrors
    /\ errors' = errors + 1
    /\ older' = NoPage
    /\ UNCHANGED <<server, conn, tl, phase, through, stored, run, reply, ghosts,
                   drops, reopens>>

\* dispose, with or without clearing the cursor, then a new session over the
\* same connection; the aborted requests change nothing any more.
Reopen(clearCursor) ==
    /\ attached
    /\ reopens < MaxReopens
    /\ reopens' = reopens + 1
    /\ attached' = FALSE
    /\ start' = "none" /\ drain' = "idle"
    /\ stored' = IF clearCursor THEN NothingStored ELSE stored
    /\ tl' = IF stored'.cursor = Null THEN EmptyTimeline
                                      ELSE RestoredTimeline(stored'.cursor)
    /\ through' = stored'.through
    /\ phase' = stored'.state
    /\ run' = NoRun /\ reply' = NoPage /\ older' = NoPage
    /\ floor' = IF stored'.cursor = Null THEN 1 ELSE stored'.cursor + 1
    /\ acked' = {} /\ anchored' = FALSE /\ owed' = 0
    /\ UNCHANGED <<server, link, lost, drops, errors>>

-----------------------------------------------------------------------------
Server ==
    \/ \E mine \in BOOLEAN : Commit(mine)
    \/ \E s \in Sequences, delete, asked \in BOOLEAN : Mutate(s, delete, asked)
    \/ \E s \in Sequences : FanOut(s) \/ FanOutLost(s)

Frames ==
    \/ \E s \in Sequences : AckArrives(s)
    \/ \E r \in results : ResultArrives(r)

Connection ==
    Start \/ RetryRecovery \/ Connected \/ JoinHandled \/ ConnectFails \/ Disconnect

Recovery ==
    \/ LatestAnswered \/ LatestApplied \/ LatestFails
    \/ SyncAnswered \/ SyncFails \/ SyncRateLimited \/ Resume
    \/ \E full \in BOOLEAN : SyncApplied(full)

History ==
    \/ LoadOlder \/ OlderApplied \/ OlderFails
    \/ \E clearCursor \in BOOLEAN : Reopen(clearCursor)

Next == Server \/ Frames \/ Connection \/ Recovery \/ History

Spec == Init /\ [][Next]_vars

\* Every request settles within its timeout, a timer fires, and the gateway
\* handles the frames of an open socket; nothing else is owed.
FairSpec ==
    /\ Spec
    /\ WF_vars(LatestAnswered \/ LatestApplied)
    /\ WF_vars(SyncAnswered \/ \E full \in BOOLEAN : SyncApplied(full))
    /\ WF_vars(Resume)
    /\ WF_vars(JoinHandled)
    /\ WF_vars(Connected)

-----------------------------------------------------------------------------
(***************************************************************************)
(* Properties                                                              *)
(***************************************************************************)
IsCursor(c) == c \in Sequences \cup {0, Null}

IsPage(p) ==
    /\ p \in [content : {p.content}, through : Sequences \cup {0, Null},
              next : Sequences \cup {0, Null}, more : BOOLEAN]
    /\ IsContentOf(p.content, Sequences)

ServerTypeOK ==
    /\ log \in Seq(Content)
    /\ own \subseteq Sequences
    /\ fanout \subseteq Sequences
    /\ \A r \in results : r.seq \in Sequences /\ r.content \in Content

ConnectionTypeOK ==
    /\ link \in {"closed", "connecting", "ready", "joined"}
    /\ attached \in BOOLEAN
    /\ start \in {"none", "connecting", "run", "drain"}
    /\ drain \in {"idle", "awaiting", "queued"}

Phases == {"idle", "loading_latest", "recovering", "recovery_pending", "ready",
           "stream_unavailable", "invalid_cursor", "retryable_failure",
           "protocol_failure", "authentication_failure"}

Runs == [pc : {"none", "latest", "sync", "delay", "yield"}, after : Int, limit : Int]

StoredCursors == [cursor : Sequences \cup {0, Null}, through : Sequences \cup {0, Null},
                  state : {"idle", "recovery_pending"}]

SessionTypeOK ==
    /\ IsTimeline(tl, Sequences)
    /\ phase \in Phases
    /\ IsCursor(through)
    /\ stored \in StoredCursors
    /\ run \in Runs
    /\ IsPage(reply) /\ IsPage(older)

HistoryTypeOK ==
    /\ floor \in Nat \ {0}
    /\ acked \subseteq own /\ lost \subseteq Sequences
    /\ anchored \in BOOLEAN
    /\ owed \in Nat /\ drops \in Nat /\ errors \in Nat /\ reopens \in Nat

\* Every variable has its type, and the client knows of no sequence that the
\* stream has not reached.
TypeOK == ServerTypeOK /\ ConnectionTypeOK /\ SessionTypeOK /\ HistoryTypeOK

\* Between the oldest loaded message and the delivery cursor nothing is
\* missing, and nothing else is in view except own messages the server has
\* accepted: applyLatest, applyOlder, applySync, applyLive and applyAccepted
\* agree on one contiguous window whatever order they run in.
NoSkippedMessage ==
    tl.cursor # Null =>
        /\ floor..tl.cursor \subseteq tl.visible
        /\ tl.visible \subseteq (floor..tl.cursor) \cup acked

\* The buffer holds only messages beyond the cursor, never one that is in
\* view, and before the first page nothing is in view.
BufferBeyondCursor ==
    /\ \A s \in tl.buffered : s > tl.cursor
    /\ tl.buffered \cap tl.visible = {}
    /\ tl.cursor = Null => tl.visible = {}

\* An accepted message is never dropped: it is in view or waits in the
\* buffer until the cursor comes to it (#acceptedOutsideVisible).
AcceptedNeverLost == acked \subseteq tl.visible \cup tl.buffered

\* The history cursor marks the beginning of what is in view, so a page of
\* older messages always connects to it (loadOlder).
HistoryMeetsView ==
    /\ tl.before # Null => tl.before = floor /\ (tl.more <=> floor > 1)
    /\ older # NoPage => DOMAIN older.content = older.next..(floor - 1)

\* The server never has to answer invalid_cursor to this client: the cursor
\* and the watermark of a pending request lie within the stream, in order.
RequestsAreValid ==
    run.pc = "sync" => ~InvalidSyncCursor(run.after, run.limit)

\* A stored cursor is one that isStoredCursor accepts and that a session can
\* start from: within the stream and not beyond its watermark.
StoredCursorIsValid ==
    stored.through # Null => stored.cursor <= stored.through

\* Messages that have not come into view, are not on their way and are not
\* waiting behind one that is: what the client will not learn of while the
\* connection stays up.
Missed ==
    {s \in Sequences : s > tl.cursor} \ (tl.buffered \cup fanout \cup lost)

\* A session that says ready on a joined connection misses nothing, provided
\* that its last watermark was read after the gateway had joined it on this
\* very connection; fan-outs the gateway lost are the one exception.
AnchoredReadyMissesNothing ==
    phase = "ready" /\ link = "joined" /\ anchored => Missed = {}

\* The drain queue and the start wait for a run that is really active.
WaitersHaveARun ==
    /\ drain # "idle" => run # NoRun
    /\ start \in {"run", "drain"} => run # NoRun
    /\ reply # NoPage => run.pc \in {"latest", "sync"}

\* A run that recovered a cursor says ready only with an empty buffer: it
\* goes on while messages wait behind a gap (hasBufferedGap).
ReadyClosesGaps ==
    [][run.pc = "sync" /\ phase' = "ready" => tl'.buffered = {}]_vars

\* The known content is kept or gives way to one that is stamped no earlier,
\* and a tombstone stays.
KeepsNewer(known, next) ==
    \A s \in DOMAIN known :
        /\ known[s].deleted => next[s].deleted
        /\ next[s].deleted \/ next[s].at >= known[s].at

\* Pages, live messages and acceptances that overtake each other and the edits
\* of other tabs never bring back a deleted message or a text with an earlier
\* editedAt (#registerRecord, #insertHistoryMessage).  The result of an edit is
\* applied whatever is known, and so is not among them (replaceKnown).
ContentNeverRegresses ==
    [][attached' /\ ~(\E r \in results : ResultArrives(r))
           => KeepsNewer(tl.records, tl'.records)]_vars

\* A bootstrap never hangs: each one settles.
RunSettles == run # NoRun ~> run = NoRun

\* A generation that is queued behind an active bootstrap gets its own.
QueueDrains == drain = "queued" ~> drain # "queued"

\* Recoveries end, and so does the wait of a generation for its own: through
\* pages, rate limits, failures and drops nothing keeps the session recovering.
RecoveryEnds == RunSettles /\ QueueDrains

-----------------------------------------------------------------------------
(***************************************************************************)
(* The refinement: the session is a StreamView, whose window ends at the   *)
(* delivery cursor and begins at the oldest loaded message.                *)
(***************************************************************************)
View == INSTANCE StreamView WITH
            size <- LastSequence, lo <- floor, hi <- tl.cursor, shown <- tl.visible

\* Every behaviour of the session is one of the abstract view: pages, live
\* messages, acceptances and reconnections in any order never punch a hole into
\* the window or take a message out of it.
ImplementsStreamView == View!Spec

Log == INSTANCE StreamLog WITH
            log <- [s \in Sequences |-> [rev |-> log[s].rev, deleted |-> log[s].deleted]]

\* The stream under the session keeps the promise that MessageStore makes: the
\* session is checked against no other server than the one the store implements.
ServerIsStreamLog == Log!Spec

-----------------------------------------------------------------------------
(***************************************************************************)
(* The inductive invariant: what the operators of Timeline and the pages   *)
(* on their way must agree on for the view to stay whole.                  *)
(***************************************************************************)

\* The window begins at most one past its end, and nothing is loaded or asked
\* for before the first page.
WindowConnects ==
    /\ tl.cursor # Null => floor \in 1..(tl.cursor + 1)
    /\ tl.before # Null \/ older # NoPage => tl.cursor # Null /\ tl.before # Null

\* acceptedOutsideVisible marks the accepted messages that wait.
AcceptedAreMarked ==
    /\ tl.accepted \subseteq acked
    /\ acked \subseteq tl.visible \cup (tl.buffered \cap tl.accepted)

\* A run fits its timeline: the latest query runs only before the first page,
\* and a pending request starts at or before the cursor.
RunFits(r, t) ==
    /\ r \in Runs
    /\ r.pc = "latest" => t.cursor = Null
    /\ r.pc \in {"sync", "delay", "yield"} => t.cursor # Null
    /\ r.pc = "sync" => /\ r.after \in 0..t.cursor
                       /\ r.limit \in {Null} \cup r.after..LastSequence

\* A page fits the request it answers.
LatestPageFits(p) ==
    /\ p.through \in 0..LastSequence
    /\ \/ p.next = Null /\ DOMAIN p.content = {} /\ p.through = 0 /\ ~p.more
       \/ p.next \in 1..p.through /\ DOMAIN p.content = p.next..p.through /\ (p.more <=> p.next > 1)

SyncPageFits(p, after) ==
    /\ p.next \in after..LastSequence
    /\ DOMAIN p.content = (after + 1)..p.next
    /\ p.next <= p.through

OlderPageFits(p) ==
    /\ p.next \in 1..floor
    /\ DOMAIN p.content = p.next..(floor - 1)
    /\ (p.more <=> p.next > 1)

PagesFit ==
    /\ reply # NoPage => run.pc \in {"latest", "sync"}
    /\ reply # NoPage /\ run.pc = "latest" => LatestPageFits(reply)
    /\ reply # NoPage /\ run.pc = "sync" => SyncPageFits(reply, run.after)
    /\ older # NoPage => OlderPageFits(older)

\* A stored cursor lies behind the window, and nothing runs before the start.
SessionResumes ==
    /\ stored.cursor <= tl.cursor
    /\ ~attached => run = NoRun /\ reply = NoPage /\ older = NoPage

\* The timeline, the pages and requests on their way and the stored cursor fit
\* together: types, one window without a hole, a buffer beyond it, history that
\* meets it, and a stored cursor that a session can start from.
IInv ==
    /\ TypeOK
    /\ NoSkippedMessage /\ BufferBeyondCursor /\ HistoryMeetsView
    /\ WindowConnects /\ AcceptedAreMarked /\ RunFits(run, tl) /\ PagesFit
    /\ SessionResumes /\ StoredCursorIsValid

=============================================================================
