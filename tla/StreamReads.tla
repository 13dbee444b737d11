---------------------------- MODULE StreamReads ----------------------------
(***************************************************************************)
(* The stream reads of the API: the three use cases of                     *)
(* realtime-chat-stream-messages (latest, older, sync-after) over the      *)
(* database, and the page policy of the API that fits their pages into an  *)
(* envelope.  Messages are appended, edited and deleted between any two    *)
(* statements of a read.  A client reads page after page, backwards from   *)
(* the latest or forwards from a cursor, and repeats a read that failed.   *)
(*                                                                         *)
(* One stream is read, of a channel or of a thread of the channel; a row   *)
(* of it exists once it has a message.  Who may read the channel is        *)
(* decided outside, and may change at any time.                            *)
(***************************************************************************)
EXTENDS StreamAnswers

CONSTANTS
    Sizes,       \* serialized sizes of the texts
    PageLimits,  \* limits of the reads
    MaxLog,      \* bound: messages
    MaxChanges,  \* bound: edits and deletions
    MaxFailures  \* bound: reads that fail

ASSUME BoundsAssumption ==
    /\ Sizes \subseteq Nat \ {0}
    /\ PageLimits \subseteq Nat \ {0}
    /\ {MaxLog, MaxChanges, MaxFailures} \subseteq Nat

\* MAX_STREAM_MESSAGES_PAGE_LIMIT.
ASSUME LargestLimitAssumption ==
    \E largest \in PageLimits : \A limit \in PageLimits : limit <= largest

VARIABLES
    target,    \* "channel" or "thread"
    log,       \* the rows of the stream
    member,    \* the actor may read the channel
    read,      \* the read in progress
    chain,     \* the reads that belong together: what the client has so far
    trusted,   \* history: the actor has been a member since the read began
    changes, failures

vars == <<target, log, member, read, chain, trusted, changes, failures>>

HeadSequence == Len(log)

-----------------------------------------------------------------------------
(* The queries that the contracts admit.                                   *)

Latest == [kind |-> "latest"]
Older(before, limit) == [kind |-> "older", before |-> before, limit |-> limit]
SyncAfter(after, through, limit) ==
    [kind |-> "sync", after |-> after, through |-> through, limit |-> limit]

Cursors == 0..MaxLog + 1

Queries ==
    {Latest}
        \cup {Older(b, l) : b \in Cursors \ {0}, l \in PageLimits}
        \cup {SyncAfter(a, t, l) : a \in Cursors, t \in Cursors \cup {NoCursor}, l \in PageLimits}

IsAdmitted(q) == q.kind = "sync" /\ q.through # NoCursor => q.after <= q.through

-----------------------------------------------------------------------------
(* Outcomes.                                                               *)

StreamUnavailable == [status |-> "failure", code |-> "stream_unavailable"]
InvalidCursor == [status |-> "failure", code |-> "invalid_cursor"]
IntegrityError == [status |-> "integrity"]
Unanswered == [status |-> "failed"]

NoRead == [stage |-> "none"]
NoChain == [status |-> "none"]

Answered(q, outcome) == [stage |-> "answered", query |-> q, outcome |-> outcome]

Goto(stage) == read' = [read EXCEPT !.stage = stage]
Answer(outcome) == read' = Answered(read.query, outcome)

databaseUnchanged == UNCHANGED <<target, log, member, changes>>

-----------------------------------------------------------------------------
(* The rest of the world.                                                  *)

Append1(text) ==
    /\ HeadSequence < MaxLog
    /\ log' = Append(log, [seq |-> HeadSequence + 1, text |-> text,
                           edited |-> FALSE, deleted |-> FALSE])
    /\ UNCHANGED <<target, member, read, chain, trusted, changes, failures>>

Mutate(n, row) ==
    /\ changes < MaxChanges
    /\ ~log[n].deleted
    /\ log' = [log EXCEPT ![n] = row]
    /\ changes' = changes + 1
    /\ UNCHANGED <<target, member, read, chain, trusted, failures>>

Edit(n, text) == Mutate(n, [log[n] EXCEPT !.text = text, !.edited = TRUE])

\* A deletion keeps the stamp of the last edit.
Delete(n) == Mutate(n, [log[n] EXCEPT !.text = NoText, !.deleted = TRUE])

\* The authorizer of the reads changes its mind.
ChangeMembership ==
    /\ member' = ~member
    /\ trusted' = (trusted \/ member')
    /\ UNCHANGED <<target, log, read, chain, changes, failures>>

-----------------------------------------------------------------------------
(* A read.                                                                 *)

Start(q, c) ==
    /\ read' = [stage |-> "resolve", query |-> q]
    /\ chain' = c
    /\ trusted' = member

\* resolveMessageStreamReadTarget: the root message and the channel of a
\* thread are found from the thread's own row.
Resolve ==
    /\ read.stage = "resolve"
    /\ IF target = "thread" /\ HeadSequence = 0
       THEN Answer(StreamUnavailable)
       ELSE Goto("authorize")
    /\ UNCHANGED <<chain, trusted, failures>> /\ databaseUnchanged

\* Faulty: the channel of a thread is not asked for.
AuthorizeTheTarget ==
    /\ read.stage = "authorize"
    /\ IF member \/ target = "thread"
       THEN Goto("metadata")
       ELSE Answer(StreamUnavailable)
    /\ UNCHANGED <<chain, trusted, failures>> /\ databaseUnchanged

Authorize ==
    /\ read.stage = "authorize"
    /\ IF member
       THEN Goto("metadata")
       ELSE Answer(StreamUnavailable)
    /\ UNCHANGED <<chain, trusted, failures>> /\ databaseUnchanged

\* The cursors of a query that lie ahead of the head it meets.
IsAhead(q, head) ==
    CASE q.kind = "latest" -> FALSE
      [] q.kind = "older" -> q.before > head + 1
      [] q.kind = "sync" -> q.after > head \/ q.through > head

\* There is nothing to read: no row of the stream, or no message in range.
IsEmpty(q, head, through) ==
    CASE q.kind = "latest" -> head = 0
      [] q.kind = "older" -> head = 0 \/ q.before = 1
      [] q.kind = "sync" -> head = 0 \/ q.after = through

\* Faulty: the watermark of the query is ignored.
ThroughTheHead(q, head) == head

Through(q, head) ==
    IF q.kind = "sync" /\ q.through # NoCursor THEN q.through ELSE head

\* The first statement of a read-only repeatable-read transaction: what the
\* second will see is settled here.
ReadMetadata ==
    LET q == read.query
        through == Through(q, HeadSequence)
    IN  /\ read.stage = "metadata"
        /\ IF IsAhead(q, HeadSequence)
           THEN Answer(InvalidCursor)
           ELSE read' = [stage |-> IF IsEmpty(q, HeadSequence, through) THEN "fit" ELSE "rows",
                         query |-> q, through |-> through, snapshot |-> log, rows |-> <<>>]
        /\ UNCHANGED <<chain, trusted, failures>> /\ databaseUnchanged

\* The sequences that a statement must find, one more than the page shows.
ExpectedWindow(q, through) ==
    CASE q.kind = "latest" -> Max({1, through - LatestCount})..through
      [] q.kind = "older" -> q.before - Min({q.before - 1, q.limit + 1})..q.before - 1
      [] q.kind = "sync" -> q.after + 1..q.after + Min({through - q.after, q.limit + 1})

\* The rows at the positions of a set, in order.
At(rows, positions) ==
    LET at[n \in 0..Len(rows)] ==
            IF n = 0 THEN <<>>
            ELSE IF n \in positions THEN Append(at[n - 1], rows[n])
            ELSE at[n - 1]
    IN  at[Len(rows)]

InRange(q, through, seq) ==
    CASE q.kind = "latest" -> seq <= through
      [] q.kind = "older" -> seq < q.before
      [] q.kind = "sync" -> seq \in q.after + 1..through

\* The rows that the second statement finds: WHERE, ORDER BY and LIMIT.
Select(q, through, rows) ==
    LET found == At(rows, {n \in DOMAIN rows : InRange(q, through, rows[n].seq)})
    IN  CASE q.kind = "latest" -> Newest(found, Min({LatestCount + 1, Len(found)}))
          [] q.kind = "older" -> Newest(found, Min({q.limit + 1, Len(found)}))
          [] q.kind = "sync" -> Oldest(found, Min({q.limit + 1, Len(found)}))

\* assertExpectedSequenceWindow.
IsWindow(rows, window) ==
    /\ Len(rows) = Cardinality(window)
    /\ \A i \in DOMAIN rows : rows[i].seq = Min(window) + i - 1

\* The page shows no more messages than were asked for.
Shown(q, ms) ==
    CASE q.kind = "latest" -> Newest(ms, Min({LatestCount, Len(ms)}))
      [] q.kind = "older" -> Newest(ms, Min({q.limit, Len(ms)}))
      [] q.kind = "sync" -> Oldest(ms, Min({q.limit, Len(ms)}))

\* Faulty: the statements of a read each see what has been committed.
ReadRowsCommitted ==
    /\ read.stage = "rows"
    /\ \E rows \in {Select(read.query, read.through, log)} :
          IF IsWindow(rows, ExpectedWindow(read.query, read.through))
               /\ \A i \in DOMAIN rows : IsSound(rows[i])
          THEN read' = [stage |-> "fit", query |-> read.query, through |-> read.through,
                        rows |-> Shown(read.query, [i \in DOMAIN rows |-> MessageOf(rows[i])]),
                        snapshot |-> read.snapshot]
          ELSE Answer(IntegrityError)
    /\ UNCHANGED <<chain, trusted, failures>> /\ databaseUnchanged

\* The second statement, of the same snapshot.
ReadRows ==
    /\ read.stage = "rows"
    /\ \E rows \in {Select(read.query, read.through, read.snapshot)} :
          IF IsWindow(rows, ExpectedWindow(read.query, read.through))
               /\ \A i \in DOMAIN rows : IsSound(rows[i])
          THEN read' = [stage |-> "fit", query |-> read.query, through |-> read.through,
                        rows |-> Shown(read.query, [i \in DOMAIN rows |-> MessageOf(rows[i])]),
                        snapshot |-> read.snapshot]
          ELSE Answer(IntegrityError)
    /\ UNCHANGED <<chain, trusted, failures>> /\ databaseUnchanged

\* fitLatestMessagesPage, fitOlderMessagesPage, fitSyncAfterMessagesPage: what
\* is dropped is at the end that the reader comes to last.
Fit(q, through, ms) ==
    CASE q.kind = "latest" ->
            FitContiguous([k \in 0..Len(ms) |-> LatestPage(through, Newest(ms, k))])
      [] q.kind = "older" ->
            FitContiguous([k \in 0..Len(ms) |-> OlderPage(q.before, Newest(ms, k))])
      [] q.kind = "sync" ->
            FitContiguous([k \in 0..Len(ms) |-> SyncPage(q.after, through, Oldest(ms, k))])

IsValid(q, page) ==
    CASE q.kind = "latest" -> ValidLatest(page)
      [] q.kind = "older" -> ValidOlder(page)
      [] q.kind = "sync" -> ValidSync(page)

\* The page is fitted, and serialized under its contract.
Respond ==
    /\ read.stage = "fit"
    /\ \E fitted \in {Fit(read.query, read.through, read.rows)} :
          Answer(IF fitted.status = "page" /\ ~IsValid(read.query, fitted.page)
                 THEN IntegrityError
                 ELSE fitted)
    /\ UNCHANGED <<chain, trusted, failures>> /\ databaseUnchanged

\* The database fails, the read takes too long, or its answer is lost.
Fail ==
    /\ read.stage \notin {"none", "answered"}
    /\ failures < MaxFailures
    /\ failures' = failures + 1
    /\ Answer(Unanswered)
    /\ UNCHANGED <<chain, trusted>> /\ databaseUnchanged

-----------------------------------------------------------------------------
(* The client.                                                             *)

\* A chain begins with any query; from is the cursor it begins at.
Begin(q) ==
    /\ chain = NoChain
    /\ IsAdmitted(q)
    /\ Start(q, [status |-> "reading",
                 from |-> CASE q.kind = "latest" -> NoCursor
                            [] q.kind = "older" -> q.before
                            [] q.kind = "sync" -> q.after,
                 through |-> NoCursor, seen |-> <<>>])
    /\ UNCHANGED failures /\ databaseUnchanged

NextQuery(q, page) ==
    IF q.kind = "sync" THEN SyncAfter(page.next, page.through, q.limit)
    ELSE Older(page.next, IF q.kind = "older" THEN q.limit ELSE Max(PageLimits))

Seqs(ms) == [i \in DOMAIN ms |-> ms[i].seq]

\* The chain with one page more: in front of it, or behind it.
Extended(q, page) ==
    LET new == Seqs(page.messages)
    IN  [chain EXCEPT
            !.status = IF page.more THEN "reading" ELSE "complete",
            !.from = IF q.kind = "latest" THEN page.through + 1 ELSE @,
            !.through = IF q.kind = "sync" /\ @ = NoCursor THEN page.through ELSE @,
            !.seen = IF q.kind = "sync" THEN @ \o new ELSE new \o @]

TakePage ==
    /\ read.stage = "answered"
    /\ read.outcome.status = "page"
    /\ LET page == read.outcome.page
       IN  IF page.more
           THEN Start(NextQuery(read.query, page), Extended(read.query, page))
           ELSE /\ read' = NoRead
                /\ chain' = Extended(read.query, page)
                /\ UNCHANGED trusted
    /\ UNCHANGED failures /\ databaseUnchanged

\* A refused chain ends; a read that failed is asked again.
TakeFailure ==
    /\ read.stage = "answered"
    /\ IF read.outcome.status = "failure"
       THEN /\ read' = NoRead
            /\ chain' = [chain EXCEPT !.status = read.outcome.code]
            /\ UNCHANGED trusted
       ELSE /\ read.outcome.status \in {"failed", "integrity"}
            /\ Start(read.query, chain)
    /\ UNCHANGED failures /\ databaseUnchanged

-----------------------------------------------------------------------------
Init ==
    /\ target \in {"channel", "thread"}
    /\ log = <<>>
    /\ member \in BOOLEAN
    /\ read = NoRead
    /\ chain = NoChain
    /\ trusted = FALSE
    /\ changes = 0
    /\ failures = 0

Write ==
    \/ \E s \in Sizes : Append1(s)
    \/ \E n \in DOMAIN log : Delete(n) \/ \E s \in Sizes : Edit(n, s)

Serve == Resolve \/ Authorize \/ ReadMetadata \/ ReadRows \/ Respond

Client == (\E q \in Queries : Begin(q)) \/ TakePage \/ TakeFailure

Next == Write \/ ChangeMembership \/ Serve \/ Fail \/ Client

Spec == Init /\ [][Next]_vars

\* The database answers a read or fails it, and the client goes on reading.
FairSpec == Spec /\ WF_vars(Serve) /\ WF_vars(TakePage \/ TakeFailure)

-----------------------------------------------------------------------------
(* Properties.                                                             *)

Stages == {"none", "resolve", "authorize", "metadata", "rows", "fit", "answered"}

\* Every variable has its type; the rows of the log are the sequences 1..head.
TypeOK ==
    /\ target \in {"channel", "thread"}
    /\ {member, trusted} \subseteq BOOLEAN
    /\ Len(log) <= MaxLog
    /\ \A n \in DOMAIN log :
          log[n] \in [seq : {n}, text : Sizes \cup {NoText}, edited : BOOLEAN, deleted : BOOLEAN]
    /\ read.stage \in Stages
    /\ read.stage # "none" => read.query \in Queries /\ IsAdmitted(read.query)
    /\ chain.status \in {"none", "reading", "complete", "stream_unavailable", "invalid_cursor"}
    /\ changes \in 0..MaxChanges
    /\ failures \in 0..MaxFailures

\* Whatever its text is, a message alone does not fill the envelope.
EveryMessageFits == \A text \in Sizes \cup {NoText} : 2 * Overhead + text <= Limit

\* No read of what the commands may store is answered by an integrity error,
\* which the API would call retryable for ever: every window is found whole,
\* every row is understood, some message always fits, and the page keeps the
\* contract by which client and server parse it.
NoIntegrityError == read.stage = "answered" => read.outcome.status # "integrity"

\* Whoever has not been a member since he asked gets one answer, whatever he
\* asks: neither the head of a stream nor the existence of a thread shows.
StrangersLearnNothing ==
    read.stage = "answered" /\ ~trusted => read.outcome \in {StreamUnavailable, Unanswered}

\* Every read is answered as it may be, whatever commits between its
\* statements: no integrity error, and nothing for strangers.
ReadsAreSound == TypeOK /\ NoIntegrityError /\ StrangersLearnNothing

IsRun(seqs) == \A i \in 2..Len(seqs) : seqs[i] = seqs[i - 1] + 1

\* The pages of a chain join: each message between the cursor where the chain
\* began and where it stands is delivered once and in order, however the
\* messages grow, shrink and multiply between two pages, and a complete chain
\* reaches the watermark of its first page, or the first message.
ChainsMissNothing ==
    chain.status \in {"reading", "complete"} =>
        LET seen == chain.seen
        IN  /\ IsRun(seen)
            /\ (chain.through # NoCursor /\ seen # <<>>) => Head(seen) = chain.from + 1
            /\ (chain.through = NoCursor /\ seen # <<>>) => Last(seen) = chain.from - 1
            /\ chain.status = "complete" =>
                 IF chain.through # NoCursor
                 THEN chain.through = IF seen = <<>> THEN chain.from ELSE Last(seen)
                 ELSE chain.from = 1 \/ (seen # <<>> /\ Head(seen) = 1)

\* A cursor that a page gave is never ahead of the stream: only the first read
\* of a chain is refused for its cursor.
GivenCursorsAreGood == chain.status = "invalid_cursor" => chain.seen = <<>>

\* Reading page after page delivers the stream, without a hole and without a
\* refusal of what an earlier page gave.
ChainsAreSound == ChainsMissNothing /\ GivenCursorsAreGood

\* Every chain comes to its end though the stream grows meanwhile, because the
\* watermark stays and every page has a message.
ChainsEnd == chain.status = "reading" ~> chain.status # "reading"

-----------------------------------------------------------------------------
(* The refinement: a read is one moment.  Once the metadata is read, what  *)
(* will be answered is settled.                                            *)

Settled ==
    CASE read.stage \in {"rows", "fit"} ->
            AnswerOf(read.snapshot, read.query)
      [] read.stage = "answered" -> read.outcome
      [] OTHER -> [status |-> "undecided"]

Atomic == INSTANCE AtomicReads WITH
    stream <- log,
    question <- IF read.stage = "none" THEN [kind |-> "none"] ELSE read.query,
    reply <- Settled

\* A read in three statements and a page fitted afterwards are, to its reader,
\* one look at the stream.
ReadsAreAtomic == Atomic!Spec

=============================================================================
