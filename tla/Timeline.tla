------------------------------ MODULE Timeline ------------------------------
(***************************************************************************)
(* The message timeline of one chat target, as the browser client keeps it *)
(* (StreamMessagesTimelineModel in                                         *)
(* realtime-chat-stream-messages-client/src/timeline-model.ts).            *)
(*                                                                         *)
(* The module holds no state of its own: a timeline is a record, and every *)
(* public method of the class is an operator from a timeline to the next.  *)
(* A message is identified by its sequence in the stream.  The server      *)
(* assigns messageId and sequence together, so the identity conflicts that *)
(* #assertIdentity rejects cannot come from it, and the target checks of   *)
(* #assertStream and #assertMessageTarget cannot fail: the model has one   *)
(* target.                                                                 *)
(***************************************************************************)
EXTENDS Integers, FiniteSets

\* The cursors of the code are `number | null`.
Null == -1

\* What a client can see of a message: which revision of the text it is, the
\* editedAt stamp that came with it (0 when the field is absent) and whether
\* the message is a tombstone (content === null).
Content == [rev : Nat, at : Nat, deleted : BOOLEAN]

Original == [rev |-> 0, at |-> 0, deleted |-> FALSE]

(***************************************************************************)
(* The state of the class.  records is #records, a function from the known *)
(* sequences to their content; visible is #visibleIds, whose order is the  *)
(* order of the sequences; accepted is #acceptedOutsideVisible; buffered   *)
(* is #bufferedBySequence; before is historyBeforeCursor.                  *)
(***************************************************************************)
EmptyTimeline ==
    [records  |-> [s \in {} |-> Original],
     visible  |-> {},
     accepted |-> {},
     buffered |-> {},
     cursor   |-> Null,
     before   |-> Null,
     more     |-> FALSE]

RestoredTimeline(c) == [EmptyTimeline EXCEPT !.cursor = c]

Known(t) == DOMAIN t.records

\* The shape of records, and of a timeline that knows of the sequences S.
IsContentOf(records, S) ==
    /\ DOMAIN records \subseteq S
    /\ \A s \in DOMAIN records : records[s] \in Content

IsTimeline(t, S) ==
    /\ t \in [records : {t.records}, visible : SUBSET S, accepted : SUBSET S,
              buffered : SUBSET S, cursor : S \cup {0, Null},
              before : S \cup {Null}, more : BOOLEAN]
    /\ IsContentOf(t.records, S)
    /\ t.visible \cup t.accepted \cup t.buffered \subseteq Known(t)

-----------------------------------------------------------------------------
(***************************************************************************)
(* Records                                                                 *)
(***************************************************************************)

\* #registerRecord: the first content a message came with is kept.
Register(records, s, c) ==
    [x \in DOMAIN records \cup {s} |->
        IF x \in DOMAIN records THEN records[x] ELSE c]

\* The known content is an edit, and the incoming one an older text.
HasNewerEdit(current, incoming) ==
    /\ ~current.deleted
    /\ current.at # 0
    /\ ~incoming.deleted
    /\ incoming.at = 0 \/ current.at > incoming.at

\* Faulty: the content of a page always wins.
FaultyReconciled(current, incoming) == incoming

\* The content a page of history leaves in place of the known one.
Reconciled(current, incoming) ==
    IF current.deleted \/ HasNewerEdit(current, incoming)
    THEN current
    ELSE incoming

MergedRecords(records, page) ==
    [x \in DOMAIN records \cup DOMAIN page |->
        IF x \notin DOMAIN records THEN page[x]
        ELSE IF x \notin DOMAIN page THEN records[x]
        ELSE Reconciled(records[x], page[x])]

\* An edit or delete result overwrites a known message, whatever it holds.
ReplaceKnown(t, s, c) ==
    IF s \in Known(t) THEN [t EXCEPT !.records[s] = c] ELSE t

-----------------------------------------------------------------------------
(***************************************************************************)
(* The visible list, the buffer and the delivery cursor                    *)
(***************************************************************************)

\* #insertLoadedMessage for every registered sequence of S.
Show(t, S) ==
    [t EXCEPT !.visible  = @ \cup S,
              !.accepted = @ \ S,
              !.buffered = @ \ S]

\* #insertHistoryMessage for every message of a page.
InsertHistory(t, page) ==
    Show([t EXCEPT !.records = MergedRecords(@, page)], DOMAIN page)

\* #bufferMessage.
Buffer(t, s, c) ==
    IF s \in t.visible
    THEN t
    ELSE [t EXCEPT !.records = Register(@, s, c), !.buffered = @ \cup {s}]

\* Where the loop of #drainContiguousBuffer stops: the end of the run of
\* buffered sequences that begins just after c.
EndOfRun(c, buffered) ==
    CHOOSE n \in buffered \cup {c} :
        /\ n >= c
        /\ (c + 1)..n \subseteq buffered
        /\ n + 1 \notin buffered

Drain(t) ==
    LET end == EndOfRun(t.cursor, t.buffered)
    IN  [Show(t, (t.cursor + 1)..end) EXCEPT !.cursor = end]

\* Faulty: nothing leaves the buffer.
FaultyDiscard(t) == t

\* Faulty: an accepted message is discarded like any other.
ForgetfulDiscard(t) == [t EXCEPT !.buffered = {s \in t.buffered : s > t.cursor}]

\* #discardBufferedAtOrBeforeCursor: what a read has passed leaves the
\* buffer, and an accepted message stays in view.
Discard(t) ==
    LET passed == {s \in t.buffered : s <= t.cursor}
    IN  [Show(t, passed \cap t.accepted) EXCEPT !.buffered = @ \ passed]

-----------------------------------------------------------------------------
(***************************************************************************)
(* The public methods.  A page is the read model's answer: the messages    *)
(* with their content, the watermark of the read, the next cursor and      *)
(* whether there is more.                                                  *)
(***************************************************************************)
ApplyLatest(t, page) ==
    LET loaded == [InsertHistory(t, page.content) EXCEPT
                        !.cursor = page.through,
                        !.before = page.next,
                        !.more   = page.more]
    IN  Drain(Discard(loaded))

\* Faulty: the history cursor stays where it was.
FaultyApplyOlder(t, page) == InsertHistory(t, page.content)

ApplyOlder(t, page) ==
    [InsertHistory(t, page.content) EXCEPT
        !.before = page.next,
        !.more   = page.more]

\* Faulty: a page that answers an earlier cursor is accepted.
FaultySyncCursorMismatch(t, after) == FALSE

SyncCursorMismatch(t, after) == t.cursor # after

SyncNoProgress(after, page) == page.more /\ page.next <= after

\* applySync after its two checks: only the last page drains the buffer.
ApplySync(t, page) ==
    LET loaded == Discard([InsertHistory(t, page.content) EXCEPT
                                !.cursor = page.next])
    IN  IF page.more THEN loaded ELSE Drain(loaded)

\* Faulty: a message that arrives beyond the next one is taken for the next.
HastyApplyLive(t, s, c) ==
    IF t.cursor = Null THEN Buffer(t, s, c)
    ELSE IF s <= t.cursor THEN t
    ELSE Drain([Show([t EXCEPT !.records = Register(@, s, c)], {s}) EXCEPT !.cursor = s])

\* Faulty: a message that arrives beyond the next one is dropped.
DeafApplyLive(t, s, c) ==
    IF t.cursor # Null /\ s # t.cursor + 1 THEN t
    ELSE IF t.cursor = Null THEN Buffer(t, s, c)
    ELSE Drain([Show([t EXCEPT !.records = Register(@, s, c)], {s}) EXCEPT !.cursor = s])

ApplyLive(t, s, c) ==
    IF t.cursor = Null THEN Buffer(t, s, c)
    ELSE IF s <= t.cursor THEN t
    ELSE IF s = t.cursor + 1
         THEN Drain([Show([t EXCEPT !.records = Register(@, s, c)], {s})
                        EXCEPT !.cursor = s])
    ELSE Buffer(t, s, c)

ApplyAccepted(t, s, c) ==
    LET known == [t EXCEPT !.records  = Register(@, s, c),
                           !.accepted = IF s \in t.visible THEN @
                                                           ELSE @ \cup {s}]
    IN  IF t.cursor # Null /\ s <= t.cursor
        THEN Show(known, {s})
        ELSE ApplyLive(known, s, c)

=============================================================================
