---------------------------- MODULE StreamPages ----------------------------
(***************************************************************************)
(* The pages of the stream reads: how the API builds them from messages,   *)
(* what the contracts of realtime-chat-stream-messages-contracts demand of *)
(* them, and how the page policy fits one into the final envelope.  All    *)
(* the messages are of one stream, whose identity is left out.             *)
(***************************************************************************)
EXTENDS Integers, Sequences, FiniteSetsExt, SequencesExt

CONSTANTS
    Limit,      \* MAX_STREAM_MESSAGES_PAGE_ENVELOPE_UTF8_BYTES
    Overhead,   \* what a page, and a message, takes besides its text
    LatestCount \* MAX_LATEST_MESSAGES_QUERY_COUNT

ASSUME EnvelopeAssumption == Limit \in Nat /\ Overhead \in Nat
ASSUME LatestAssumption == LatestCount \in Nat \ {0}

\* The text of a tombstone; any other text is the size that it serializes to.
NoText == 0
NoCursor == -1

-----------------------------------------------------------------------------
(* Messages.                                                               *)

Stamps(row) ==
    IF row.text = NoText THEN {"deletedAt"}
    ELSE IF row.edited THEN {"editedAt"} ELSE {}

\* A row whose deletion and content disagree is damaged.
IsSound(row) == row.deleted <=> row.text = NoText

MessageOf(row) == [seq |-> row.seq, text |-> row.text, stamps |-> Stamps(row)]

\* PublicMessageSchema is strict: a tombstone has no other stamp than its own.
ValidMessage(m) ==
    m.stamps \in IF m.text = NoText THEN {{"deletedAt"}} ELSE {{}, {"editedAt"}}

-----------------------------------------------------------------------------
(* Building a page.  The cursors come from the messages that it carries.   *)

FirstSeq(ms) == IF ms = <<>> THEN NoCursor ELSE ms[1].seq

HasMoreBefore(ms) == ms # <<>> /\ ms[1].seq > 1

LatestPage(through, ms) ==
    [through |-> through, messages |-> ms,
     next |-> FirstSeq(ms), more |-> HasMoreBefore(ms)]

OlderPage(before, ms) ==
    [before |-> before, messages |-> ms,
     next |-> FirstSeq(ms), more |-> HasMoreBefore(ms)]

\* Faulty: the cursor is not before the watermark when the page ends there.
SyncPageNeverLast(after, through, ms) ==
    LET next == IF ms = <<>> THEN through ELSE Last(ms).seq
    IN  [after |-> after, through |-> through, messages |-> ms,
         next |-> next, more |-> next <= through]

SyncPage(after, through, ms) ==
    LET next == IF ms = <<>> THEN through ELSE Last(ms).seq
    IN  [after |-> after, through |-> through, messages |-> ms,
         next |-> next, more |-> next < through]

-----------------------------------------------------------------------------
(* The contracts: server and client refuse any other page.                 *)

ValidMessages(ms) ==
    /\ \A i \in DOMAIN ms : ValidMessage(ms[i])
    /\ \A i \in 2..Len(ms) : ms[i].seq = ms[i - 1].seq + 1

ValidBackwards(p) == p.next = FirstSeq(p.messages) /\ p.more = HasMoreBefore(p.messages)

ValidLatest(p) ==
    /\ Len(p.messages) <= LatestCount
    /\ ValidMessages(p.messages)
    /\ ValidBackwards(p)
    /\ p.through = IF p.messages = <<>> THEN 0 ELSE Last(p.messages).seq

ValidOlder(p) ==
    /\ ValidMessages(p.messages)
    /\ ValidBackwards(p)
    /\ p.before = IF p.messages = <<>> THEN 1 ELSE Last(p.messages).seq + 1

ValidSync(p) ==
    /\ ValidMessages(p.messages)
    /\ p.after <= p.through
    /\ \A i \in DOMAIN p.messages : p.messages[i].seq \in p.after + 1..p.through
    /\ IF p.messages = <<>>
       THEN p.after = p.through /\ p.next = p.through /\ ~p.more
       ELSE /\ p.messages[1].seq = p.after + 1
            /\ p.next = Last(p.messages).seq
            /\ IF p.more THEN p.next < p.through ELSE p.next = p.through

-----------------------------------------------------------------------------
(* Fitting a page.                                                         *)

\* What the page takes, and what each of its messages does.
EnvelopeSize(p) ==
    LET size[k \in 0..Len(p.messages)] ==
            Overhead + IF k = 0 THEN 0 ELSE size[k - 1] + p.messages[k].text
    IN  size[Len(p.messages)]

IsWithinLimit(p) == EnvelopeSize(p) <= Limit

Newest(s, k) == SubSeq(s, Len(s) - k + 1, Len(s))

Oldest(s, k) == SubSeq(s, 1, k)

\* Messages are dropped one by one until the page fits: as many as possible
\* stay.  page[k] is what is built of k of them.  If not even one fits, it is an
\* error.
FitContiguous(page) ==
    LET fitting == {k \in DOMAIN page : IsWithinLimit(page[k])}
    IN  IF Min({1, Max(DOMAIN page)}) \in fitting
        THEN [status |-> "page", page |-> page[Max(fitting)]]
        ELSE [status |-> "integrity"]

=============================================================================
