---------------------------- MODULE MessageStore ----------------------------
(***************************************************************************)
(* The transactions of realtime-chat-message-send and                      *)
(* realtime-chat-message-mutation over the tables message_streams,         *)
(* messages and send_message_receipts: one channel and the threads of its  *)
(* messages.                                                               *)
(*                                                                         *)
(* A request is one call of the API: the first attempt to send a message,  *)
(* a retry of it, an edit or a deletion by the sender of the message (to   *)
(* anybody else it is forbidden).  A step is one statement.  The           *)
(* database runs read committed: a statement sees what has been committed, *)
(* a row that it locks or updates is read after the lock is granted, and   *)
(* the writes of a transaction take effect, and its locks are released,    *)
(* when it ends.  All that a transaction inserts and updates it does under *)
(* its locks and right before the commit, so the last step writes it all.  *)
(* authorize, resolveTarget and authorizeWrite are the caller's; those of  *)
(* realtime-chat-api allow every channel and thread.                       *)
(***************************************************************************)
EXTENDS Integers, FiniteSets, Sequences

CONSTANTS
    Requests,  \* the calls; a message has the name of the request that stores it
    Keys,      \* idempotency keys, of whatever sender
    Channel,   \* the stream of the channel
    NoKey      \* an edit or a deletion has no key

ASSUME NamesAssumption ==
    /\ Channel \notin Requests
    /\ NoKey \notin Keys

VARIABLES
    task,      \* what each request asks for
    pc,        \* the next statement of each request
    locks,     \* what each transaction has locked
    began,     \* now() of each transaction
    sequence,  \* the sequence a transaction has taken
    streams,   \* last_sequence of every stream
    messages,  \* rows of messages
    receipts,  \* the message each key stands for
    answers,   \* how each request was answered
    clock

tables == <<streams, messages, receipts>>
vars   == <<task, pc, locks, began, sequence, tables, answers, clock>>

\* The stream of a thread has the name of its root message.
Streams == {Channel} \cup Requests

Tasks ==
    [op : {"send"}, key : Keys, target : Streams]
        \cup [op : {"edit", "delete"}, key : {NoKey}, target : Requests]

Message == [stream : Streams, seq : Nat, version : Nat, created : Nat,
            edited : Nat, deleted : BOOLEAN]

KeyLock(k)     == <<"key", k>>
StreamLock(s)  == <<"stream", s>>
MessageLock(m) == <<"message", m>>

-----------------------------------------------------------------------------
\* f with v at x.
With(f, x, v) == [y \in DOMAIN f \cup {x} |-> IF y = x THEN v ELSE f[y]]

\* No other transaction holds the lock.
Free(r, lock) == \A q \in Requests \ {r} : lock \notin locks[q]

Lock(r, lock) == locks' = [locks EXCEPT ![r] = @ \cup {lock}]

Goto(r, statement) == pc' = [pc EXCEPT ![r] = statement]

\* Faulty: the transaction keeps its locks.
FaultyReply(r, status, m) ==
    /\ Goto(r, "done")
    /\ answers' = [answers EXCEPT ![r] = [status |-> status, message |-> m]]
    /\ UNCHANGED <<task, locks, began, sequence, clock>>

\* The request is answered, and its transaction, if any, has ended.
Reply(r, status, m) ==
    /\ Goto(r, "done")
    /\ answers' = [answers EXCEPT ![r] = [status |-> status, message |-> m]]
    /\ locks' = [locks EXCEPT ![r] = {}]
    /\ UNCHANGED <<task, began, sequence, clock>>

\* BEGIN: now() is the time of it for the whole transaction.
Begin(r) ==
    /\ clock' = clock + 1
    /\ began' = [began EXCEPT ![r] = clock']

LastSequence(s) == IF s \in DOMAIN streams THEN streams[s] ELSE 0

Stored(k) == k \in DOMAIN receipts

(***************************************************************************)
(* Sending                                                                 *)
(***************************************************************************)

\* resultForExistingReceipt: the fingerprint is made of target and text, and
\* requests that differ in the text only are not told apart.
ReplyExisting(r) ==
    LET m == receipts[task[r].key]
    IN  IF messages[m].stream # task[r].target
        THEN Reply(r, "idempotency_conflict", r)
        ELSE IF messages[m].deleted
        THEN Reply(r, "message_deleted", m)
        ELSE Reply(r, "existing", m)

\* The receipt is looked up before the transaction.
Lookup(r) ==
    /\ pc[r] = "lookup"
    /\ IF Stored(task[r].key)
       THEN ReplyExisting(r)
       ELSE /\ Goto(r, "begin")
            /\ UNCHANGED <<task, locks, began, sequence, answers, clock>>
    /\ UNCHANGED tables

BeginSend(r) ==
    /\ pc[r] = "begin"
    /\ Begin(r)
    /\ Goto(r, "key")
    /\ UNCHANGED <<task, locks, sequence, tables, answers>>

\* acquireIdempotencyLock.
LockKey(r) ==
    /\ pc[r] = "key"
    /\ Free(r, KeyLock(task[r].key))
    /\ Lock(r, KeyLock(task[r].key))
    /\ Goto(r, "check")
    /\ UNCHANGED <<task, began, sequence, tables, answers, clock>>

\* The receipt is looked up once more, under the lock.
Check(r) ==
    /\ pc[r] = "check"
    /\ IF Stored(task[r].key)
       THEN ReplyExisting(r)
       ELSE /\ Goto(r, IF task[r].target = Channel THEN "stream" ELSE "root")
            /\ UNCHANGED <<task, locks, began, sequence, answers, clock>>
    /\ UNCHANGED tables

\* A thread can be written to if it exists, and begun under a message of the
\* channel that is not deleted.
RootAllows(m) ==
    /\ m \in DOMAIN messages
    /\ messages[m].stream = Channel
    /\ m \in DOMAIN streams \/ ~messages[m].deleted

\* Faulty: the root is read without locking it.
FaultyLockRoot(r) ==
    LET root == task[r].target
    IN  /\ pc[r] = "root"
        /\ IF RootAllows(root)
           THEN /\ Goto(r, IF root \in DOMAIN streams THEN "advance" ELSE "stream")
                /\ UNCHANGED <<task, locks, began, sequence, answers, clock>>
           ELSE Reply(r, "target_not_found", r)
        /\ UNCHANGED tables

\* ensureThreadMessageStream: the root is locked and the stream looked up.
LockRoot(r) ==
    LET root == task[r].target
    IN  /\ pc[r] = "root"
        /\ Free(r, MessageLock(root))
        /\ IF RootAllows(root)
           THEN /\ Lock(r, MessageLock(root))
                /\ Goto(r, IF root \in DOMAIN streams THEN "advance" ELSE "stream")
                /\ UNCHANGED <<task, began, sequence, answers, clock>>
           ELSE Reply(r, "target_not_found", r)
        /\ UNCHANGED tables

\* INSERT ... ON CONFLICT DO NOTHING waits for whoever inserts the same stream;
\* the row inserted is locked.
EnsureStream(r) ==
    LET s == task[r].target
    IN  /\ pc[r] = "stream"
        /\ IF s \in DOMAIN streams
           THEN locks' = locks
           ELSE Free(r, StreamLock(s)) /\ Lock(r, StreamLock(s))
        /\ Goto(r, "advance")
        /\ UNCHANGED <<task, began, sequence, tables, answers, clock>>

\* Faulty: the head is read without locking the row.
FaultyAdvance(r) ==
    /\ pc[r] = "advance"
    /\ sequence' = [sequence EXCEPT ![r] = LastSequence(task[r].target) + 1]
    /\ Goto(r, "store")
    /\ UNCHANGED <<task, locks, began, tables, answers, clock>>

\* advanceSequenceForTarget: UPDATE locks the row, then reads it.
Advance(r) ==
    /\ pc[r] = "advance"
    /\ Free(r, StreamLock(task[r].target))
    /\ Lock(r, StreamLock(task[r].target))
    /\ sequence' = [sequence EXCEPT ![r] = LastSequence(task[r].target) + 1]
    /\ Goto(r, "store")
    /\ UNCHANGED <<task, began, tables, answers, clock>>

\* Faulty: no receipt is stored.
FaultyStore(r) ==
    LET s == task[r].target
    IN  /\ pc[r] = "store"
        /\ streams'  = With(streams, s, sequence[r])
        /\ messages' = With(messages, r,
                            [stream |-> s, seq |-> sequence[r], version |-> 1,
                             created |-> began[r], edited |-> 0, deleted |-> FALSE])
        /\ receipts' = receipts
        /\ Reply(r, "created", r)

\* The message and its receipt are inserted and the transaction commits.  A
\* receipt that is there by now violates the primary key.
Store(r) ==
    LET s == task[r].target
        k == task[r].key
    IN  /\ pc[r] = "store"
        /\ IF Stored(k)
           THEN /\ Reply(r, "thrown", r)
                /\ UNCHANGED tables
           ELSE /\ streams'  = With(streams, s, sequence[r])
                /\ messages' = With(messages, r,
                                    [stream |-> s, seq |-> sequence[r], version |-> 1,
                                     created |-> began[r], edited |-> 0, deleted |-> FALSE])
                /\ receipts' = With(receipts, k, r)
                /\ Reply(r, "created", r)

(***************************************************************************)
(* Editing and deleting                                                    *)
(***************************************************************************)

\* findTarget, then BEGIN.  Nobody else learns of either.
FindTarget(r) ==
    /\ pc[r] = "target"
    /\ IF task[r].target \in DOMAIN messages
       THEN /\ Begin(r)
            /\ Goto(r, "row")
            /\ UNCHANGED <<task, locks, sequence, answers>>
       ELSE Reply(r, "write_forbidden", r)
    /\ UNCHANGED tables

\* SELECT ... FOR UPDATE: the row is locked, then read.
LockRow(r) ==
    LET m == task[r].target
    IN  /\ pc[r] = "row"
        /\ Free(r, MessageLock(m))
        /\ IF m \notin DOMAIN messages
           THEN Reply(r, "write_forbidden", r)
           ELSE IF messages[m].deleted
           THEN Reply(r, IF task[r].op = "edit" THEN "message_deleted" ELSE "deleted", m)
           ELSE /\ Lock(r, MessageLock(m))
                /\ Goto(r, "change")
                /\ UNCHANGED <<task, began, sequence, answers, clock>>
        /\ UNCHANGED tables

\* Faulty: a deletion does not count as a change.
FaultyChanged(row, op, now) ==
    IF op = "edit" THEN [row EXCEPT !.version = @ + 1, !.edited = now]
                   ELSE [row EXCEPT !.deleted = TRUE]

Changed(row, op, now) ==
    IF op = "edit" THEN [row EXCEPT !.version = @ + 1, !.edited = now]
                   ELSE [row EXCEPT !.version = @ + 1, !.deleted = TRUE]

\* The update commits.  Its condition deleted_at IS NULL leaves no row of a
\* message that has been deleted since, and that throws.
Change(r) ==
    LET m == task[r].target
    IN  /\ pc[r] = "change"
        /\ IF messages[m].deleted
           THEN /\ Reply(r, "thrown", r)
                /\ UNCHANGED tables
           ELSE /\ messages' = [messages EXCEPT ![m] = Changed(@, task[r].op, began[r])]
                /\ Reply(r, IF task[r].op = "edit" THEN "edited" ELSE "deleted", m)
                /\ UNCHANGED <<streams, receipts>>

\* The connection, the process or the statement fails: the transaction is
\* rolled back.
Fail(r) ==
    /\ pc[r] # "done"
    /\ Reply(r, "failed", r)
    /\ UNCHANGED tables

-----------------------------------------------------------------------------
Init ==
    /\ task \in [Requests -> Tasks]
    /\ pc = [r \in Requests |-> IF task[r].op = "send" THEN "lookup" ELSE "target"]
    /\ locks = [r \in Requests |-> {}]
    /\ began = [r \in Requests |-> 0]
    /\ sequence = [r \in Requests |-> 0]
    /\ streams = [s \in {} |-> 0]
    /\ messages = [m \in {} |-> {}]
    /\ receipts = [k \in {} |-> Channel]
    /\ answers = [r \in Requests |-> [status |-> "none", message |-> r]]
    /\ clock = 0

Send(r) ==
    \/ Lookup(r) \/ BeginSend(r) \/ LockKey(r) \/ Check(r) \/ LockRoot(r)
    \/ EnsureStream(r) \/ Advance(r) \/ Store(r)

Mutate(r) == FindTarget(r) \/ LockRow(r) \/ Change(r)

Next == \E r \in Requests : Send(r) \/ Mutate(r) \/ Fail(r)

Spec == Init /\ [][Next]_vars

\* The database runs the next statement of a transaction, and grants a lock
\* that stays free.
Fairness == \A r \in Requests : WF_vars(Send(r) \/ Mutate(r))

-----------------------------------------------------------------------------
(***************************************************************************)
(* Properties                                                              *)
(***************************************************************************)
Statements == {"lookup", "begin", "key", "check", "root", "stream", "advance", "store",
               "target", "row", "change", "done"}

Statuses == {"none", "created", "existing", "idempotency_conflict", "message_deleted",
             "target_not_found", "write_forbidden", "edited", "deleted", "thrown", "failed"}

\* Every variable has its type; a table is a function on its primary key.
TypeOK ==
    /\ task \in [Requests -> Tasks]
    /\ pc \in [Requests -> Statements]
    /\ locks \in [Requests -> SUBSET ({KeyLock(k) : k \in Keys} \cup {StreamLock(s) : s \in Streams}
                                        \cup {MessageLock(m) : m \in Requests})]
    /\ began \in [Requests -> Nat]
    /\ sequence \in [Requests -> Nat]
    /\ DOMAIN streams \subseteq Streams /\ \A s \in DOMAIN streams : streams[s] \in Nat
    /\ DOMAIN messages \subseteq Requests /\ \A m \in DOMAIN messages : messages[m] \in Message
    /\ DOMAIN receipts \subseteq Keys /\ \A k \in DOMAIN receipts : receipts[k] \in DOMAIN messages
    /\ answers \in [Requests -> [status : Statuses, message : Requests]]
    /\ clock \in Nat

\* The committed messages of a stream have the sequences 1..last_sequence,
\* one each, in every state: sequences follow the order of the commits, so a
\* reader never sees a hole that fills later.
SequencesHaveNoHole ==
    /\ \A m \in DOMAIN messages : messages[m].seq \in 1..LastSequence(messages[m].stream)
    /\ \A s \in DOMAIN streams : \A n \in 1..streams[s] :
          \E m \in DOMAIN messages : messages[m].stream = s /\ messages[m].seq = n
    /\ \A m, n \in DOMAIN messages :
          messages[m].stream = messages[n].stream /\ messages[m].seq = messages[n].seq => m = n

\* However often a message is sent with one key, one message is stored, and
\* the receipt of the key names it.
OneMessagePerKey ==
    \A m \in DOMAIN messages : Stored(task[m].key) /\ receipts[task[m].key] = m

\* The CHECK messages_edited_at_check never fails: the transaction of an edit
\* begins after that of the message.
EditedAfterCreated ==
    \A m \in DOMAIN messages : messages[m].edited # 0 => messages[m].edited > messages[m].created

\* No request is answered by an exception: the locks keep every INSERT from a
\* key that is taken and every UPDATE from a row that is gone.
NothingThrows == \A r \in Requests : answers[r].status # "thrown"

\* Whatever statements of several transactions come between each other, and
\* whichever of them fail, the committed tables keep their constraints, and no
\* transaction has to be told of one.
TablesAreSound ==
    TypeOK /\ SequencesHaveNoHole /\ OneMessagePerKey /\ EditedAfterCreated /\ NothingThrows

\* Requests with one key that are accepted are answered with one message, in
\* the stream they asked for.
AnswersAgree ==
    \A r \in Requests : answers[r].status \in {"created", "existing"} =>
        /\ Stored(task[r].key) /\ receipts[task[r].key] = answers[r].message
        /\ messages[answers[r].message].stream = task[r].target

\* A thread is begun only under a message of the channel that is not deleted
\* when the thread's first message commits.
ThreadsBeginUnderLiveRoots ==
    [][\A s \in DOMAIN streams' \ DOMAIN streams : s # Channel =>
          /\ s \in DOMAIN messages
          /\ messages[s].stream = Channel
          /\ ~messages'[s].deleted]_vars

\* Every request ends: no two transactions wait for each other, and none
\* leaves a lock behind.
RequestsEnd == \A r \in Requests : <>(pc[r] = "done")

-----------------------------------------------------------------------------
(***************************************************************************)
(* The refinement: the stream of the channel is a StreamLog.               *)
(***************************************************************************)
MessageAt(s, n) ==
    CHOOSE m \in DOMAIN messages : messages[m].stream = s /\ messages[m].seq = n

ChannelLog ==
    [n \in 1..LastSequence(Channel) |->
        LET row == messages[MessageAt(Channel, n)]
        IN  [rev |-> row.version - 1, deleted |-> row.deleted]]

Log == INSTANCE StreamLog WITH log <- ChannelLog

\* The commits append to the channel one message at a time and change one
\* message at a time, never one that is deleted.
ImplementsStreamLog == Log!Spec

=============================================================================
