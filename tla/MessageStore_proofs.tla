------------------------ MODULE MessageStore_proofs -------------------------
(***************************************************************************)
(* Proofs about the transactions of sending, editing and deleting: the     *)
(* tables keep their constraints for any number of concurrent requests,    *)
(* keys and threads.  A transaction that has taken a lock finds what it    *)
(* read under the lock unchanged until it ends, because every other        *)
(* statement that could change it needs the same lock.                     *)
(***************************************************************************)
EXTENDS MessageStore, SequenceTheorems, TLAPS

\* No lock has two owners.
Exclusive == \A q, r \in Requests : \A l \in locks[q] : l \in locks[r] => q = r

UnderKey  == {"check", "root", "stream", "advance", "store"}
NewKey    == {"root", "stream", "advance", "store"}
UnderRoot == {"stream", "advance", "store"}

\* What a sending transaction knows at each of its statements.
SendFits(r) ==
    LET t == task[r].target IN
    /\ pc[r] \in {"lookup", "begin", "key"} \cup UnderKey =>
         task[r].op = "send" /\ r \notin DOMAIN messages
    /\ pc[r] \in UnderKey => KeyLock(task[r].key) \in locks[r]
    /\ pc[r] \in NewKey => ~Stored(task[r].key)
    /\ pc[r] = "root" => t # Channel
    /\ pc[r] \in UnderRoot /\ t # Channel => RootAllows(t) /\ MessageLock(t) \in locks[r]
    /\ pc[r] = "store" => StreamLock(t) \in locks[r] /\ sequence[r] = LastSequence(t) + 1

\* What a transaction that edits or deletes knows.
MutateFits(r) ==
    LET t == task[r].target IN
    /\ pc[r] \in {"target", "row", "change"} => task[r].op \in {"edit", "delete"}
    /\ pc[r] \in {"row", "change"} => t \in DOMAIN messages /\ messages[t].created < began[r]
    /\ pc[r] = "change" => MessageLock(t) \in locks[r] /\ ~messages[t].deleted

\* A row has its receipt, its stream and its place in it.
RowFits(m) ==
    /\ task[m].op = "send" /\ messages[m].stream = task[m].target
    /\ Stored(task[m].key) /\ receipts[task[m].key] = m
    /\ messages[m].stream \in DOMAIN streams
    /\ messages[m].seq \in 1..streams[messages[m].stream]
    /\ messages[m].created <= clock
    /\ messages[m].edited # 0 => messages[m].edited > messages[m].created

StreamFits(s) ==
    \A n \in 1..streams[s] :
        \E m \in DOMAIN messages : messages[m].stream = s /\ messages[m].seq = n

OneEach ==
    \A m, n \in DOMAIN messages :
        messages[m].stream = messages[n].stream /\ messages[m].seq = messages[n].seq => m = n

TablesFit ==
    /\ \A m \in DOMAIN messages : RowFits(m)
    /\ \A s \in DOMAIN streams : StreamFits(s)
    /\ OneEach

AnswerFits(r) ==
    answers[r].status \in {"created", "existing"} =>
        /\ Stored(task[r].key) /\ receipts[task[r].key] = answers[r].message
        /\ messages[answers[r].message].stream = task[r].target

BeganFits == \A r \in Requests : began[r] <= clock

StoreInv ==
    /\ TypeOK
    /\ Exclusive
    /\ BeganFits
    /\ \A r \in Requests : SendFits(r) /\ MutateFits(r) /\ AnswerFits(r)
    /\ TablesFit
    /\ NothingThrows

LEMMA StoreInitially == Init => StoreInv
<1> SUFFICES ASSUME Init PROVE StoreInv
  OBVIOUS
<1>1. TypeOK
  <2>1. pc \in [Requests -> Statements]
    BY DEF Init, Statements
  <2>2. answers \in [Requests -> [status : Statuses, message : Requests]]
    BY DEF Init, Statuses
  <2> QED BY <2>1, <2>2 DEF Init, TypeOK
<1>2. \A r \in Requests : task[r].op \in {"send", "edit", "delete"}
  BY DEF Init, Tasks
<1>3. \A r \in Requests : SendFits(r) /\ MutateFits(r) /\ AnswerFits(r)
  BY <1>2 DEF Init, SendFits, MutateFits, AnswerFits, UnderKey, NewKey, UnderRoot
<1>4. Exclusive /\ BeganFits /\ TablesFit /\ NothingThrows
  BY DEF Init, Exclusive, BeganFits, TablesFit, OneEach, NothingThrows
<1> QED
  BY <1>1, <1>3, <1>4 DEF StoreInv

-----------------------------------------------------------------------------
(* Steps that write no table.                                              *)

\* The other requests are where they were.
Alone(r) ==
    /\ task' = task
    /\ \A q \in Requests : q # r =>
         /\ pc'[q] = pc[q] /\ locks'[q] = locks[q] /\ began'[q] = began[q]
         /\ sequence'[q] = sequence[q] /\ answers'[q] = answers[q]

\* A step of r that writes no table keeps what all the others know, and the
\* tables: what is left to show is about r.
LEMMA QuietStepKeeps ==
    ASSUME StoreInv, NEW r \in Requests, Alone(r), UNCHANGED tables,
           TypeOK', clock <= clock', began'[r] <= clock',
           \A l \in locks'[r] : l \in locks[r] \/ Free(r, l),
           SendFits(r)', MutateFits(r)', AnswerFits(r)',
           answers'[r].status # "thrown"
    PROVE  StoreInv'
<1>1. UNCHANGED <<streams, messages, receipts>>
  BY DEF tables
<1>2. Exclusive'
  <2> SUFFICES ASSUME NEW p \in Requests, NEW q \in Requests, NEW l \in locks'[p], l \in locks'[q]
               PROVE  p = q
    BY DEF Exclusive
  <2>1. CASE p # r /\ q # r
    BY <2>1 DEF Alone, Exclusive, StoreInv
  <2>2. CASE p = r /\ q # r
    BY <2>2 DEF Alone, Exclusive, StoreInv, Free
  <2>3. CASE p # r /\ q = r
    BY <2>3 DEF Alone, Exclusive, StoreInv, Free
  <2> QED BY <2>1, <2>2, <2>3
<1>3. ASSUME NEW q \in Requests, q # r PROVE SendFits(q)' /\ MutateFits(q)' /\ AnswerFits(q)'
  BY <1>1, <1>3 DEF Alone, StoreInv, SendFits, MutateFits, AnswerFits, RootAllows, Stored, LastSequence
<1>4. TablesFit'
  <2>1. \A m \in DOMAIN messages : RowFits(m)'
    BY <1>1 DEF StoreInv, TablesFit, RowFits, Stored, Alone, TypeOK, Message
  <2> QED BY <1>1, <2>1 DEF StoreInv, TablesFit, StreamFits, OneEach
<1>5. NothingThrows'
  BY DEF NothingThrows, StoreInv, Alone
<1>6. BeganFits'
  <2> SUFFICES ASSUME NEW q \in Requests, q # r PROVE began'[q] <= clock'
    BY DEF BeganFits
  <2>1. began'[q] = began[q] /\ began[q] \in Nat /\ clock \in Nat /\ clock' \in Nat
        /\ began[q] <= clock
    BY DEF Alone, StoreInv, TypeOK, BeganFits
  <2> QED BY <2>1
<1> QED
  BY <1>2, <1>3, <1>4, <1>5, <1>6 DEF StoreInv

\* A request that ends without a write releases its locks.
LEMMA ReplyKeeps ==
    ASSUME StoreInv, NEW r \in Requests, NEW status \in Statuses \ {"thrown"}, NEW m \in Requests,
           Reply(r, status, m), UNCHANGED tables,
           status \in {"created", "existing"} =>
             /\ Stored(task[r].key) /\ receipts[task[r].key] = m
             /\ messages[m].stream = task[r].target
    PROVE  StoreInv'
<1>1. /\ pc' = [pc EXCEPT ![r] = "done"]
      /\ answers' = [answers EXCEPT ![r] = [status |-> status, message |-> m]]
      /\ locks' = [locks EXCEPT ![r] = {}]
      /\ UNCHANGED <<task, began, sequence, clock, streams, messages, receipts>>
  BY DEF Reply, Goto, tables
<1>2. TypeOK
  BY DEF StoreInv
<1>3. TypeOK'
  <2>1. pc' \in [Requests -> Statements]
    BY <1>1, <1>2 DEF TypeOK, Statements
  <2>2. answers' \in [Requests -> [status : Statuses, message : Requests]]
    BY <1>1, <1>2 DEF TypeOK
  <2>3. locks' \in [Requests -> SUBSET ({KeyLock(k) : k \in Keys} \cup {StreamLock(s) : s \in Streams}
                                        \cup {MessageLock(n) : n \in Requests})]
    BY <1>1, <1>2 DEF TypeOK
  <2> QED BY <1>1, <1>2, <2>1, <2>2, <2>3 DEF TypeOK
<1>4. Alone(r)
  BY <1>1, <1>2 DEF Alone, TypeOK
<1>5. pc'[r] = "done" /\ locks'[r] = {} /\ answers'[r].status = status /\ answers'[r].message = m
  BY <1>1, <1>2 DEF TypeOK
<1>6. SendFits(r)' /\ MutateFits(r)'
  BY <1>5 DEF SendFits, MutateFits, UnderKey, NewKey, UnderRoot
<1>7. AnswerFits(r)'
  BY <1>1, <1>5 DEF AnswerFits, Stored
<1>8. clock <= clock' /\ began'[r] <= clock'
  BY <1>1, <1>2 DEF TypeOK, StoreInv, BeganFits
<1> QED
  BY <1>3, <1>4, <1>5, <1>6, <1>7, <1>8, QuietStepKeeps

AllLocks == {KeyLock(k) : k \in Keys} \cup {StreamLock(s) : s \in Streams}
               \cup {MessageLock(m) : m \in Requests}

LEMMA TargetsAreStreams == TypeOK => \A r \in Requests : task[r].target \in Streams
<1> SUFFICES ASSUME TypeOK, NEW r \in Requests PROVE task[r].target \in Streams
  OBVIOUS
<1>1. CASE task[r] \in [op : {"send"}, key : Keys, target : Streams]
  BY <1>1
<1>2. CASE task[r] \in [op : {"edit", "delete"}, key : {NoKey}, target : Requests]
  BY <1>2 DEF Streams
<1> QED
  BY <1>1, <1>2 DEF TypeOK, Tasks

\* A request goes on, with one lock more or the locks it has.
OneLockMore(r) ==
    \/ locks' = locks
    \/ \E l \in AllLocks : Free(r, l) /\ locks' = [locks EXCEPT ![r] = @ \cup {l}]

GoesOn(r, s) ==
    /\ s \in Statements /\ pc' = [pc EXCEPT ![r] = s]
    /\ OneLockMore(r)
    /\ began' \in [Requests -> Nat] /\ \A q \in Requests : q # r => began'[q] = began[q]
    /\ sequence' \in [Requests -> Nat] /\ \A q \in Requests : q # r => sequence'[q] = sequence[q]
    /\ clock' \in Nat /\ clock <= clock' /\ began'[r] <= clock'
    /\ UNCHANGED <<task, answers, tables>>

LEMMA GoesOnKeeps ==
    ASSUME StoreInv, NEW r \in Requests, NEW s, GoesOn(r, s), SendFits(r)', MutateFits(r)'
    PROVE  StoreInv'
<1> USE DEF GoesOn
<1>1. TypeOK
  BY DEF StoreInv
<1>2. UNCHANGED <<streams, messages, receipts>>
  BY DEF tables
<1>3. locks' \in [Requests -> SUBSET AllLocks]
      /\ (\A q \in Requests : q # r => locks'[q] = locks[q])
      /\ (\A l \in locks'[r] : l \in locks[r] \/ Free(r, l))
  BY <1>1 DEF TypeOK, AllLocks, OneLockMore
<1>4. pc' \in [Requests -> Statements] /\ \A q \in Requests : q # r => pc'[q] = pc[q]
  BY <1>1 DEF TypeOK
<1>5. TypeOK'
  <2>1. /\ DOMAIN streams' \subseteq Streams /\ \A x \in DOMAIN streams' : streams'[x] \in Nat
        /\ DOMAIN messages' \subseteq Requests /\ \A m \in DOMAIN messages' : messages'[m] \in Message
        /\ DOMAIN receipts' \subseteq Keys /\ \A k \in DOMAIN receipts' : receipts'[k] \in DOMAIN messages'
    BY <1>1, <1>2 DEF TypeOK
  <2>2. task' \in [Requests -> Tasks] /\ answers' \in [Requests -> [status : Statuses, message : Requests]]
    BY <1>1 DEF TypeOK
  <2> QED BY <1>3, <1>4, <2>1, <2>2 DEF TypeOK, AllLocks
<1>6. Alone(r)
  BY <1>3, <1>4 DEF Alone
<1>7. AnswerFits(r)'
  BY <1>2 DEF StoreInv, AnswerFits, Stored
<1>8. answers'[r].status # "thrown"
  BY DEF StoreInv, NothingThrows
<1> QED
  BY <1>3, <1>5, <1>6, <1>7, <1>8, QuietStepKeeps

LEMMA ReplyExistingKeeps ==
    ASSUME StoreInv, NEW r \in Requests, Stored(task[r].key), ReplyExisting(r), UNCHANGED tables
    PROVE  StoreInv'
<1>1. receipts[task[r].key] \in DOMAIN messages /\ receipts[task[r].key] \in Requests
  BY DEF StoreInv, TypeOK, Stored
<1>2. PICK m \in Requests : m = receipts[task[r].key]
  BY <1>1
<1>3. \/ Reply(r, "idempotency_conflict", r)
      \/ Reply(r, "message_deleted", m)
      \/ Reply(r, "existing", m) /\ messages[m].stream = task[r].target
  BY <1>2 DEF ReplyExisting
<1>4. {"idempotency_conflict", "message_deleted", "existing"} \subseteq Statuses \ {"thrown"}
  BY DEF Statuses
<1> QED
  BY <1>2, <1>3, <1>4, ReplyKeeps

LEMMA LookupKeeps ==
    ASSUME StoreInv, NEW r \in Requests, Lookup(r)
    PROVE  StoreInv'
<1>1. CASE Stored(task[r].key)
  BY <1>1, ReplyExistingKeeps DEF Lookup
<1>2. CASE ~Stored(task[r].key)
  <2>1. /\ pc' = [pc EXCEPT ![r] = "begin"] /\ "begin" \in Statements
        /\ UNCHANGED <<task, locks, began, sequence, answers, clock, tables>>
    BY <1>2 DEF Lookup, Goto, Statements
  <2>2. TypeOK /\ pc[r] = "lookup" /\ SendFits(r) /\ pc'[r] = "begin"
    BY <2>1 DEF StoreInv, Lookup, TypeOK
  <2>3. SendFits(r)' /\ MutateFits(r)'
    BY <2>1, <2>2 DEF SendFits, MutateFits, UnderKey, NewKey, UnderRoot, tables
  <2>4. GoesOn(r, "begin")
    BY <2>1, <2>2 DEF GoesOn, OneLockMore, TypeOK, StoreInv, BeganFits
  <2> QED BY <2>3, <2>4, GoesOnKeeps
<1> QED
  BY <1>1, <1>2

LEMMA BeginSendKeeps ==
    ASSUME StoreInv, NEW r \in Requests, BeginSend(r)
    PROVE  StoreInv'
<1>1. /\ pc' = [pc EXCEPT ![r] = "key"] /\ "key" \in Statements
      /\ clock' = clock + 1 /\ began' = [began EXCEPT ![r] = clock']
      /\ UNCHANGED <<task, locks, sequence, answers, tables>>
  BY DEF BeginSend, Begin, Goto, Statements
<1>2. TypeOK /\ pc[r] = "begin" /\ SendFits(r) /\ pc'[r] = "key"
  BY <1>1 DEF StoreInv, BeginSend, TypeOK
<1>3. SendFits(r)' /\ MutateFits(r)'
  BY <1>1, <1>2 DEF SendFits, MutateFits, UnderKey, NewKey, UnderRoot, tables
<1>4. clock' \in Nat /\ clock <= clock' /\ began' \in [Requests -> Nat]
      /\ \A q \in Requests : q # r => began'[q] = began[q]
  BY <1>1, <1>2 DEF TypeOK
<1>5. GoesOn(r, "key")
  BY <1>1, <1>2, <1>4 DEF GoesOn, OneLockMore, TypeOK
<1> QED BY <1>3, <1>5, GoesOnKeeps

LEMMA LockKeyKeeps ==
    ASSUME StoreInv, NEW r \in Requests, LockKey(r)
    PROVE  StoreInv'
<1>1. TypeOK /\ pc[r] = "key" /\ SendFits(r)
  BY DEF StoreInv, LockKey
<1>2. task[r].key \in Keys
  BY <1>1 DEF TypeOK, SendFits, Tasks
<1>3. PICK l \in AllLocks : l = KeyLock(task[r].key)
  BY <1>2 DEF AllLocks
<1>4. /\ pc' = [pc EXCEPT ![r] = "check"] /\ "check" \in Statements
      /\ Free(r, l) /\ locks' = [locks EXCEPT ![r] = @ \cup {l}]
      /\ UNCHANGED <<task, began, sequence, answers, clock, tables>>
  BY <1>3 DEF LockKey, Lock, Goto, Statements
<1>5. l \in locks'[r] /\ pc'[r] = "check"
  BY <1>1, <1>4 DEF TypeOK
<1>6. SendFits(r)' /\ MutateFits(r)'
  BY <1>1, <1>3, <1>4, <1>5 DEF SendFits, MutateFits, UnderKey, NewKey, UnderRoot, tables
<1>7. OneLockMore(r)
  BY <1>4 DEF OneLockMore
<1>8. GoesOn(r, "check")
  BY <1>1, <1>4, <1>7 DEF GoesOn, TypeOK, StoreInv, BeganFits
<1> QED BY <1>6, <1>8, GoesOnKeeps

LEMMA CheckKeeps ==
    ASSUME StoreInv, NEW r \in Requests, Check(r)
    PROVE  StoreInv'
<1>1. CASE Stored(task[r].key)
  BY <1>1, ReplyExistingKeeps DEF Check
<1>2. CASE ~Stored(task[r].key)
  <2>1. PICK s \in {"stream", "root"} :
          /\ s = IF task[r].target = Channel THEN "stream" ELSE "root"
          /\ pc' = [pc EXCEPT ![r] = s] /\ s \in Statements
          /\ UNCHANGED <<task, locks, began, sequence, answers, clock, tables>>
    BY <1>2 DEF Check, Goto, Statements
  <2>2. TypeOK /\ pc[r] = "check" /\ SendFits(r) /\ pc'[r] = s
    BY <2>1 DEF StoreInv, Check, TypeOK
  <2>3. SendFits(r)' /\ MutateFits(r)'
    BY <1>2, <2>1, <2>2 DEF SendFits, MutateFits, UnderKey, NewKey, UnderRoot, tables, Stored
  <2>4. GoesOn(r, s)
    BY <2>1, <2>2 DEF GoesOn, OneLockMore, TypeOK, StoreInv, BeganFits
  <2> QED BY <2>3, <2>4, GoesOnKeeps
<1> QED
  BY <1>1, <1>2

LEMMA LockRootKeeps ==
    ASSUME StoreInv, NEW r \in Requests, LockRoot(r)
    PROVE  StoreInv'
<1> DEFINE root == task[r].target
<1>1. TypeOK /\ pc[r] = "root" /\ SendFits(r) /\ UNCHANGED tables
  BY DEF StoreInv, LockRoot
<1>2. CASE RootAllows(root)
  <2>1. root \in Requests
    BY <1>1, <1>2 DEF RootAllows, TypeOK
  <2>2. PICK l \in AllLocks : l = MessageLock(root)
    BY <2>1 DEF AllLocks
  <2>3. PICK s \in {"advance", "stream"} :
          /\ pc' = [pc EXCEPT ![r] = s] /\ s \in Statements
          /\ Free(r, l) /\ locks' = [locks EXCEPT ![r] = @ \cup {l}]
          /\ UNCHANGED <<task, began, sequence, answers, clock, tables>>
    BY <1>2, <2>2 DEF LockRoot, Lock, Goto, Statements
  <2>4. l \in locks'[r] /\ locks[r] \subseteq locks'[r] /\ pc'[r] = s
    BY <1>1, <2>3 DEF TypeOK
  <2>5. SendFits(r)' /\ MutateFits(r)'
    BY <1>1, <1>2, <2>2, <2>3, <2>4
    DEF SendFits, MutateFits, UnderKey, NewKey, UnderRoot, tables, Stored, RootAllows
  <2>6. OneLockMore(r)
    BY <2>3 DEF OneLockMore
  <2>7. GoesOn(r, s)
    BY <1>1, <2>3, <2>6 DEF GoesOn, TypeOK, StoreInv, BeganFits
  <2> QED BY <2>5, <2>7, GoesOnKeeps
<1>3. CASE ~RootAllows(root)
  <2>1. Reply(r, "target_not_found", r)
    BY <1>3 DEF LockRoot
  <2> QED BY <1>1, <2>1, ReplyKeeps DEF Statuses
<1> QED
  BY <1>2, <1>3

LEMMA EnsureStreamKeeps ==
    ASSUME StoreInv, NEW r \in Requests, EnsureStream(r)
    PROVE  StoreInv'
<1>1. TypeOK /\ pc[r] = "stream" /\ SendFits(r)
  BY DEF StoreInv, EnsureStream
<1>2. task[r].target \in Streams
  BY <1>1, TargetsAreStreams
<1>3. PICK l \in AllLocks : l = StreamLock(task[r].target)
  BY <1>2 DEF AllLocks
<1>4. /\ pc' = [pc EXCEPT ![r] = "advance"] /\ "advance" \in Statements
      /\ \/ locks' = locks
         \/ Free(r, l) /\ locks' = [locks EXCEPT ![r] = @ \cup {l}]
      /\ UNCHANGED <<task, began, sequence, answers, clock, tables>>
  BY <1>3 DEF EnsureStream, Lock, Goto, Statements
<1>5. locks[r] \subseteq locks'[r] /\ pc'[r] = "advance"
  BY <1>1, <1>4 DEF TypeOK
<1>6. SendFits(r)' /\ MutateFits(r)'
  BY <1>1, <1>4, <1>5
  DEF SendFits, MutateFits, UnderKey, NewKey, UnderRoot, tables, Stored, RootAllows
<1>7. OneLockMore(r)
  BY <1>4 DEF OneLockMore
<1>8. GoesOn(r, "advance")
  BY <1>1, <1>4, <1>7 DEF GoesOn, TypeOK, StoreInv, BeganFits
<1> QED BY <1>6, <1>8, GoesOnKeeps

LEMMA AdvanceKeeps ==
    ASSUME StoreInv, NEW r \in Requests, Advance(r)
    PROVE  StoreInv'
<1>1. TypeOK /\ pc[r] = "advance" /\ SendFits(r)
  BY DEF StoreInv, Advance
<1>2. task[r].target \in Streams
  BY <1>1, TargetsAreStreams
<1>3. PICK l \in AllLocks : l = StreamLock(task[r].target)
  BY <1>2 DEF AllLocks
<1>4. PICK n \in Nat : n = LastSequence(task[r].target) + 1
  BY <1>1 DEF LastSequence, TypeOK
<1>5. /\ pc' = [pc EXCEPT ![r] = "store"] /\ "store" \in Statements
      /\ Free(r, l) /\ locks' = [locks EXCEPT ![r] = @ \cup {l}]
      /\ sequence' = [sequence EXCEPT ![r] = n]
      /\ UNCHANGED <<task, began, answers, clock, tables>>
  BY <1>3, <1>4 DEF Advance, Lock, Goto, Statements
<1>6. l \in locks'[r] /\ locks[r] \subseteq locks'[r] /\ pc'[r] = "store"
      /\ sequence' \in [Requests -> Nat] /\ sequence'[r] = n
      /\ \A q \in Requests : q # r => sequence'[q] = sequence[q]
  BY <1>1, <1>5 DEF TypeOK
<1>7. SendFits(r)' /\ MutateFits(r)'
  BY <1>1, <1>3, <1>4, <1>5, <1>6
  DEF SendFits, MutateFits, UnderKey, NewKey, UnderRoot, tables, Stored, RootAllows, LastSequence
<1>8. OneLockMore(r)
  BY <1>5 DEF OneLockMore
<1>9. GoesOn(r, "store")
  BY <1>1, <1>5, <1>6, <1>8 DEF GoesOn, TypeOK, StoreInv, BeganFits
<1> QED BY <1>7, <1>9, GoesOnKeeps

LEMMA FindTargetKeeps ==
    ASSUME StoreInv, NEW r \in Requests, FindTarget(r)
    PROVE  StoreInv'
<1>1. TypeOK /\ pc[r] = "target" /\ MutateFits(r) /\ UNCHANGED tables
  BY DEF StoreInv, FindTarget
<1>2. CASE task[r].target \in DOMAIN messages
  <2>1. /\ pc' = [pc EXCEPT ![r] = "row"] /\ "row" \in Statements
        /\ clock' = clock + 1 /\ began' = [began EXCEPT ![r] = clock']
        /\ UNCHANGED <<task, locks, sequence, answers, tables>>
    BY <1>2 DEF FindTarget, Begin, Goto, Statements
  <2>2. clock' \in Nat /\ clock < clock' /\ began' \in [Requests -> Nat] /\ began'[r] = clock'
        /\ (\A q \in Requests : q # r => began'[q] = began[q]) /\ pc'[r] = "row"
    BY <1>1, <2>1 DEF TypeOK
  <2>3. messages[task[r].target].created < clock'
    BY <1>1, <1>2, <2>1, <2>2 DEF StoreInv, TablesFit, RowFits, TypeOK, Message
  <2>4. SendFits(r)' /\ MutateFits(r)'
    BY <1>1, <1>2, <2>1, <2>2, <2>3 DEF SendFits, MutateFits, UnderKey, NewKey, UnderRoot, tables
  <2>5. clock <= clock'
    BY <1>1, <2>1 DEF TypeOK
  <2>6. GoesOn(r, "row")
    BY <1>1, <2>1, <2>2, <2>5 DEF GoesOn, OneLockMore, TypeOK
  <2> QED BY <2>4, <2>6, GoesOnKeeps
<1>3. CASE task[r].target \notin DOMAIN messages
  <2>1. Reply(r, "write_forbidden", r)
    BY <1>3 DEF FindTarget
  <2> QED BY <1>1, <2>1, ReplyKeeps DEF Statuses
<1> QED
  BY <1>2, <1>3

LEMMA LockRowKeeps ==
    ASSUME StoreInv, NEW r \in Requests, LockRow(r)
    PROVE  StoreInv'
<1>1. TypeOK /\ pc[r] = "row" /\ MutateFits(r) /\ UNCHANGED tables
  BY DEF StoreInv, LockRow
<1>2. PICK m \in Requests : m = task[r].target /\ m \in DOMAIN messages
  BY <1>1 DEF MutateFits, TypeOK
<1>3. CASE messages[m].deleted
  <2>1. Reply(r, "message_deleted", m) \/ Reply(r, "deleted", m)
    BY <1>2, <1>3 DEF LockRow
  <2> QED BY <1>1, <2>1, ReplyKeeps DEF Statuses
<1>4. CASE ~messages[m].deleted
  <2>1. PICK l \in AllLocks : l = MessageLock(m)
    BY DEF AllLocks
  <2>2. /\ pc' = [pc EXCEPT ![r] = "change"] /\ "change" \in Statements
        /\ Free(r, l) /\ locks' = [locks EXCEPT ![r] = @ \cup {l}]
        /\ UNCHANGED <<task, began, sequence, answers, clock, tables>>
    BY <1>2, <1>4, <2>1 DEF LockRow, Lock, Goto, Statements
  <2>3. l \in locks'[r] /\ pc'[r] = "change"
    BY <1>1, <2>2 DEF TypeOK
  <2>4. SendFits(r)' /\ MutateFits(r)'
    BY <1>1, <1>2, <1>4, <2>1, <2>2, <2>3
    DEF SendFits, MutateFits, UnderKey, NewKey, UnderRoot, tables
  <2>5. OneLockMore(r)
    BY <2>2 DEF OneLockMore
  <2>6. GoesOn(r, "change")
    BY <1>1, <2>2, <2>5 DEF GoesOn, TypeOK, StoreInv, BeganFits
  <2> QED BY <2>4, <2>6, GoesOnKeeps
<1> QED
  BY <1>3, <1>4

LEMMA FailKeeps ==
    ASSUME StoreInv, NEW r \in Requests, Fail(r)
    PROVE  StoreInv'
BY ReplyKeeps DEF Fail, Statuses

-----------------------------------------------------------------------------
(* Steps that write a table.                                               *)

\* What a commit that is answered leaves of everything but the tables.
LEMMA CommitEffects ==
    ASSUME StoreInv, NEW r \in Requests, NEW status \in Statuses \ {"thrown"}, NEW m \in Requests,
           Reply(r, status, m)
    PROVE  /\ Alone(r) /\ UNCHANGED <<task, began, sequence, clock>>
           /\ pc' \in [Requests -> Statements] /\ locks' \in [Requests -> SUBSET AllLocks]
           /\ answers' \in [Requests -> [status : Statuses, message : Requests]]
           /\ pc'[r] = "done" /\ locks'[r] = {}
           /\ answers'[r].status = status /\ answers'[r].message = m
           /\ Exclusive' /\ BeganFits' /\ NothingThrows'
<1>1. /\ pc' = [pc EXCEPT ![r] = "done"]
      /\ answers' = [answers EXCEPT ![r] = [status |-> status, message |-> m]]
      /\ locks' = [locks EXCEPT ![r] = {}]
      /\ UNCHANGED <<task, began, sequence, clock>>
  BY DEF Reply, Goto
<1>2. TypeOK
  BY DEF StoreInv
<1>3. pc' \in [Requests -> Statements]
  BY <1>1, <1>2 DEF TypeOK, Statements
<1>4. answers' \in [Requests -> [status : Statuses, message : Requests]]
  BY <1>1, <1>2 DEF TypeOK
<1>5. locks' \in [Requests -> SUBSET AllLocks]
  BY <1>1, <1>2 DEF TypeOK, AllLocks
<1>6. Alone(r)
  BY <1>1, <1>2 DEF Alone, TypeOK
<1>7. pc'[r] = "done" /\ locks'[r] = {} /\ answers'[r].status = status /\ answers'[r].message = m
  BY <1>1, <1>2 DEF TypeOK
<1>8. Exclusive'
  BY <1>6, <1>7 DEF Exclusive, StoreInv, Alone
<1>9. BeganFits' /\ NothingThrows'
  BY <1>1, <1>6, <1>7 DEF BeganFits, NothingThrows, StoreInv, Alone
<1> QED
  BY <1>1, <1>3, <1>4, <1>5, <1>6, <1>7, <1>8, <1>9

\* The table g is the table f with the value v at x.
Puts(f, g, x, v) ==
    /\ DOMAIN g = DOMAIN f \cup {x}
    /\ g[x] = v
    /\ \A y \in DOMAIN f : y # x => g[y] = f[y]

LEMMA WithPuts == ASSUME NEW f, NEW x, NEW v PROVE Puts(f, With(f, x, v), x, v)
BY DEF With, Puts

\* What is known of a sending transaction right before its commit, with s its
\* stream, k its key and n the sequence it has taken.
Ready(r, s, k, n) ==
    /\ s = task[r].target /\ k = task[r].key /\ n = sequence[r]
    /\ s \in Streams /\ k \in Keys /\ n \in Nat /\ n >= 1
    /\ task[r].op = "send"
    /\ KeyLock(k) \in locks[r] /\ StreamLock(s) \in locks[r]
    /\ r \notin DOMAIN messages /\ k \notin DOMAIN receipts
    /\ n = LastSequence(s) + 1

LEMMA StoreIsReady ==
    ASSUME StoreInv, NEW r \in Requests, pc[r] = "store"
    PROVE  Ready(r, task[r].target, task[r].key, sequence[r])
<1>1. TypeOK /\ SendFits(r)
  BY DEF StoreInv
<1>2. task[r].op = "send" /\ r \notin DOMAIN messages /\ KeyLock(task[r].key) \in locks[r]
      /\ ~Stored(task[r].key) /\ StreamLock(task[r].target) \in locks[r]
      /\ sequence[r] = LastSequence(task[r].target) + 1
  BY <1>1 DEF SendFits, UnderKey, NewKey
<1>3. task[r].target \in Streams
  BY <1>1, TargetsAreStreams
<1>4. task[r].key \in Keys
  BY <1>1, <1>2 DEF TypeOK, Tasks
<1>5. LastSequence(task[r].target) \in Nat /\ sequence[r] \in Nat
  BY <1>1 DEF TypeOK, LastSequence
<1> QED
  BY <1>2, <1>3, <1>4, <1>5 DEF Ready, Stored

\* The row that the commit inserts, and the tables after it.
Inserts(r, s, k, n) ==
    /\ Puts(streams, streams', s, n)
    /\ DOMAIN messages' = DOMAIN messages \cup {r}
    /\ \A m \in DOMAIN messages : messages'[m] = messages[m]
    /\ messages'[r] \in Message
    /\ messages'[r].stream = s /\ messages'[r].seq = n /\ messages'[r].created = began[r]
    /\ messages'[r].version = 1 /\ messages'[r].edited = 0 /\ messages'[r].deleted = FALSE
    /\ Puts(receipts, receipts', k, r)

LEMMA StoreInserts ==
    ASSUME StoreInv, NEW r \in Requests, Store(r)
    PROVE  /\ Ready(r, task[r].target, task[r].key, sequence[r])
           /\ Inserts(r, task[r].target, task[r].key, sequence[r])
           /\ Reply(r, "created", r)
<1>1. Ready(r, task[r].target, task[r].key, sequence[r])
  BY StoreIsReady DEF Store
<1>2. PICK s, k, n : s = task[r].target /\ k = task[r].key /\ n = sequence[r]
  OBVIOUS
<1>3. PICK row : row = [stream |-> s, seq |-> n, version |-> 1,
                        created |-> began[r], edited |-> 0, deleted |-> FALSE]
  OBVIOUS
<1>4. row \in Message /\ row.stream = s /\ row.seq = n /\ row.created = began[r]
      /\ row.version = 1 /\ row.edited = 0 /\ row.deleted = FALSE
  BY <1>1, <1>2, <1>3 DEF Ready, Message, StoreInv, TypeOK
<1>5. streams' = With(streams, s, n) /\ messages' = With(messages, r, row)
      /\ receipts' = With(receipts, k, r) /\ Reply(r, "created", r)
  BY <1>1, <1>2, <1>3 DEF Store, Ready, Stored
<1>6. Puts(streams, streams', s, n) /\ Puts(messages, messages', r, row)
      /\ Puts(receipts, receipts', k, r)
  BY <1>5, WithPuts
<1>7. r \notin DOMAIN messages
  BY <1>1 DEF Ready
<1>8. Inserts(r, s, k, n)
  BY <1>4, <1>6, <1>7 DEF Inserts, Puts
<1> QED
  BY <1>1, <1>2, <1>5, <1>8

LEMMA InsertKeepsTables ==
    ASSUME StoreInv, NEW r \in Requests, NEW s, NEW k, NEW n,
           Ready(r, s, k, n), Inserts(r, s, k, n), task' = task, clock' = clock
    PROVE  TablesFit'
<1> USE DEF Inserts, Puts
<1>1. TypeOK /\ TablesFit /\ began[r] <= clock /\ n \in Nat /\ n >= 1
  BY DEF StoreInv, BeganFits, Ready
<1>2. ASSUME NEW m \in DOMAIN messages, messages[m].stream = s
      PROVE  messages[m].seq \in 1..(n - 1)
  BY <1>1, <1>2 DEF Ready, TablesFit, RowFits, LastSequence, TypeOK
<1>3. ASSUME NEW m \in DOMAIN messages PROVE RowFits(m)'
  <2>1. RowFits(m) /\ m # r /\ messages'[m] = messages[m] /\ task[m].key # k
    BY <1>1 DEF TablesFit, Ready, RowFits, Stored
  <2>2. messages[m].stream \in DOMAIN streams'
        /\ messages[m].seq \in 1..streams'[messages[m].stream]
    <3>1. CASE messages[m].stream = s
      BY <1>1, <1>2, <3>1
    <3>2. CASE messages[m].stream # s
      BY <2>1, <3>2 DEF RowFits
    <3> QED BY <3>1, <3>2
  <2> QED BY <2>1, <2>2 DEF RowFits, Stored
<1>4. RowFits(r)'
  BY <1>1 DEF RowFits, Stored, Ready
<1>5. ASSUME NEW x \in DOMAIN streams' PROVE StreamFits(x)'
  <2> SUFFICES ASSUME NEW j \in 1..streams'[x]
               PROVE  \E m \in DOMAIN messages' : messages'[m].stream = x /\ messages'[m].seq = j
    BY DEF StreamFits
  <2>1. CASE x = s /\ j = n
    BY <2>1
  <2>2. CASE x = s /\ j # n
    <3>1. j \in 1..(n - 1)
      BY <1>1, <2>2
    <3>2. s \in DOMAIN streams /\ j \in 1..streams[s]
      BY <1>1, <3>1 DEF Ready, LastSequence, TypeOK
    <3>3. PICK m \in DOMAIN messages : messages[m].stream = s /\ messages[m].seq = j
      BY <1>1, <3>2 DEF TablesFit, StreamFits
    <3> QED BY <2>2, <3>3
  <2>3. CASE x # s
    <3>1. x \in DOMAIN streams /\ j \in 1..streams[x]
      BY <2>3
    <3>2. PICK m \in DOMAIN messages : messages[m].stream = x /\ messages[m].seq = j
      BY <1>1, <3>1 DEF TablesFit, StreamFits
    <3> QED BY <3>2
  <2> QED BY <2>1, <2>2, <2>3
<1>6. OneEach'
  <2>1. \A m \in DOMAIN messages : messages[m].stream = s => messages[m].seq # n
    BY <1>1, <1>2
  <2> QED BY <1>1, <2>1 DEF TablesFit, OneEach
<1> QED
  BY <1>3, <1>4, <1>5, <1>6 DEF TablesFit

LEMMA StoreKeeps ==
    ASSUME StoreInv, NEW r \in Requests, Store(r)
    PROVE  StoreInv'
<1>1. PICK s, k, n : Ready(r, s, k, n) /\ Inserts(r, s, k, n) /\ Reply(r, "created", r)
  BY StoreInserts
<1>2. TypeOK /\ Exclusive /\ "created" \in Statuses \ {"thrown"}
  BY DEF StoreInv, Statuses
<1>3. /\ Alone(r) /\ UNCHANGED <<task, began, sequence, clock>>
      /\ pc' \in [Requests -> Statements] /\ locks' \in [Requests -> SUBSET AllLocks]
      /\ answers' \in [Requests -> [status : Statuses, message : Requests]]
      /\ pc'[r] = "done" /\ locks'[r] = {}
      /\ answers'[r].status = "created" /\ answers'[r].message = r
      /\ Exclusive' /\ BeganFits' /\ NothingThrows'
  BY <1>1, <1>2, CommitEffects
<1>4. TypeOK'
  <2>1. DOMAIN streams' \subseteq Streams /\ \A x \in DOMAIN streams' : streams'[x] \in Nat
    BY <1>1, <1>2 DEF Inserts, Puts, Ready, TypeOK
  <2>2. DOMAIN messages' \subseteq Requests /\ \A m \in DOMAIN messages' : messages'[m] \in Message
    BY <1>1, <1>2 DEF Inserts, TypeOK
  <2>3. DOMAIN receipts' \subseteq Keys /\ \A x \in DOMAIN receipts' : receipts'[x] \in DOMAIN messages'
    BY <1>1, <1>2 DEF Inserts, Puts, Ready, TypeOK
  <2> QED BY <1>2, <1>3, <2>1, <2>2, <2>3 DEF TypeOK, AllLocks
<1>5. TablesFit'
  BY <1>1, <1>3, InsertKeepsTables
<1>6. ASSUME NEW q \in Requests, q # r PROVE SendFits(q)'
  <2>1. /\ SendFits(q) /\ pc'[q] = pc[q] /\ locks'[q] = locks[q] /\ sequence'[q] = sequence[q]
        /\ q \in DOMAIN messages' => q \in DOMAIN messages
    BY <1>1, <1>3, <1>6 DEF StoreInv, Alone, Inserts
  <2>2. pc[q] \in NewKey => task[q].key \notin DOMAIN receipts'
    BY <1>1, <1>2, <1>6, <2>1
    DEF Exclusive, SendFits, NewKey, UnderKey, Ready, Inserts, Puts, Stored
  <2>3. pc[q] = "store" => LastSequence(task[q].target)' = LastSequence(task[q].target)
    BY <1>1, <1>2, <1>3, <1>6, <2>1 DEF Exclusive, SendFits, Ready, Inserts, Puts, LastSequence
  <2>4. RootAllows(task[q].target) => RootAllows(task[q].target)'
    BY <1>1, <1>3 DEF RootAllows, Inserts, Puts
  <2> QED BY <1>3, <2>1, <2>2, <2>3, <2>4 DEF SendFits, Stored
<1>7. ASSUME NEW q \in Requests, q # r PROVE MutateFits(q)' /\ AnswerFits(q)'
  <2>1. MutateFits(q) /\ AnswerFits(q) /\ pc'[q] = pc[q] /\ locks'[q] = locks[q]
        /\ answers'[q] = answers[q] /\ began'[q] = began[q] /\ task'[q] = task[q]
    BY <1>3, <1>7 DEF StoreInv, Alone
  <2>2. MutateFits(q)'
    BY <1>1, <2>1 DEF MutateFits, Inserts
  <2>3. AnswerFits(q)'
    BY <1>1, <1>2, <2>1 DEF AnswerFits, Inserts, Puts, Ready, Stored, TypeOK
  <2> QED BY <2>2, <2>3
<1>8. SendFits(r)' /\ MutateFits(r)'
  BY <1>3 DEF SendFits, MutateFits, UnderKey, NewKey, UnderRoot
<1>9. AnswerFits(r)'
  BY <1>1, <1>3 DEF AnswerFits, Stored, Inserts, Puts, Ready
<1> QED
  BY <1>3, <1>4, <1>5, <1>6, <1>7, <1>8, <1>9 DEF StoreInv

\* The update of the row of m, under its lock.
Updates(r, m) ==
    /\ m = task[r].target /\ m \in DOMAIN messages
    /\ MessageLock(m) \in locks[r] /\ ~messages[m].deleted
    /\ UNCHANGED <<streams, receipts>>
    /\ DOMAIN messages' = DOMAIN messages
    /\ \A x \in DOMAIN messages : x # m => messages'[x] = messages[x]
    /\ messages'[m] \in Message
    /\ messages'[m].stream = messages[m].stream /\ messages'[m].seq = messages[m].seq
    /\ messages'[m].created = messages[m].created
    /\ messages'[m].version = messages[m].version + 1
    /\ messages'[m].edited # messages[m].edited => messages'[m].edited > messages[m].created

LEMMA ChangedFields ==
    ASSUME NEW row \in Message, NEW op, NEW now \in Nat
    PROVE  /\ Changed(row, op, now) \in Message
           /\ Changed(row, op, now).stream = row.stream /\ Changed(row, op, now).seq = row.seq
           /\ Changed(row, op, now).created = row.created
           /\ Changed(row, op, now).version = row.version + 1
           /\ Changed(row, op, now).edited \in {row.edited, now}
<1>1. CASE op = "edit"
  <2>1. Changed(row, op, now) = [row EXCEPT !.version = row.version + 1, !.edited = now]
    BY <1>1 DEF Changed
  <2>2. row.version + 1 \in Nat
    BY DEF Message
  <2> QED BY <2>1, <2>2 DEF Message
<1>2. CASE op # "edit"
  <2>1. Changed(row, op, now) = [row EXCEPT !.version = row.version + 1, !.deleted = TRUE]
    BY <1>2 DEF Changed
  <2>2. row.version + 1 \in Nat
    BY DEF Message
  <2> QED BY <2>1, <2>2 DEF Message
<1> QED
  BY <1>1, <1>2

LEMMA ChangeUpdates ==
    ASSUME StoreInv, NEW r \in Requests, Change(r)
    PROVE  /\ Updates(r, task[r].target)
           /\ Reply(r, "edited", task[r].target) \/ Reply(r, "deleted", task[r].target)
<1>1. TypeOK /\ MutateFits(r) /\ pc[r] = "change"
  BY DEF StoreInv, Change
<1>2. PICK m : m = task[r].target
  OBVIOUS
<1>3. m \in DOMAIN messages /\ messages[m].created < began[r]
      /\ MessageLock(m) \in locks[r] /\ ~messages[m].deleted
  BY <1>1, <1>2 DEF MutateFits
<1>4. PICK row : row = Changed(messages[m], task[r].op, began[r])
  OBVIOUS
<1>5. messages[m] \in Message /\ began[r] \in Nat
  BY <1>1, <1>3 DEF TypeOK
<1>6. row \in Message /\ row.stream = messages[m].stream /\ row.seq = messages[m].seq
      /\ row.created = messages[m].created /\ row.version = messages[m].version + 1
      /\ row.edited \in {messages[m].edited, began[r]}
  BY <1>4, <1>5, ChangedFields
<1>7. row.edited # messages[m].edited => row.edited > messages[m].created
  BY <1>3, <1>5, <1>6 DEF Message
<1>8. messages' = [messages EXCEPT ![m] = row] /\ UNCHANGED <<streams, receipts>>
      /\ (Reply(r, "edited", m) \/ Reply(r, "deleted", m))
  BY <1>2, <1>3, <1>4 DEF Change
<1>9. DOMAIN messages' = DOMAIN messages /\ messages'[m] = row
      /\ \A x \in DOMAIN messages : x # m => messages'[x] = messages[x]
  BY <1>3, <1>8
<1>10. Updates(r, m)
  BY <1>2, <1>3, <1>6, <1>7, <1>8, <1>9 DEF Updates
<1> QED
  BY <1>2, <1>8, <1>10

LEMMA UpdateKeepsTables ==
    ASSUME StoreInv, NEW r \in Requests, NEW m, Updates(r, m), task' = task, clock' = clock
    PROVE  TablesFit'
<1> USE DEF Updates
<1>1. TypeOK /\ TablesFit
  BY DEF StoreInv
<1>2. \A x \in DOMAIN messages : messages'[x].stream = messages[x].stream
        /\ messages'[x].seq = messages[x].seq /\ messages'[x].created = messages[x].created
  OBVIOUS
<1>3. ASSUME NEW x \in DOMAIN messages PROVE RowFits(x)'
  <2>1. RowFits(x)
    BY <1>1 DEF TablesFit
  <2>2. messages'[x].edited # 0 => messages'[x].edited > messages'[x].created
    BY <1>2, <2>1 DEF RowFits
  <2> QED BY <1>2, <2>1, <2>2 DEF RowFits, Stored
<1>4. OneEach'
  BY <1>1, <1>2 DEF TablesFit, OneEach
<1>5. ASSUME NEW s \in DOMAIN streams PROVE StreamFits(s)'
  BY <1>1, <1>2 DEF TablesFit, StreamFits
<1> QED
  BY <1>3, <1>4, <1>5 DEF TablesFit

LEMMA ChangeKeeps ==
    ASSUME StoreInv, NEW r \in Requests, Change(r)
    PROVE  StoreInv'
<1>1. PICK m : /\ Updates(r, m)
               /\ Reply(r, "edited", m) \/ Reply(r, "deleted", m)
  BY ChangeUpdates
<1>2. TypeOK /\ Exclusive /\ {"edited", "deleted"} \subseteq Statuses \ {"thrown"}
  BY DEF StoreInv, Statuses
<1>3. PICK status \in {"edited", "deleted"} : Reply(r, status, m)
  BY <1>1
<1>4. m \in Requests /\ status \in Statuses \ {"thrown"}
  BY <1>1, <1>2 DEF Updates, TypeOK
<1>5. /\ Alone(r) /\ UNCHANGED <<task, began, sequence, clock>>
      /\ pc' \in [Requests -> Statements] /\ locks' \in [Requests -> SUBSET AllLocks]
      /\ answers' \in [Requests -> [status : Statuses, message : Requests]]
      /\ pc'[r] = "done" /\ locks'[r] = {}
      /\ answers'[r].status = status
      /\ Exclusive' /\ BeganFits' /\ NothingThrows'
  BY <1>3, <1>4, CommitEffects
<1>6. TypeOK'
  <2>1. DOMAIN streams' \subseteq Streams /\ \A x \in DOMAIN streams' : streams'[x] \in Nat
    BY <1>1, <1>2 DEF Updates, TypeOK
  <2>2. DOMAIN messages' \subseteq Requests /\ \A x \in DOMAIN messages' : messages'[x] \in Message
    BY <1>1, <1>2 DEF Updates, TypeOK
  <2>3. DOMAIN receipts' \subseteq Keys /\ \A x \in DOMAIN receipts' : receipts'[x] \in DOMAIN messages'
    BY <1>1, <1>2 DEF Updates, TypeOK
  <2> QED BY <1>2, <1>5, <2>1, <2>2, <2>3 DEF TypeOK, AllLocks
<1>7. TablesFit'
  BY <1>1, <1>5, UpdateKeepsTables
<1>8. \A x \in DOMAIN messages : messages'[x].stream = messages[x].stream
        /\ messages'[x].created = messages[x].created
  BY <1>1 DEF Updates
<1>9. ASSUME NEW q \in Requests, q # r PROVE SendFits(q)'
  <2>1. /\ SendFits(q) /\ pc'[q] = pc[q] /\ locks'[q] = locks[q] /\ sequence'[q] = sequence[q]
    BY <1>5, <1>9 DEF StoreInv, Alone
  <2>2. pc[q] \in UnderRoot /\ task[q].target # Channel => task[q].target # m
    BY <1>1, <1>2, <1>9, <2>1 DEF Exclusive, SendFits, Updates
  <2>3. RootAllows(task[q].target) /\ task[q].target # m => RootAllows(task[q].target)'
    BY <1>1, <1>5 DEF RootAllows, Updates
  <2> QED BY <1>1, <1>5, <2>1, <2>2, <2>3 DEF SendFits, Stored, LastSequence, Updates
<1>10. ASSUME NEW q \in Requests, q # r PROVE MutateFits(q)' /\ AnswerFits(q)'
  <2>1. MutateFits(q) /\ AnswerFits(q) /\ pc'[q] = pc[q] /\ locks'[q] = locks[q]
        /\ answers'[q] = answers[q] /\ began'[q] = began[q] /\ task'[q] = task[q]
    BY <1>5, <1>10 DEF StoreInv, Alone
  <2>2. pc[q] = "change" => task[q].target # m
    BY <1>1, <1>2, <1>10, <2>1 DEF Exclusive, MutateFits, Updates
  <2>3. MutateFits(q)'
    BY <1>1, <1>8, <2>1, <2>2 DEF MutateFits, Updates
  <2>4. AnswerFits(q)'
    BY <1>1, <1>2, <1>8, <2>1 DEF AnswerFits, Updates, Stored, TypeOK
  <2> QED BY <2>3, <2>4
<1>11. SendFits(r)' /\ MutateFits(r)'
  BY <1>5 DEF SendFits, MutateFits, UnderKey, NewKey, UnderRoot
<1>12. AnswerFits(r)'
  BY <1>5 DEF AnswerFits
<1> QED
  BY <1>5, <1>6, <1>7, <1>9, <1>10, <1>11, <1>12 DEF StoreInv

LEMMA IdleKeeps == StoreInv /\ UNCHANGED vars => StoreInv'
<1> SUFFICES ASSUME StoreInv, UNCHANGED vars PROVE StoreInv'
  OBVIOUS
<1>1. UNCHANGED <<task, pc, locks, began, sequence, streams, messages, receipts, answers, clock>>
  BY DEF vars, tables
<1>2. TypeOK'
  BY <1>1 DEF StoreInv, TypeOK
<1>3. Exclusive' /\ BeganFits' /\ NothingThrows'
  BY <1>1 DEF StoreInv, Exclusive, BeganFits, NothingThrows
<1>4. ASSUME NEW r \in Requests PROVE SendFits(r)' /\ MutateFits(r)' /\ AnswerFits(r)'
  <2>1. SendFits(r)'
    BY <1>1 DEF StoreInv, SendFits, RootAllows, Stored, LastSequence
  <2>2. MutateFits(r)' /\ AnswerFits(r)'
    BY <1>1 DEF StoreInv, MutateFits, AnswerFits, Stored
  <2> QED BY <2>1, <2>2
<1>5. TablesFit'
  BY <1>1 DEF StoreInv, TablesFit, RowFits, StreamFits, OneEach, Stored
<1> QED
  BY <1>2, <1>3, <1>4, <1>5 DEF StoreInv

LEMMA StoreStepKeeps == StoreInv /\ [Next]_vars => StoreInv'
<1> SUFFICES ASSUME StoreInv, [Next]_vars PROVE StoreInv'
  OBVIOUS
<1>1. CASE Next
  <2>1. PICK r \in Requests : Send(r) \/ Mutate(r) \/ Fail(r)
    BY <1>1 DEF Next
  <2>2. CASE Send(r)
    BY <2>2, LookupKeeps, BeginSendKeeps, LockKeyKeeps, CheckKeeps, LockRootKeeps,
       EnsureStreamKeeps, AdvanceKeeps, StoreKeeps DEF Send
  <2>3. CASE Mutate(r)
    BY <2>3, FindTargetKeeps, LockRowKeeps, ChangeKeeps DEF Mutate
  <2>4. CASE Fail(r)
    BY <2>4, FailKeeps
  <2> QED BY <2>1, <2>2, <2>3, <2>4
<1>2. CASE UNCHANGED vars
  BY <1>2, IdleKeeps
<1> QED
  BY <1>1, <1>2

\* The locks are held, and what a transaction read under them holds, in every
\* reachable state.
THEOREM StoreInvariantHolds == Spec => []StoreInv
BY StoreInitially, StoreStepKeeps, PTL DEF Spec

-----------------------------------------------------------------------------
(* What the invariant says of the tables, the answers and the threads.     *)

\* The committed tables keep their constraints whatever statements of several
\* transactions come between each other, and no transaction is told of one.
THEOREM TablesStaySound == Spec => []TablesAreSound
<1>1. StoreInv => TablesAreSound
  <2> SUFFICES ASSUME StoreInv PROVE TablesAreSound
    OBVIOUS
  <2>1. TypeOK /\ TablesFit /\ NothingThrows
    BY DEF StoreInv
  <2>2. \A m \in DOMAIN messages : messages[m].seq \in 1..LastSequence(messages[m].stream)
    BY <2>1 DEF TablesFit, RowFits, LastSequence
  <2>3. SequencesHaveNoHole
    BY <2>1, <2>2 DEF SequencesHaveNoHole, TablesFit, StreamFits, OneEach
  <2>4. OneMessagePerKey /\ EditedAfterCreated
    BY <2>1 DEF OneMessagePerKey, EditedAfterCreated, TablesFit, RowFits
  <2> QED BY <2>1, <2>3, <2>4 DEF TablesAreSound
<1> QED
  BY <1>1, StoreInvariantHolds, PTL

\* Sends with one key that are accepted are answered with one message, in the
\* stream they asked for.
THEOREM AnswersStayInAgreement == Spec => []AnswersAgree
<1>1. StoreInv => AnswersAgree
  BY DEF StoreInv, AnswersAgree, AnswerFits
<1> QED
  BY <1>1, StoreInvariantHolds, PTL

Begun ==
    \A s \in DOMAIN streams' \ DOMAIN streams : s # Channel =>
        /\ s \in DOMAIN messages
        /\ messages[s].stream = Channel
        /\ ~messages'[s].deleted

\* Only the commit of a send adds a stream, and it holds the lock of the root.
LEMMA StepBegins == StoreInv /\ [Next]_vars => Begun
<1> SUFFICES ASSUME StoreInv, [Next]_vars PROVE Begun
  OBVIOUS
<1>1. CASE \E r \in Requests : Store(r)
  <2>1. PICK r \in Requests : Store(r)
    BY <1>1
  <2>2. PICK s, k, n : Ready(r, s, k, n) /\ Inserts(r, s, k, n)
    BY <2>1, StoreInserts
  <2>3. SendFits(r) /\ pc[r] = "store"
    BY <2>1 DEF StoreInv, Store
  <2>4. s # Channel => RootAllows(s)
    BY <2>2, <2>3 DEF SendFits, UnderRoot, Ready
  <2> QED BY <2>2, <2>4 DEF Begun, RootAllows, Inserts, Puts
<1>2. CASE ~\E r \in Requests : Store(r)
  <2>1. UNCHANGED streams
    <3>1. CASE UNCHANGED vars
      BY <3>1 DEF vars, tables
    <3>2. CASE Next
      <4>1. PICK r \in Requests : Send(r) \/ Mutate(r) \/ Fail(r)
        BY <3>2 DEF Next
      <4>2. CASE Send(r)
        BY <1>2, <4>2 DEF Send, Lookup, BeginSend, LockKey, Check, LockRoot, EnsureStream,
                          Advance, tables
      <4>3. CASE Mutate(r)
        BY <4>3 DEF Mutate, FindTarget, LockRow, Change, tables
      <4>4. CASE Fail(r)
        BY <4>4 DEF Fail, tables
      <4> QED BY <4>1, <4>2, <4>3, <4>4
    <3> QED BY <3>1, <3>2
  <2> QED BY <2>1 DEF Begun
<1> QED
  BY <1>1, <1>2

\* A thread is begun only under a message of the channel that is not deleted
\* when the first message of the thread commits.
THEOREM ThreadsAlwaysBeginUnderLiveRoots == Spec => ThreadsBeginUnderLiveRoots
<1>1. StoreInv /\ [Next]_vars => [Begun]_vars
  BY StepBegins
<1> QED
  BY <1>1, StoreInvariantHolds, PTL DEF Spec, ThreadsBeginUnderLiveRoots, Begun

-----------------------------------------------------------------------------
(* The stream of the channel is a log.                                     *)

\* What the log shows of a row.
Shown(row) == [rev |-> row.version - 1, deleted |-> row.deleted]

LEMMA FunctionIsSequence ==
    ASSUME NEW S, NEW n \in Nat, NEW f \in [1..n -> S]
    PROVE  f \in Seq(S) /\ Len(f) = n
OBVIOUS

LEMMA Appended ==
    ASSUME NEW S, NEW n \in Nat, NEW f \in [1..n -> S], NEW e \in S, NEW g \in [1..(n + 1) -> S],
           g[n + 1] = e, \A i \in 1..n : g[i] = f[i]
    PROVE  g = Append(f, e)
<1>1. f \in Seq(S) /\ Len(f) = n
  BY FunctionIsSequence
<1>2. g \in Seq(S) /\ Len(g) = n + 1
  BY FunctionIsSequence
<1>3. Append(f, e) \in Seq(S) /\ Len(Append(f, e)) = n + 1
      /\ Append(f, e)[n + 1] = e /\ \A i \in 1..n : Append(f, e)[i] = f[i]
  BY <1>1, AppendProperties
<1>4. \A i \in 1..(n + 1) : g[i] = Append(f, e)[i]
  BY <1>3
<1> QED
  BY <1>2, <1>3, <1>4, SeqEqual

LEMMA MessageAtIsUnique ==
    ASSUME OneEach, NEW m \in DOMAIN messages
    PROVE  MessageAt(messages[m].stream, messages[m].seq) = m
BY DEF OneEach, MessageAt

\* The log has the row of the n-th message at n.
LEMMA ChannelLogShows ==
    ASSUME StoreInv
    PROVE  /\ LastSequence(Channel) \in Nat
           /\ DOMAIN ChannelLog = 1..LastSequence(Channel)
           /\ ChannelLog \in [1..LastSequence(Channel) -> [rev : Int, deleted : BOOLEAN]]
           /\ \A n \in 1..LastSequence(Channel) :
                 \E m \in DOMAIN messages : /\ messages[m].stream = Channel /\ messages[m].seq = n
                                            /\ ChannelLog[n] = Shown(messages[m])
           /\ \A m \in DOMAIN messages :
                 messages[m].stream = Channel =>
                    /\ messages[m].seq \in 1..LastSequence(Channel)
                    /\ ChannelLog[messages[m].seq] = Shown(messages[m])
<1>1. TypeOK /\ TablesFit /\ OneEach
  BY DEF StoreInv, TablesFit
<1>2. LastSequence(Channel) \in Nat
  BY <1>1 DEF TypeOK, LastSequence
<1>3. ASSUME NEW m \in DOMAIN messages, messages[m].stream = Channel
      PROVE  messages[m].seq \in 1..LastSequence(Channel)
  BY <1>1, <1>3 DEF TablesFit, RowFits, LastSequence
<1>4. ASSUME NEW n \in 1..LastSequence(Channel)
      PROVE  \E m \in DOMAIN messages : messages[m].stream = Channel /\ messages[m].seq = n
  BY <1>1, <1>2, <1>4 DEF TablesFit, StreamFits, LastSequence
<1>5. ASSUME NEW m \in DOMAIN messages, messages[m].stream = Channel
      PROVE  ChannelLog[messages[m].seq] = Shown(messages[m])
  <2>1. MessageAt(Channel, messages[m].seq) = m
    BY <1>1, <1>5, MessageAtIsUnique
  <2> QED BY <1>3, <1>5, <2>1 DEF ChannelLog, Shown
<1>6. \A n \in 1..LastSequence(Channel) :
         \E m \in DOMAIN messages : /\ messages[m].stream = Channel /\ messages[m].seq = n
                                    /\ ChannelLog[n] = Shown(messages[m])
  BY <1>4, <1>5
<1>7. \A m \in DOMAIN messages : Shown(messages[m]) \in [rev : Int, deleted : BOOLEAN]
  BY <1>1 DEF TypeOK, Message, Shown
<1>8. DOMAIN ChannelLog = 1..LastSequence(Channel)
      /\ ChannelLog = [n \in 1..LastSequence(Channel) |-> ChannelLog[n]]
  BY DEF ChannelLog
<1>9. ChannelLog \in [1..LastSequence(Channel) -> [rev : Int, deleted : BOOLEAN]]
  BY <1>6, <1>7, <1>8
<1> QED
  BY <1>2, <1>3, <1>5, <1>6, <1>8, <1>9

\* The same of the log after a step.
LogShows ==
    /\ LastSequence(Channel) \in Nat
    /\ ChannelLog \in [1..LastSequence(Channel) -> [rev : Int, deleted : BOOLEAN]]
    /\ \A m \in DOMAIN messages :
          messages[m].stream = Channel => ChannelLog[messages[m].seq] = Shown(messages[m])

LEMMA NewLogShows == StoreInv' => LogShows'
<1>1. StoreInv => LogShows
  BY ChannelLogShows DEF LogShows
<1> QED
  BY <1>1, PTL

\* A commit that stores a message of the channel appends to the log, and one
\* that stores a message of a thread leaves it alone.
LEMMA StoreGrowsTheLog ==
    ASSUME StoreInv, StoreInv', NEW r \in Requests, Store(r)
    PROVE  Log!Grow \/ UNCHANGED ChannelLog
<1>1. PICK s, k, n : Ready(r, s, k, n) /\ Inserts(r, s, k, n)
  BY StoreInserts
<1>2. PICK last, old : /\ last = LastSequence(Channel) /\ old = ChannelLog
                       /\ last \in Nat /\ old \in [1..last -> [rev : Int, deleted : BOOLEAN]]
                       /\ \A i \in 1..last : \E m \in DOMAIN messages :
                             /\ messages[m].stream = Channel /\ messages[m].seq = i
                             /\ old[i] = Shown(messages[m])
  BY ChannelLogShows
<1>3. PICK final, new :
         /\ final = LastSequence(Channel)' /\ new = ChannelLog'
         /\ final \in Nat /\ new \in [1..final -> [rev : Int, deleted : BOOLEAN]]
         /\ \A m \in DOMAIN messages' :
               messages'[m].stream = Channel => new[messages'[m].seq] = Shown(messages'[m])
  <2>1. ASSUME NEW f, f = LastSequence(Channel)', NEW g, g = ChannelLog'
        PROVE  /\ f \in Nat /\ g \in [1..f -> [rev : Int, deleted : BOOLEAN]]
               /\ \A m \in DOMAIN messages' :
                     messages'[m].stream = Channel => g[messages'[m].seq] = Shown(messages'[m])
    BY <2>1, NewLogShows DEF LogShows
  <2> QED BY <2>1
<1>4. \A i \in 1..last : new[i] = old[i]
  BY <1>1, <1>2, <1>3 DEF Inserts
<1>5. CASE s = Channel
  <2>1. final = last + 1 /\ n = last + 1
    BY <1>1, <1>2, <1>3, <1>5 DEF Inserts, Puts, Ready, LastSequence
  <2>2. new[last + 1] = Log!Fresh /\ Log!Fresh \in [rev : Int, deleted : BOOLEAN]
    <3>1. messages'[r].stream = Channel /\ messages'[r].seq = last + 1
          /\ messages'[r].version = 1 /\ messages'[r].deleted = FALSE /\ r \in DOMAIN messages'
      BY <1>1, <1>5, <2>1 DEF Inserts
    <3>2. Shown(messages'[r]) = Log!Fresh
      <4>1. Shown(messages'[r]) = [rev |-> messages'[r].version - 1, deleted |-> messages'[r].deleted]
        BY DEF Shown
      <4>2. messages'[r].version - 1 = 0
        BY <3>1
      <4> QED BY <3>1, <4>1, <4>2 DEF Log!Fresh
    <3>3. Log!Fresh \in [rev : Int, deleted : BOOLEAN]
      BY DEF Log!Fresh
    <3>4. new[messages'[r].seq] = Shown(messages'[r])
      BY <1>3, <3>1
    <3> QED BY <3>1, <3>2, <3>3, <3>4
  <2>3. new = Append(old, Log!Fresh)
    BY <1>2, <1>3, <1>4, <2>1, <2>2, Appended
  <2> QED BY <1>2, <1>3, <2>3 DEF Log!Grow
<1>6. CASE s # Channel
  <2>1. final = last
    BY <1>1, <1>2, <1>3, <1>6 DEF Inserts, Puts, LastSequence
  <2>2. new = old
    BY <1>2, <1>3, <1>4, <2>1
  <2> QED BY <1>2, <1>3, <2>2
<1> QED
  BY <1>5, <1>6

\* An edit or a deletion of a message of the channel changes its entry of the
\* log, which is not deleted; that of a message of a thread changes none.
LEMMA ChangeChangesTheLog ==
    ASSUME StoreInv, StoreInv', NEW r \in Requests, Change(r)
    PROVE  (\E i \in DOMAIN ChannelLog : Log!Change(i)) \/ UNCHANGED ChannelLog
<1>1. PICK m : Updates(r, m)
  BY ChangeUpdates
<1>2. PICK last, old : /\ last = LastSequence(Channel) /\ old = ChannelLog
                       /\ last \in Nat /\ old \in [1..last -> [rev : Int, deleted : BOOLEAN]]
                       /\ \A i \in 1..last : \E x \in DOMAIN messages :
                             /\ messages[x].stream = Channel /\ messages[x].seq = i
                             /\ old[i] = Shown(messages[x])
                       /\ \A x \in DOMAIN messages : messages[x].stream = Channel =>
                             messages[x].seq \in 1..last /\ old[messages[x].seq] = Shown(messages[x])
  BY ChannelLogShows
<1>3. PICK new :
         /\ new = ChannelLog' /\ new \in [1..last -> [rev : Int, deleted : BOOLEAN]]
         /\ \A x \in DOMAIN messages' :
               messages'[x].stream = Channel => new[messages'[x].seq] = Shown(messages'[x])
  <2>1. LastSequence(Channel)' = last
    BY <1>1, <1>2 DEF Updates, LastSequence
  <2>2. ASSUME NEW g, g = ChannelLog'
        PROVE  /\ g \in [1..last -> [rev : Int, deleted : BOOLEAN]]
               /\ \A x \in DOMAIN messages' :
                     messages'[x].stream = Channel => g[messages'[x].seq] = Shown(messages'[x])
    BY <2>1, <2>2, NewLogShows DEF LogShows
  <2> QED BY <2>2
<1>4. DOMAIN messages' = DOMAIN messages /\ m \in DOMAIN messages
      /\ \A x \in DOMAIN messages : /\ messages'[x].stream = messages[x].stream
                                    /\ messages'[x].seq = messages[x].seq
                                    /\ x # m => messages'[x] = messages[x]
  BY <1>1 DEF Updates
<1>5. \A i \in 1..last : (messages[m].stream = Channel => i # messages[m].seq) => new[i] = old[i]
  BY <1>2, <1>3, <1>4
<1>6. CASE messages[m].stream # Channel
  <2>1. new = old
    BY <1>2, <1>3, <1>5, <1>6
  <2> QED BY <1>2, <1>3, <2>1
<1>7. CASE messages[m].stream = Channel
  <2>1. PICK i \in 1..last : i = messages[m].seq
    BY <1>2, <1>4, <1>7
  <2>2. old[i] = Shown(messages[m]) /\ new[i] = Shown(messages'[m])
    BY <1>2, <1>3, <1>4, <1>7, <2>1
  <2>3. PICK row : row = messages'[m] /\ row.version = messages[m].version + 1
                   /\ row.deleted \in BOOLEAN /\ ~messages[m].deleted
                   /\ messages[m].version \in Nat
    BY <1>1 DEF Updates, Message, StoreInv, TypeOK
  <2>4. ~old[i].deleted /\ new[i] = [rev |-> old[i].rev + 1, deleted |-> row.deleted]
    BY <2>2, <2>3 DEF Shown
  <2>5. new = [old EXCEPT ![i] = [rev |-> @.rev + 1, deleted |-> row.deleted]]
    BY <1>2, <1>3, <1>5, <2>1, <2>4
  <2>6. Log!Change(i)
    BY <1>2, <1>3, <2>3, <2>4, <2>5 DEF Log!Change
  <2> QED BY <1>2, <2>6
<1> QED
  BY <1>6, <1>7

LEMMA StepKeepsTheLog == StoreInv /\ [Next]_vars => [Log!Next]_ChannelLog
<1> SUFFICES ASSUME StoreInv, [Next]_vars PROVE Log!Next \/ UNCHANGED ChannelLog
  OBVIOUS
<1>1. StoreInv'
  BY StoreStepKeeps
<1>2. CASE \E r \in Requests : Store(r)
  BY <1>1, <1>2, StoreGrowsTheLog DEF Log!Next
<1>3. CASE \E r \in Requests : Change(r)
  BY <1>1, <1>3, ChangeChangesTheLog DEF Log!Next
<1>4. CASE ~(\E r \in Requests : Store(r) \/ Change(r))
  <2>1. UNCHANGED <<streams, messages>>
    <3>1. CASE UNCHANGED vars
      BY <3>1 DEF vars, tables
    <3>2. CASE Next
      <4>1. PICK r \in Requests : Send(r) \/ Mutate(r) \/ Fail(r)
        BY <3>2 DEF Next
      <4>2. CASE Send(r)
        BY <1>4, <4>2 DEF Send, Lookup, BeginSend, LockKey, Check, LockRoot, EnsureStream,
                          Advance, tables
      <4>3. CASE Mutate(r)
        BY <1>4, <4>3 DEF Mutate, FindTarget, LockRow, tables
      <4>4. CASE Fail(r)
        BY <4>4 DEF Fail, tables
      <4> QED BY <4>1, <4>2, <4>3, <4>4
    <3> QED BY <3>1, <3>2
  <2> QED BY <2>1 DEF ChannelLog, MessageAt, LastSequence
<1> QED
  BY <1>2, <1>3, <1>4

\* The commits append to the channel one message at a time and change one
\* message at a time, never one that is deleted: the store implements the log
\* that the sessions of the clients read.
THEOREM StoreImplementsStreamLog == Spec => ImplementsStreamLog
<1>1. Init => Log!Init
  <2> SUFFICES ASSUME Init PROVE ChannelLog \in Seq([rev : Nat, deleted : BOOLEAN])
    BY DEF Log!Init
  <2>1. LastSequence(Channel) = 0
    BY DEF Init, LastSequence
  <2>2. ChannelLog \in [1..0 -> [rev : Nat, deleted : BOOLEAN]]
    BY <2>1 DEF ChannelLog
  <2> QED BY <2>2, FunctionIsSequence
<1> QED
  BY <1>1, StepKeepsTheLog, StoreInvariantHolds, PTL DEF Spec, ImplementsStreamLog, Log!Spec
=============================================================================
