---------------------------- MODULE LocalMessages ----------------------------
(***************************************************************************)
(* The messages a user sends from one chat target, as the browser shows    *)
(* them (RealtimeChatTargetSession and ManagedChatMessage in               *)
(* realtime-chat-session.ts over browser-message-transport.ts): a local    *)
(* message is shown at once, fails, is sent again under its idempotency    *)
(* key or discarded, and becomes one with the message the server stored.   *)
(*                                                                         *)
(* The API answers a command with the sequence it stored for the key, or   *)
(* with a rejection, or fails; the gateway tells the sender and announces  *)
(* the message to whoever listens.  Commands overlap, answers arrive in    *)
(* any order, and a lost connection takes the answers under way with it    *)
(* but not the commands.  StreamSession has the recovery in full; here a   *)
(* read brings what the log held when it was made, a first read its end    *)
(* only.  A message is named by its sequence, and the object of a message  *)
(* that shows itself through another one (aliasTo) is not kept apart from  *)
(* that one.                                                               *)
(***************************************************************************)
EXTENDS Timeline, Sequences

CONSTANTS
    Ids,          \* the idempotency keys of the messages sent here
    Others,       \* messages of other members, at most
    Window,       \* messages of a latest page
    Retries       \* bound: transmissions of one message after the first

ASSUME BoundsAssumption ==
    Others \in Nat /\ Retries \in Nat /\ Window \in Nat \ {0}

VARIABLES
    log,          \* the stream: the key of every message, or Other
    commands,     \* sends that the API has not finished
    up,           \* the connection is ready
    wire,         \* events on their way to this client
    attached,     \* the session listens to the events
    disposed,
    tl,           \* the timeline
    page,         \* a read of the log on its way, or NoPage
    local,        \* status of every local message
    serverId,     \* the sequence a local message was accepted with, or None
    discarded,    \* local messages that were discarded
    localOrder,   \* local messages listed after the visible ones
    byServerId,   \* the object of every server message that has one
    retries,      \* transmissions of a message so far
    unheard       \* history: sent while the session did not listen

clientVars == <<tl, local, serverId, discarded, localOrder, byServerId>>
vars == <<log, commands, up, wire, attached, disposed, tl, page, local,
          serverId, discarded, localOrder, byServerId, retries, unheard>>

None == 0
Other == "other"
FromServer == "from server"

\* A key is neither of the two marks.
ASSUME KeysAssumption == {Other, FromServer} \cap Ids = {}

NoPage == [after |-> -2, through |-> 0]

Command == [id : Ids, live : BOOLEAN]
Event == [kind : {"accepted"}, id : Ids, seq : Nat]
    \cup [kind : {"rejected"}, id : Ids]
    \cup [kind : {"created"}, seq : Nat]

\* The key is one the session has used: the keys of #byIdempotencyKey.
Sent == {id \in Ids : local[id] # "none"}

TypeOK ==
    /\ log \in Seq(Ids \cup {Other})
    /\ commands \subseteq Command /\ wire \subseteq Event
    /\ up \in BOOLEAN /\ attached \in BOOLEAN /\ disposed \in BOOLEAN
    /\ IsTimeline(tl, DOMAIN log)
    /\ page.after \in DOMAIN log \cup {0, Null, NoPage.after}
    /\ page.through \in DOMAIN log \cup {0}
    /\ local \in [Ids -> {"none", "pending", "failed", "sent"}]
    /\ serverId \in [Ids -> DOMAIN log \cup {None}]
    /\ discarded \cup localOrder \cup unheard \subseteq Sent
    /\ DOMAIN byServerId \subseteq DOMAIN log
    /\ \A n \in DOMAIN byServerId : byServerId[n] \in Sent \cup {FromServer}
    /\ retries \in [Ids -> 0..Retries]

Init ==
    /\ log = <<>> /\ commands = {} /\ wire = {} /\ page = NoPage
    /\ up = FALSE /\ attached = FALSE /\ disposed = FALSE
    /\ tl = EmptyTimeline
    /\ local = [id \in Ids |-> "none"] /\ serverId = [id \in Ids |-> None]
    /\ discarded = {} /\ localOrder = {} /\ unheard = {}
    /\ byServerId = [n \in {} |-> FromServer]
    /\ retries = [id \in Ids |-> 0]

-----------------------------------------------------------------------------
(***************************************************************************)
(* #refreshKeys: every visible message gets an object, and a local message *)
(* leaves the local list once it is among the visible ones.                *)
(***************************************************************************)
Objects(t, by) ==
    [n \in DOMAIN by \cup t.visible |->
        IF n \in DOMAIN by THEN by[n] ELSE FromServer]

\* Faulty: an accepted message leaves the local list at once.
LeavesWhenAccepted(order, t, by) ==
    order \ {by[n] : n \in DOMAIN by}

StillLocal(order, t, by) == order \ {by[n] : n \in t.visible}

\* The end of every step of the session: the timeline, the objects of the
\* server messages and the local list are t, by and order, refreshed.
Refresh(t, by, order) ==
    LET objects == Objects(t, by)
    IN  /\ tl' = t
        /\ byServerId' = objects
        /\ localOrder' = StillLocal(order, t, objects)

-----------------------------------------------------------------------------
(***************************************************************************)
(* Sending                                                                 *)
(***************************************************************************)

\* Faulty: an accepted message that is still in the local list fails too.
FailsAnyway(status, ids) ==
    [id \in Ids |-> IF id \in ids THEN "failed" ELSE status[id]]

\* fail() of every message of ids: only a pending one changes.
Fail(status, ids) ==
    [id \in Ids |->
        IF id \in ids /\ status[id] = "pending" THEN "failed" ELSE status[id]]

\* The transport takes the message when the connection is ready and throws
\* otherwise.
Transmit(id, status) ==
    IF up
    THEN /\ commands' = commands \cup {[id |-> id, live |-> TRUE]}
         /\ local' = status
    ELSE /\ local' = Fail(status, {id})
         /\ UNCHANGED commands

SendMessage(id) ==
    /\ ~disposed /\ local[id] = "none"
    /\ Refresh(tl, byServerId, localOrder \cup {id})
    /\ Transmit(id, [local EXCEPT ![id] = "pending"])
    /\ unheard' = IF attached THEN unheard ELSE unheard \cup {id}
    /\ UNCHANGED <<log, up, wire, attached, disposed, page, serverId,
                   discarded, retries>>

CanRetry(id) == ~disposed /\ id \notin discarded /\ local[id] = "failed"

Retry(id) ==
    /\ CanRetry(id) /\ id \in localOrder /\ retries[id] < Retries
    /\ retries' = [retries EXCEPT ![id] = @ + 1]
    /\ Transmit(id, [local EXCEPT ![id] = "pending"])
    /\ unheard' = IF attached THEN unheard \ {id} ELSE unheard \cup {id}
    /\ UNCHANGED <<log, up, wire, attached, disposed, page, tl, serverId,
                   discarded, localOrder, byServerId>>

Discarded(id) ==
    /\ CanRetry(id)
    /\ discarded' = discarded \cup {id}
    /\ Refresh(tl, byServerId, localOrder \ {id})
    /\ UNCHANGED <<log, commands, up, wire, attached, disposed, page, local,
                   serverId, retries, unheard>>

-----------------------------------------------------------------------------
(***************************************************************************)
(* The API and the connection                                              *)
(***************************************************************************)

\* The sequence the API has stored for a key.
Existing(id) == {n \in DOMAIN log : log[n] = id}

Accepted(id, n) == [kind |-> "accepted", id |-> id, seq |-> n]
Created(n) == [kind |-> "created", seq |-> n]
Rejected(id) == [kind |-> "rejected", id |-> id]

\* An answer reaches the connection the command came from, if it still is.
Told(c, event) == IF c.live THEN {event} ELSE {}

\* A new message is stored and announced, on this connection or not.
ApiStores(c) ==
    LET n == Len(log) + 1
    IN  /\ c \in commands /\ Existing(c.id) = {}
        /\ log' = Append(log, c.id)
        /\ \E announced \in {{}} \cup (IF up THEN {{Created(n)}} ELSE {}) :
              wire' = wire \cup Told(c, Accepted(c.id, n)) \cup announced
        /\ commands' = commands \ {c}
        /\ UNCHANGED <<up, attached, disposed, page, clientVars, retries, unheard>>

\* A key that is known is answered with the message stored for it.
ApiFinds(c) ==
    /\ c \in commands /\ commands' = commands \ {c}
    /\ \E n \in Existing(c.id) : wire' = wire \cup Told(c, Accepted(c.id, n))
    /\ UNCHANGED <<log, up, attached, disposed, page, clientVars, retries, unheard>>

ApiRejects(c) ==
    /\ c \in commands /\ commands' = commands \ {c}
    /\ wire' = wire \cup Told(c, Rejected(c.id))
    /\ UNCHANGED <<log, up, attached, disposed, page, clientVars, retries, unheard>>

OtherSends ==
    /\ Cardinality({n \in DOMAIN log : log[n] = Other}) < Others
    /\ log' = Append(log, Other)
    /\ \E announced \in {{}} \cup (IF up THEN {{Created(Len(log'))}} ELSE {}) :
          wire' = wire \cup announced
    /\ UNCHANGED <<commands, up, attached, disposed, page, clientVars, retries, unheard>>

Connect ==
    /\ ~up /\ up' = TRUE
    /\ UNCHANGED <<log, commands, wire, attached, disposed, page, clientVars,
                   retries, unheard>>

\* Faulty: the messages that wait for an answer go on waiting.
KeepsWaiting(status) == status

\* onDisconnected: every message of the local list fails.
AfterDisconnect(status) == Fail(status, localOrder)

Lost(cs) == {[c EXCEPT !.live = FALSE] : c \in cs}

\* The end of a connection: what it still carried is gone.
Disconnect(cs) ==
    /\ up' = FALSE /\ wire' = {} /\ commands' = Lost(cs)
    /\ local' = IF attached /\ ~disposed THEN AfterDisconnect(local) ELSE local
    /\ UNCHANGED <<log, attached, disposed, page, tl, serverId, discarded,
                   localOrder, byServerId, retries, unheard>>

Drop == up /\ Disconnect(commands)

\* A command whose request fails ends the connection it came from.
ApiFails(c) ==
    /\ c \in commands
    /\ IF c.live
       THEN Disconnect(commands \ {c})
       ELSE /\ commands' = commands \ {c}
            /\ UNCHANGED <<log, up, wire, attached, disposed, page, clientVars,
                           retries, unheard>>

-----------------------------------------------------------------------------
(***************************************************************************)
(* What arrives                                                            *)
(***************************************************************************)

\* #attachMessageSubscriptions, at the start of the session.
Attach ==
    /\ ~disposed /\ ~attached /\ attached' = TRUE
    /\ UNCHANGED <<log, commands, up, wire, disposed, page, clientVars,
                   retries, unheard>>

Heard == attached /\ ~disposed

\* An event nobody listens to.
Unheeded(e) ==
    /\ e \in wire /\ ~Heard /\ wire' = wire \ {e}
    /\ UNCHANGED <<log, commands, up, attached, disposed, page, clientVars,
                   retries, unheard>>

\* #identityConflict: the key has a message already, and another one.
Conflict(id, n) ==
    \/ local[id] # "none" /\ serverId[id] \notin {None, n}
    \/ n \in DOMAIN byServerId /\ byServerId[n] \notin {FromServer, id}

\* The local message is there, and in #byUiKey.
Listed(id) == local[id] # "none" /\ id \notin discarded

\* The local object takes the place of the one the message came with.
TakesPlace(by, id, n) ==
    [m \in DOMAIN by \cup {n} |-> IF m = n THEN id ELSE by[m]]

\* #accept.
HearAccepted(id, n) ==
    LET t == ApplyAccepted(tl, n, Original)
        joins == Listed(id) /\ serverId[id] # n
    IN  /\ Heard /\ Accepted(id, n) \in wire /\ ~Conflict(id, n)
        /\ wire' = wire \ {Accepted(id, n)}
        /\ serverId' = IF joins THEN [serverId EXCEPT ![id] = n] ELSE serverId
        /\ local' = IF joins THEN [local EXCEPT ![id] = "sent"] ELSE local
        /\ Refresh(t, IF joins THEN TakesPlace(byServerId, id, n) ELSE byServerId,
                   localOrder)
        /\ UNCHANGED <<log, commands, up, attached, disposed, page, discarded,
                       retries, unheard>>

HearRejected(id) ==
    /\ Heard /\ Rejected(id) \in wire
    /\ wire' = wire \ {Rejected(id)}
    /\ local' = Fail(local, {id} \ discarded)
    /\ UNCHANGED <<log, commands, up, attached, disposed, page, tl, serverId,
                   discarded, localOrder, byServerId, retries, unheard>>

HearCreated(n) ==
    /\ Heard /\ Created(n) \in wire
    /\ wire' = wire \ {Created(n)}
    /\ Refresh(ApplyLive(tl, n, Original), byServerId, localOrder)
    /\ UNCHANGED <<log, commands, up, attached, disposed, page, local, serverId,
                   discarded, retries, unheard>>

-----------------------------------------------------------------------------
(***************************************************************************)
(* Recovery, in outline: a read from the cursor (from the end when there   *)
(* is none) and its page, which counts only if the cursor is still there.  *)
(***************************************************************************)
ReadPage ==
    /\ up /\ Heard /\ page = NoPage
    /\ page' = [after |-> tl.cursor, through |-> Len(log)]
    /\ UNCHANGED <<log, commands, up, wire, attached, disposed, clientVars,
                   retries, unheard>>

PageFrom(first, next) ==
    [content |-> [n \in {i \in 1..page.through : i >= first} |-> Original],
     through |-> page.through, next |-> next, more |-> FALSE]

Recovered ==
    IF page.after = Null
    THEN ApplyLatest(tl, PageFrom(page.through - Window + 1, Null))
    ELSE IF SyncCursorMismatch(tl, page.after) THEN tl
    ELSE ApplySync(tl, PageFrom(page.after + 1, page.through))

ApplyPage ==
    /\ Heard /\ page # NoPage /\ page' = NoPage
    /\ Refresh(Recovered, byServerId, localOrder)
    /\ UNCHANGED <<log, commands, up, wire, attached, disposed, local, serverId,
                   discarded, retries, unheard>>

\* dispose: every message that waits fails, and nothing changes any more.
Dispose ==
    /\ ~disposed /\ disposed' = TRUE
    /\ local' = Fail(local, Ids)
    /\ page' = NoPage
    /\ UNCHANGED <<log, commands, up, wire, attached, tl, serverId, discarded,
                   localOrder, byServerId, retries, unheard>>

-----------------------------------------------------------------------------
User(id) == SendMessage(id) \/ Retry(id) \/ Discarded(id)

Api(c) == ApiStores(c) \/ ApiFinds(c) \/ ApiRejects(c) \/ ApiFails(c)

Hear ==
    \/ \E e \in wire : Unheeded(e)
    \/ \E id \in Ids : HearRejected(id) \/ \E n \in DOMAIN log : HearAccepted(id, n)
    \/ \E n \in DOMAIN log : HearCreated(n)

Next ==
    \/ Attach \/ Connect \/ Drop \/ OtherSends \/ Hear
    \/ ReadPage \/ ApplyPage \/ Dispose
    \/ \E id \in Ids : User(id)
    \/ \E c \in commands : Api(c)

Spec == Init /\ [][Next]_vars

-----------------------------------------------------------------------------
(***************************************************************************)
(* Properties                                                              *)
(***************************************************************************)
InList(id) == id \in localOrder
InStream(id) == \E n \in tl.visible : log[n] = id

\* A message the user sent and did not discard stays in the local list until
\* its acceptance is heard: the stream may show it too by then, from an
\* announcement or a page, and does not take it out of the list
\* (07-failure-scenarios.md:74).  From the acceptance on it is on the screen once,
\* in the list or at its place in the stream (#refreshKeys), in whatever order
\* answers, announcements and pages come.
ShownOnce ==
    \A id \in Sent \ discarded :
        IF serverId[id] = None THEN InList(id) ELSE InList(id) # InStream(id)

\* A message on the screen that has a server identity has its record, which
\* `content` and `createdAt` read without a check (`this.#record!`).
ContentReadable ==
    /\ \A n \in DOMAIN byServerId : n \in Known(tl)
    /\ \A id \in Ids : serverId[id] # None => serverId[id] \in Known(tl)

\* A local message that was accepted stands for its own message of the
\* stream, alone: no other object shows it, nor does it show another.
OneObjectPerMessage ==
    \A id \in Ids : serverId[id] # None =>
        /\ log[serverId[id]] = id
        /\ {n \in DOMAIN byServerId : byServerId[n] = id} = {serverId[id]}

\* A message that waits has an answer to come, on the connection it was sent
\* on: nothing stays "sending" (messages sent before the session listens
\* excepted: nobody hears their answers).
PendingIsAnswered ==
    \A id \in Ids \ unheard : local[id] = "pending" =>
        \/ [id |-> id, live |-> TRUE] \in commands
        \/ \E e \in wire : e.kind \in {"accepted", "rejected"} /\ e.id = id

\* The local list, the records and the connection agree on every message of the
\* user, in whatever order answers, announcements, pages and retries come.
LocalIsSound == TypeOK /\ ContentReadable /\ OneObjectPerMessage /\ PendingIsAnswered

\* What was accepted stays accepted, whatever connections and answers come.
SentIsFinal ==
    [][\A id \in Ids : local[id] = "sent" =>
          local'[id] = "sent" /\ serverId'[id] = serverId[id]]_vars

=============================================================================
