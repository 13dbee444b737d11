-------------------------- MODULE RealtimeSession --------------------------
(***************************************************************************)
(* The authenticated realtime session of the browser: one connection per   *)
(* actor (authenticated-realtime-session.ts), on one WebSocket at a time   *)
(* (browser-realtime-event-socket.ts), under the sync requests of          *)
(* browser-transport.ts and the message transports, one per conversation,  *)
(* of browser-message-transport.ts.                                        *)
(*                                                                         *)
(* Time is the browser's event loop.  A task (a timer, a socket event, the *)
(* answer of a fetch) starts only when no microtask is left: Quiet.  Calls *)
(* of the program (connect, disconnect, a request) may come between two    *)
(* microtasks too, because listeners run inside the tasks that notify      *)
(* them.                                                                   *)
(***************************************************************************)
EXTENDS Naturals, FiniteSets

CONSTANTS
    Requests,     \* request identifiers, fresh for every sync request
    Channels,     \* conversations whose transport joins a channel
    Threads,      \* conversations whose transport has no channel to join
    MaxRetries,   \* maxImmediateRetries
    MaxSockets    \* bound: sockets the run may open

ASSUME SizesAssumption == MaxRetries \in Nat /\ MaxSockets \in Nat

ASSUME KindsAssumption == Channels \cap Threads = {}

Transports == Channels \cup Threads

VARIABLES
    state,            \* #state
    explicitlyClosed, \* #explicitlyClosed; the lifecycle signal is aborted
    stage,            \* what #connectWithRetries awaits: its #connectPromise
    attempt,          \* its retry counter
    socket,           \* #socket
    generation,       \* #serverConnectionGeneration, named by its socket
    reconnect,        \* the microtask the close listener queued
    opened,           \* #connectionAttempt: sockets created so far
    net,              \* the WebSocket behind each of them
    result,           \* what each sync request came to
    asked,            \* the socket each request was sent on
    transport,        \* the message transport of each conversation
    last              \* history: the last generation that was ready

connection == <<state, explicitlyClosed, stage, attempt, socket, generation,
                reconnect, opened, net>>
requests   == <<result, asked>>
vars       == <<connection, requests, transport, last>>

Sockets  == 1..MaxSockets
NoSocket == 0

Awaiting == {"ticket", "socket", "delay"}     \* #connectWithRetries is running
Ended    == {"resolved", "rejected"}          \* its finally has not run yet

\* The settled outcomes of a request.
Outcomes == {"answered", "cancelled", "socket_closed", "session_not_ready"}

Pending == {r \in Requests : result[r] = "waiting"}

Quiet == stage \notin Ended /\ ~reconnect

\* A transport instance: what browser-message-transport.ts keeps, which of the
\* listeners of its conversation are registered, whether its connect() waits, and
\* the join frames it sent on the generation it was told.
NoTransport == [open |-> FALSE, listens |-> "none", waits |-> FALSE,
                joined |-> NoSocket, notified |-> NoSocket, gone |-> FALSE,
                frames |-> 0]

TypeOK ==
    /\ state \in {"closed", "connecting", "ready"}
    /\ explicitlyClosed \in BOOLEAN /\ reconnect \in BOOLEAN
    /\ stage \in {"none"} \cup Awaiting \cup Ended
    /\ attempt \in 0..MaxRetries
    /\ opened \in 0..MaxSockets
    /\ socket \in 0..opened /\ generation \in 0..opened /\ last \in 0..opened
    /\ net \in [Sockets -> {"unused", "live", "closing", "closed"}]
    /\ result \in [Requests -> {"unused", "waiting"} \cup Outcomes]
    /\ asked \in [Requests -> 0..opened]
    /\ transport \in [Transports ->
           [open : BOOLEAN, listens : {"none", "generation", "all"},
            waits : BOOLEAN, joined : 0..opened, notified : 0..opened,
            gone : BOOLEAN, frames : Nat]]

Init ==
    /\ state = "closed" /\ explicitlyClosed = FALSE
    /\ stage = "none" /\ attempt = 0
    /\ socket = NoSocket /\ generation = NoSocket
    /\ reconnect = FALSE /\ opened = 0
    /\ net = [s \in Sockets |-> "unused"]
    /\ result = [r \in Requests |-> "unused"]
    /\ asked = [r \in Requests |-> NoSocket]
    /\ transport = [t \in Transports |-> NoTransport]
    /\ last = NoSocket

-----------------------------------------------------------------------------
(***************************************************************************)
(* The message transports.                                                 *)
(***************************************************************************)

\* emit() throws when the WebSocket is no longer open, although its close event
\* may be still to come and the status is still ready.
CanEmit == socket # NoSocket /\ net[socket] = "live"

\* The transport sends its join once per generation.
MustJoin(t, x, gen) == t \in Channels /\ gen # x.joined

\* sendApplicationEvent throws, and handleCurrentGeneration with it.
JoinThrows(t, x, st, gen) ==
    st = "ready" /\ gen # NoSocket /\ MustJoin(t, x, gen) /\ ~CanEmit

\* The join is sent.
Joined(t, x, gen) ==
    IF MustJoin(t, x, gen)
    THEN [x EXCEPT !.joined = gen,
                   !.frames = IF x.notified = gen THEN @ + 1 ELSE 1]
    ELSE x

\* Faulty: disconnectionNotified is never reset.
HandleOnce(t, x, st, gen) ==
    IF st # "ready" \/ gen = NoSocket
    THEN [x EXCEPT !.gone = @ \/ x.notified # NoSocket]
    ELSE IF JoinThrows(t, x, st, gen) THEN x
    ELSE [Joined(t, x, gen) EXCEPT !.notified = gen]

\* handleCurrentGeneration, in state st on generation gen.  A join that throws
\* leaves the transport as it was, neither joined nor notified.
Handle(t, x, st, gen) ==
    IF st # "ready" \/ gen = NoSocket
    THEN [x EXCEPT !.gone = @ \/ x.notified # NoSocket]
    ELSE IF JoinThrows(t, x, st, gen) THEN [x EXCEPT !.gone = FALSE]
    ELSE [Joined(t, x, gen) EXCEPT !.gone = FALSE, !.notified = gen]

\* #setState notifies the transports that subscribe when the state changes.
Notify(st, gen) ==
    transport' = [t \in Transports |->
        IF transport[t].open /\ st # state
        THEN Handle(t, transport[t], st, gen)
        ELSE transport[t]]

-----------------------------------------------------------------------------
(***************************************************************************)
(* Helpers of the connection.                                              *)
(***************************************************************************)

\* connect() of the event socket: it listens to its WebSocket.
Opening(s) == [net EXCEPT ![s] = "live"]

\* Faulty: the socket of a failed attempt is forgotten, not closed.
ClosingForgotten(s) == net

\* close(): the WebSocket starts its closing handshake.
Closing(s) ==
    [n \in Sockets |-> IF n = s /\ net[n] = "live" THEN "closing" ELSE net[n]]

\* #rejectAllPending
RejectAll(code) ==
    [r \in Requests |-> IF r \in Pending THEN code ELSE result[r]]

\* What the ticket issuer throws: the API cannot be reached or answers 5xx, it
\* refuses, its answer cannot be read, or it does not come in time.
IssueFailures ==
    {"stream_messages_unavailable", "ticket_rejected", "protocol_failure", "timeout"}

\* What #waitForConnected rejects with, but for the end of the socket.
ConnectedFailures == {"protocol_failure", "timeout"}

\* No retry cures these.
Fatal(code) == code \in {"ticket_rejected", "protocol_failure"}

\* The catch of #connectWithRetries: close the socket of the attempt, then wait
\* before the next one, or give up when the retries are spent or the failure is
\* fatal.
AttemptFails(code) ==
    /\ socket' = NoSocket
    /\ IF Fatal(code) \/ attempt = MaxRetries
       THEN stage' = "rejected" /\ state' = "closed"
       ELSE stage' = "delay" /\ UNCHANGED state
    /\ Notify(state', generation)

\* connect() when no attempt is under way: #connectWithRetries runs to its
\* first await.
StartAttempts ==
    /\ state' = "connecting" /\ explicitlyClosed' = FALSE
    /\ stage' = "ticket" /\ attempt' = 0

-----------------------------------------------------------------------------
(***************************************************************************)
(* Calls.                                                                  *)
(***************************************************************************)

\* connect() of a transport, which its conversation calls once it has attached:
\* at once when ready, with the attempt under way, or with a new one;
\* handleCurrentGeneration runs once it has resolved, and connect() rejects if
\* the join throws.
Connect(t) ==
    /\ transport[t].listens # "none" /\ ~transport[t].waits
    /\ \/ /\ state = "ready"
          /\ transport' = [transport EXCEPT
                 ![t] = Handle(t, @, state, generation)]
          /\ UNCHANGED connection
       \/ /\ state # "ready" /\ stage # "none"
          /\ transport' = [transport EXCEPT ![t].waits = TRUE]
          /\ UNCHANGED connection
       \/ /\ state # "ready" /\ stage = "none"
          /\ StartAttempts
          /\ transport' = [u \in Transports |->
                 LET x == IF u = t THEN [transport[u] EXCEPT !.waits = TRUE]
                                   ELSE transport[u]
                 IN IF x.open /\ state # "connecting"
                    THEN Handle(u, x, "connecting", generation) ELSE x]
          /\ UNCHANGED <<socket, generation, reconnect, opened, net>>
    /\ UNCHANGED <<requests, last>>

\* A conversation opens: createBrowserRealtimeChatMessageTransport subscribes to
\* the status, and hears of its next change.
OpenTransport(t) ==
    /\ ~transport[t].open
    /\ transport' = [transport EXCEPT ![t] = [NoTransport EXCEPT !.open = TRUE]]
    /\ UNCHANGED <<connection, requests, last>>

\* #attachMessageSubscriptions, once: the generation listener is registered and
\* the current generation handled at once, then come the other listeners.  A
\* join that throws goes through to the caller, and the others are never
\* registered.
Attach(t) ==
    /\ transport[t].open /\ transport[t].listens = "none"
    /\ LET thrown == JoinThrows(t, transport[t], state, generation)
           x == [transport[t] EXCEPT !.listens = IF thrown THEN "generation" ELSE "all"]
       IN  transport' = [transport EXCEPT ![t] = Handle(t, x, state, generation)]
    /\ UNCHANGED <<connection, requests, last>>

\* disconnect() of a transport: the connection stays, and so does its join.
CloseTransport(t) ==
    /\ transport[t].open
    /\ transport' = [transport EXCEPT ![t] = NoTransport]
    /\ UNCHANGED <<connection, requests, last>>

\* disconnect(): abort what #connectWithRetries awaits, close the socket,
\* reject every request.
Disconnect ==
    /\ state # "closed" \/ ~explicitlyClosed
    /\ explicitlyClosed' = TRUE
    /\ state' = "closed"
    /\ socket' = NoSocket /\ generation' = NoSocket
    /\ net' = Closing(socket)
    /\ result' = RejectAll("cancelled")
    /\ stage' = IF stage \in Awaiting THEN "rejected" ELSE stage
    /\ Notify("closed", NoSocket)
    /\ UNCHANGED <<attempt, reconnect, opened, asked, last>>

\* requestStreamSync.
Request(r) ==
    /\ result[r] = "unused"
    /\ \/ /\ state # "ready"
          /\ result' = [result EXCEPT ![r] =
                 IF state = "closed" THEN "socket_closed" ELSE "session_not_ready"]
          /\ UNCHANGED asked
       \/ /\ state = "ready" /\ ~CanEmit
          /\ result' = [result EXCEPT ![r] = "socket_closed"]
          /\ UNCHANGED asked
       \/ /\ state = "ready" /\ CanEmit
          /\ result' = [result EXCEPT ![r] = "waiting"]
          /\ asked' = [asked EXCEPT ![r] = socket]
    /\ UNCHANGED <<connection, transport, last>>

-----------------------------------------------------------------------------
(***************************************************************************)
(* Microtasks.                                                             *)
(***************************************************************************)

\* Faulty: the callers of an attempt that failed are not told.
FinishResolvedOnly ==
    /\ stage \in Ended
    /\ stage' = "none"
    /\ transport' = [t \in Transports |->
           IF transport[t].waits /\ stage = "resolved"
           THEN Handle(t, [transport[t] EXCEPT !.waits = FALSE], state, generation)
           ELSE transport[t]]
    /\ UNCHANGED <<state, explicitlyClosed, attempt, socket, generation,
                   reconnect, opened, net, requests, last>>

\* The finally of connect(), and the callers that waited for the promise.
Finish ==
    /\ stage \in Ended
    /\ stage' = "none"
    /\ transport' = [t \in Transports |->
           LET x == [transport[t] EXCEPT !.waits = FALSE]
           IN IF transport[t].waits /\ stage = "resolved"
              THEN Handle(t, x, state, generation) ELSE x]
    /\ UNCHANGED <<state, explicitlyClosed, attempt, socket, generation,
                   reconnect, opened, net, requests, last>>

\* The microtask of the close listener.
Reconnect ==
    /\ reconnect /\ reconnect' = FALSE
    /\ IF ~explicitlyClosed /\ socket = NoSocket /\ state # "ready" /\ stage = "none"
       THEN StartAttempts /\ Notify("connecting", generation)
       ELSE UNCHANGED <<state, explicitlyClosed, stage, attempt, transport>>
    /\ UNCHANGED <<socket, generation, opened, net, requests, last>>

-----------------------------------------------------------------------------
(***************************************************************************)
(* Tasks.                                                                  *)
(***************************************************************************)

\* The ticket arrives: #connectOnce creates the socket and connects it.
TicketIssued ==
    /\ Quiet /\ stage = "ticket" /\ opened < MaxSockets
    /\ opened' = opened + 1
    /\ socket' = opened'
    /\ net' = Opening(opened')
    /\ stage' = "socket"
    /\ UNCHANGED <<state, explicitlyClosed, attempt, generation, reconnect,
                   requests, transport, last>>

\* #issueTicket throws.
TicketRefused(code) ==
    /\ Quiet /\ stage = "ticket"
    /\ AttemptFails(code)
    /\ UNCHANGED <<explicitlyClosed, attempt, generation, reconnect, opened, net,
                   requests, last>>

\* The backoff is over: the loop goes round.
DelayEnds ==
    /\ Quiet /\ stage = "delay"
    /\ stage' = "ticket" /\ attempt' = attempt + 1
    /\ UNCHANGED <<state, explicitlyClosed, socket, generation, reconnect, opened,
                   net, requests, transport, last>>

\* Faulty: the generation is the number of the attempt.
ConnectedByAttempt ==
    /\ Quiet /\ stage = "socket" /\ CanEmit
    /\ generation' = socket /\ last' = attempt
    /\ state' = "ready" /\ stage' = "resolved"
    /\ Notify("ready", socket)
    /\ UNCHANGED <<explicitlyClosed, attempt, socket, reconnect, opened, net,
                   requests>>

\* gateway.connected arrives, and #connectOnce goes on.
Connected ==
    /\ Quiet /\ stage = "socket" /\ CanEmit
    /\ generation' = socket /\ last' = socket
    /\ state' = "ready" /\ stage' = "resolved"
    /\ Notify("ready", socket)
    /\ UNCHANGED <<explicitlyClosed, attempt, socket, reconnect, opened, net,
                   requests>>

\* gateway.connected is malformed, or does not come in time.
NotConnected(code) ==
    /\ Quiet /\ stage = "socket"
    /\ code = "protocol_failure" => CanEmit
    /\ net' = Closing(socket)
    /\ AttemptFails(code)
    /\ UNCHANGED <<explicitlyClosed, attempt, generation, reconnect, opened,
                   requests, last>>

\* The other end closes, the network fails, or a frame that is not a text frame
\* with a type makes the event socket close: readyState leaves OPEN.
SocketFails(s) ==
    /\ Quiet /\ net[s] = "live"
    /\ net' = [net EXCEPT ![s] = "closing"]
    /\ UNCHANGED <<state, explicitlyClosed, stage, attempt, socket, generation,
                   reconnect, opened, requests, transport, last>>

\* onclose of a socket: the listeners of the current one only. During an attempt
\* the microtask that would reconnect finds its promise.
SocketCloses(s) ==
    /\ Quiet /\ net[s] = "closing"
    /\ net' = [net EXCEPT ![s] = "closed"]
    /\ \/ /\ s # socket
          /\ UNCHANGED <<state, stage, socket, generation, reconnect, result,
                         transport>>
       \/ /\ s = socket /\ stage = "socket"
          /\ generation' = NoSocket
          /\ result' = RejectAll("socket_closed")
          /\ AttemptFails("socket_closed")
          /\ UNCHANGED reconnect
       \/ /\ s = socket /\ stage # "socket"
          /\ socket' = NoSocket /\ generation' = NoSocket
          /\ result' = RejectAll("socket_closed")
          /\ state' = "connecting" /\ reconnect' = TRUE
          /\ Notify("connecting", NoSocket)
          /\ UNCHANGED stage
    /\ UNCHANGED <<explicitlyClosed, attempt, opened, asked, last>>

\* An answer reaches the listeners of the socket it was asked on.
Answer(r) ==
    /\ Quiet /\ asked[r] # NoSocket /\ net[asked[r]] = "live"
    /\ asked' = [asked EXCEPT ![r] = NoSocket]
    /\ result' = IF asked[r] = socket /\ r \in Pending
                 THEN [result EXCEPT ![r] = "answered"]
                 ELSE result
    /\ UNCHANGED <<connection, transport, last>>

\* The caller gives up, or the timer of browser-transport.ts ends.
Cancel(r) ==
    /\ r \in Pending
    /\ result' = [result EXCEPT ![r] = "cancelled"]
    /\ UNCHANGED <<connection, asked, transport, last>>

-----------------------------------------------------------------------------
Call ==
    \/ Disconnect
    \/ \E t \in Transports :
           Connect(t) \/ OpenTransport(t) \/ Attach(t) \/ CloseTransport(t)
    \/ \E r \in Requests : Request(r) \/ Cancel(r)

Microtask == Finish \/ Reconnect

Task ==
    \/ TicketIssued \/ DelayEnds \/ Connected
    \/ \E code \in IssueFailures : TicketRefused(code)
    \/ \E code \in ConnectedFailures : NotConnected(code)
    \/ \E s \in Sockets : SocketFails(s) \/ SocketCloses(s)
    \/ \E r \in Requests : Answer(r)

Next == Call \/ Microtask \/ Task

Spec == Init /\ [][Next]_vars

\* Microtasks run, timers end, a closing socket closes, and the issuer answers
\* or its timer ends.  No program calls and no network behaves.
Fairness ==
    /\ WF_vars(Finish) /\ WF_vars(Reconnect)
    /\ WF_vars(TicketIssued \/ \E code \in IssueFailures : TicketRefused(code))
    /\ WF_vars(Connected \/ \E code \in ConnectedFailures : NotConnected(code))
    /\ WF_vars(DelayEnds)
    /\ \A s \in Sockets : WF_vars(SocketCloses(s))
    /\ \A r \in Requests : WF_vars(Cancel(r))

FairSpec == Spec /\ Fairness

-----------------------------------------------------------------------------
(***************************************************************************)
(* Properties.                                                             *)
(***************************************************************************)

\* The status "connecting" always has something that will end it: an attempt
\* that is under way or the microtask that starts one.
ConnectingHasAttempt ==
    state = "connecting" <=> stage \in Awaiting \/ (reconnect /\ ~explicitlyClosed)

\* What is closed stays closed until the program connects: neither an attempt
\* that disconnect() aborted nor the queued reconnection revives it.
ClosedUntilConnect ==
    [][state = "closed" /\ state' # "closed" => \E t \in Transports : Connect(t)]_vars

\* A request waits only on the generation that is ready, on the socket it was
\* sent on: closing, reconnecting and disconnecting leave none behind.
PendingOnGeneration ==
    \A r \in Pending :
        state = "ready" /\ asked[r] = socket /\ socket = generation

\* Retries, reconnections and disconnects leave no WebSocket open but the one in
\* use.
OneLiveSocket == \A s \in Sockets : net[s] = "live" => s = socket

\* The status, the attempt, the requests and the sockets never disagree, at
\* whatever turn of the event loop a failure or a disconnect comes.
ConnectionIsSound ==
    TypeOK /\ ConnectingHasAttempt /\ PendingOnGeneration /\ OneLiveSocket

\* Every conversation that has attached knows the connection: on the generation
\* that is ready it was told so, and joined its channel, unless it attached when
\* the socket was already closing; otherwise it was told of the loss if it had
\* been told of a connection.
TransportsInformed ==
    \A t \in Transports :
        LET x == transport[t]
        IN x.listens # "none" =>
             IF state = "ready"
             THEN \/ /\ x.notified = generation /\ ~x.gone
                     /\ t \in Channels => x.joined = generation
                  \/ t \in Channels /\ x.notified = NoSocket /\ ~CanEmit
             ELSE x.notified # NoSocket => x.gone

\* Notifications, connect() and late listeners together send one join of a
\* conversation per generation.
JoinsOnce == \A t \in Transports : transport[t].frames <= 1

\* Each conversation is told of each connection that can carry its join and of
\* the loss of each it was told of, and joins its channel once.
ConversationsInformed == TransportsInformed /\ JoinsOnce

\* No run of attempts lasts for ever: the connection becomes ready or is closed.
ConnectingEnds == state = "connecting" ~> state # "connecting"

\* No call waits for ever: a request settles, connect() returns.
CallsReturn ==
    /\ \A r \in Requests : r \in Pending ~> r \notin Pending
    /\ \A t \in Transports : transport[t].waits ~> ~transport[t].waits

\* Whatever fails, the connection settles and answers whoever waits for it.
AttemptsEnd == ConnectingEnds /\ CallsReturn

\* The session as the code above it sees it.
Link == INSTANCE ChatLink WITH
            status <- state, generation <- last, waiting <- Pending

\* The session keeps what ChatLink promises, and opens only by a connect().
LinkSpec == Link!Spec /\ ClosedUntilConnect

=============================================================================
