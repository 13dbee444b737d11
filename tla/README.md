# A verification of wake-surfer's realtime chat

wake-surfer is a chat application: a browser client, a WebSocket gateway, an
HTTP API, and a Postgres database. The program's own core is the message
stream: every channel, direct conversation and thread is a stream of messages
with consecutive sequences, and every client keeps a timeline that follows it
over connections that drop. This directory models that core and the processes
around it in TLA+, checks the models with TLC, and proves their safety properties
with TLAPS for any number of messages, requests, sockets and clients.

Paths below are relative to the repository.

## 1. Inventory

| Component | State it keeps | Operations | Talks to |
| --- | --- | --- | --- |
| Stream messages client (`packages/realtime-chat-stream-messages-client`) | timeline (records, visible list, buffer, accepted messages, delivery and history cursors), recovery phase and watermark, stored cursor, active bootstrap, queue of connection generations, local messages, connection state and attempts | start, retry, bootstrap, load older, live / accepted / edited / deleted message, send, retry, discard, connect, disconnect, sync request, dispose | gateway over one WebSocket, API over HTTP, key-value storage |
| Gateway process (`apps/realtime-chat-gateway`) | sessions by id and by socket, their joined channels, authentication state, the commands being relayed, shutdown | upgrade, ticket handshake, join, relay of send / edit / delete, fan-out, close, shutdown | API over HTTP, clients over sockets, relay by listeners |
| Gateway relay (`packages/realtime-chat-stream-messages-gateway`) | in-flight sync request per session and target | sync, abort on session close, unregister | API over HTTP, gateway runtime |
| Message send (`packages/realtime-chat-message-send`) | receipts by sender and idempotency key, streams, messages | send (receipt lookup, target, authorisation, transaction) | database |
| Message mutation (`packages/realtime-chat-message-mutation`) | version, text, edited and deleted stamps | edit, delete | database |
| Stream reads (`packages/realtime-chat-stream-messages`) | none (a snapshot per request) | latest, older, sync after | database |
| Chat API (`apps/realtime-chat-api`) | handlers under way, pool of connections, token buckets in Redis | routes with their checks, timeouts, page policy, rate limits, shutdown | the use cases above |
| Gateway tickets (`packages/realtime-chat-gateway-ticket`) | tickets: hash, gateway, expiry, consumption | issue, consume | database |
| Database (`packages/realtime-chat-database`) | tables with their constraints | migrations | - |
| Contracts (`*-contracts`) | none | schemas and parsers | - |
| Login (`packages/oauth`, `apps/auth-api`) | state cookie, user rows | start, callback, tokens | GitHub |
| Media gateway and voice (`apps/realtime-media-gateway`, `apps/web/src/features/voice`) | rooms and participants, voice call phase | token, connect, leave | WebRTC peers |
| Web application (`apps/web`) | view state | rendering | client packages |

What makes it hard is that the client learns of one stream over four channels
that do not wait for each other: pages of history over HTTP, pages of a
recovery through the gateway, live messages fanned out by the gateway after
the commit, and the answers to its own sends, edits and deletions. The gateway
handles the frames of one socket concurrently, so none of these are ordered
among themselves. Connections drop at any time, a recovery continues over
several requests and over a reconnection, and the client has more than one
coroutine: the bootstrap, the queue that starts one per connection, the start,
and the request for older history. Every process awaits others in the middle of
its handlers: sockets close while a ticket is consumed, a client gives up while
its handler still holds a database connection, requests for one target meet at
the relay. `PROJECT.json` lists the hazards with their lines and the properties
that cover them; those without a property say why.

What makes each component correct:

- *Timeline*: one contiguous window of the stream in view, nothing lost that
  the server accepted, no older content over newer but by a result.
- *Recovery*: it ends, its requests are valid, and "ready" means that nothing
  is missing.
- *Connection*: always somebody who connects while it says "connecting", no
  socket and no request that outlives its generation, every conversation told of
  each connection that can carry its join.
- *Local messages*: one object per message, shown once from its acceptance on, and
  an answer or a failure for each.
- *Gateway*: a message goes once to whoever has joined; a session belongs to
  one consumed ticket and ends with its socket; no handshake and no command hangs.
- *Relay*: one sync request per session and target, answered once.
- *Send and mutation*: one message per idempotency key, sequences consecutive
  in commit order, a deletion final, versions increasing.
- *Reads*: a page is that of one moment; pages read one after the other leave
  nothing out and come to an end; strangers learn nothing.
- *API*: what is answered is true, 503 leaves it open, and the process ends when
  its clients let it.
- *Tickets*: consumed at most once, by the right gateway, before they expire.
- *Rate limit*: never more than the capacity, and a refusal costs nothing.

## 2. Modules

| Module | What it is |
| --- | --- |
| `Timeline` | the timeline as a record, every public method of `timeline-model.ts` as an operator |
| `StreamSession` | a session of one channel: stream, gateway, connection, recovery, start, history, dispose; properties, refinement mapping, inductive invariant |
| `StreamView` | abstract: a contiguous window that grows at both ends; `StreamSession` implements it |
| `StreamLog` | abstract: one stream; `MessageStore` implements it and `StreamSession` assumes it of its server |
| `MessageStore` | the transactions of send, edit and delete over the tables, one statement per step, with their locks |
| `RealtimeSession` | the browser's connection: attempts, tickets, sockets, sync requests, message transports |
| `ChatLink` | abstract: a link that is closed, connecting or ready on ever new generations; `RealtimeSession` implements it |
| `LocalMessages` | messages the user sends: local list, retries, answers, announcements, pages (extends `Timeline`) |
| `GatewayTickets` | issue and consumption of gateway tickets over their table |
| `GatewaySession` | the gateway process, composed with `GatewayTickets` |
| `GatewayRelay` | the relay of sync requests with its table of requests under way |
| `StreamPages` | how pages are built, what their contracts demand, how they are fitted into the envelope |
| `StreamReads` | the three reads statement by statement, and a client that reads page after page |
| `StreamAnswers` | the answer that one state of a stream gives to a question, with the longest page that fits |
| `AtomicReads` | abstract: a read is one look at the stream; `StreamReads` implements it |
| `ChatApi` | the API process: checks of the routes, pool, timeouts, answers, shutdown |
| `RateLimiter` | the token buckets in Redis, in integer arithmetic |
| `MC...` | the module TLC runs for each: symmetry, for `MessageStore` and `GatewaySession` an initial state of interest, and for `StreamSession` what a document says and the code does not keep |
| `Timeline_proofs` | lemmas about the operators of `Timeline` |
| `StreamSession_proofs` | the inductive invariants of the session and its safety theorems; the session implements `StreamView`, what `StreamView` promises, and the stream is a `StreamLog` |
| `RealtimeSession_proofs` | status, attempt, sockets and conversations at every turn of the event loop; the connection implements `ChatLink` |
| `LocalMessages_proofs` | what becomes of a message that is sent here |
| `GatewaySession_proofs` | the tickets, the sessions and the frames of the gateway, each invariant on top of the one before |
| `MessageStore_proofs` | the locks, the tables, the answers, and that the store is a `StreamLog` |
| `StreamReads_proofs` | what fitting a page keeps, the reads and their chains, the reads implement `AtomicReads`; below, the relay: the map of requests under way, and the answers |
| `ChatApi_proofs` | what the API has done when it answers, and that an answer is final; the limits that `RateLimiter` keeps, and that its waits are exact |

How they fit together: `StreamSession` sees the store as a `StreamLog`, which
`MessageStore` implements; its pages are the contiguous parts that
`StreamReads` answers with; its `link` goes through the states that `ChatLink`
allows, of which `RealtimeSession` is the detail; a sync of its recovery is one
step, whose detail is `GatewayRelay`. `GatewaySession` instantiates
`GatewayTickets` for the API it asks. `ChatApi` takes the use cases as "changes
something or not", which the modules of the use cases tell in full.

`StreamReads_proofs` extends `GatewayRelay` beside `StreamReads`, and `ChatApi_proofs`
extends `RateLimiter` beside `ChatApi`; `GatewayRelay` and `RateLimiter` therefore prefix
the names that every module has (`RelayInit`, `RelayNext`, `RelaySpec`, `LimiterInit`,
`LimiterNext`, `LimiterSpec`, ...).

An operator whose comment begins with "Faulty:" is no part of a model: it is a
plausible mistake in the operator below it, and `PROJECT.json` pairs it with the
property that must then fail.

### Timeline

A message is named by its sequence, since the server assigns `messageId` and
sequence together; a content is what the client can compare (`rev` counts the
changes the server committed, `at` is `editedAt`, 0 when absent, `deleted` is
`content === null`). The record's fields are the fields of the class. The order
of the visible list is the order of sequences (`insertOrdered` in the code), so
`visible` is a set. The checks `#assertStream` and `#assertIdentity` cannot
fail with one target and the server's identities; `sync_cursor_mismatch` and
`sync_no_progress` can be asked of a page and are `SyncCursorMismatch` and
`SyncNoProgress`.

### StreamSession

An action is a coroutine step: it runs from one `await` to the next, with
everything the code does synchronously in between, including whatever the
settled promise wakes in the same turn (`Continue`: the recovery queue
bootstraps once more if a generation is pending, and the start returns).

| Code | Model |
| --- | --- |
| `appendTextMessage` | `Commit`: the next sequence; the relay is then in `fanout` |
| `editOwnMessage`, `deleteOwnMessage` and their relay | `Mutate`, with the result in `results` when this connection asked; an edit is stamped with any of `Stamps`, because `edited_at` is the start of a transaction that may have waited for the row |
| `relayMessageSend` | `FanOut(s)`: to this client only if the gateway has handled its join; `FanOutLost(s)`: the API's answer never came |
| `onMessageAccepted`, results | `AckArrives`, `ResultArrives` |
| `ensureStarted`, `retryRecovery`, `#start`, `#runStart` | `Start`, `RetryRecovery`, `AfterStart`; `start` says which await `#runStart` is at |
| `gateway.connected`, closing, attempts exhausted | `Connected`, `Disconnect`, `ConnectFails` on `link` |
| `chat.channel.join` handled by the gateway | `JoinHandled`: `link` goes from `ready` to `joined` |
| `#queueConnectionRecovery`, `#drainConnectionRecoveryQueue` | `drain`: idle, awaiting a run, or awaiting with a generation queued |
| `#runBootstrap`, `#recoverAfterCursor` | `run.pc` is the await (`latest`, `sync`, `delay`, `yield`), `run.after` / `run.limit` the request; `LatestAnswered` ... `Resume` are the steps |
| the HTTP answer on its way | `reply`: the page is read from the stream when it is answered, applied later |
| `loadOlder` | `LoadOlder`, `OlderApplied`, `OlderFails` with `older` as the page on its way |
| `#persistCursor`, the constructor | `stored`; `Reopen` disposes and starts a session from it |

The server's reads are snapshots (`repeatable read` in the code), and the page
policy trims a page to the envelope size, so a page is any nonempty contiguous
part of what its limit allows, at the end its cursor refers to. A failing
request leaves the phases the code can map its error to, as a choice. When the
phase is written both by the start and by the queue, in an order that depends
on how the promises were chained, the model takes either (`PhasesAfter`).

Abstracted: message texts, wire parsing, the exact retry delays, byte counts
(a batch is full or not, `SyncApplied(full)`), the number of attempts before a
connection is given up, local messages that are not accepted yet, and
notifications. Threads do not join and receive no live messages; the model is
of a channel. A started session is taken to have all its listeners; what becomes of one
that was attached half is in `RealtimeSession`.

History variables do not steer anything: `floor` (first sequence of the
window), `acked`, `lost`, `anchored` (the last watermark was read on this
connection after the join), `owed` (the head of the stream at the reconnection).

### MessageStore and StreamLog

A request is one call of the API; a retry is a request with the same key, and
it may run while the first attempt does, or after its answer was lost. A step is
one SQL statement under read committed: it sees what is committed, a row it
locks or updates is read after the lock is granted, and writes take effect when
the transaction ends.

| Code | Model |
| --- | --- |
| `findSendMessageReceipt` before the transaction | `Lookup` |
| `pg_advisory_xact_lock` | `LockKey`; keys whose hashes collide would only wait for each other |
| the receipt once more, under the lock | `Check` |
| root message `FOR UPDATE`, then the thread's stream | `LockRoot`; the second statement adds nothing that another transaction can change while the root is locked |
| `INSERT ... ON CONFLICT DO NOTHING` | `EnsureStream`: waits for a transaction that inserts the same stream |
| `UPDATE message_streams ... last_sequence + 1` | `Advance` |
| inserts of message and receipt, commit | `Store`; they are made under the locks and right before the commit |
| `findEditMessageTarget`, `FOR UPDATE`, `UPDATE` (and those of a deletion) | `FindTarget`, `LockRow`, `Change` |
| `now()` | `began`: the time of BEGIN, from `clock` |
| a failing statement, connection or process | `Fail`, at any statement: nothing is written, the locks are gone |

An answer that is lost after the commit needs no action of its own: the retry
is another request. Requests with one key and one target are taken to have the
same text (`requestFingerprint` covers both; a conflict by target is modelled).

`StreamLog` says what a stream is for a reader: it grows by one message at a
time, a message changes by one revision at a time, and one that is deleted
changes no more. The channel of `MessageStore` is one (`ImplementsStreamLog`),
and so is the `log` of `StreamSession` (`ServerIsStreamLog`): the one-step
commits of the session's model are what the transactions provide.

### RealtimeSession and ChatLink

The browser's event loop is modelled as it is: a *task* (timer, socket event,
answer of a fetch) starts only when no microtask is left (`Quiet`); calls of the
program (`Connect`, `Disconnect`, `Request`) may come in between. The
continuation of a promise that has settled is a microtask of its own (`Finish`,
`Reconnect`): that is where the code is delicate, because `#connectPromise` is
still set while its `finally` has not run.

| Code | Model |
| --- | --- |
| `connect`, `#connectWithRetries`, `#connectOnce` | `Connect`, `StartAttempts`, and `stage`: what is awaited (`ticket`, `socket`, `delay`), or how it ended (`resolved`, `rejected`) until `Finish` |
| ticket request, `gateway.connected`, their failures | `TicketIssued`, `TicketRefused(code)`, `Connected`, `NotConnected(code)`; `Fatal` is the list of codes that end the attempts |
| the `close` listener with `queueMicrotask` | `SocketCloses`, `Reconnect` |
| `requestStreamSync`, its listeners, `#rejectAllPending` | `Request`, `Answer`, `Cancel`, `RejectAll` |
| `BrowserRealtimeEventSocket` | `net`: `live` until closed by either side, `closing` until `onclose` |
| `createBrowserRealtimeChatMessageTransport` | `OpenTransport`, and `transport[t]`: what it was told and whether it joined; `Handle` is `handleCurrentGeneration`, whose join throws (`JoinThrows`) when the WebSocket is closing and its `close` event is still to come |
| `#attachMessageSubscriptions` of a conversation | `Attach(t)`: the generation listener first, which may send the join; if that throws, the others are never registered (`listens = "generation"`) |

`ChatLink` is what the code above sees: status, generation, waiting requests.

### LocalMessages

`local[id]` is the status of a `ManagedChatMessage`, `localOrder` the list of
local messages, `byServerId` which object shows which message of the stream,
`tl` a `Timeline` with the operators of that module. A command to the API
outlives the connection it came from (`live = FALSE`): its message is stored and
announced all the same. An announcement may be lost or go to a connection that
is not joined. The recovery is reduced to a read and its application, since
`StreamSession` has it in full. `unheard` marks messages sent before the session
has attached its listeners (see the hazard at `realtime-chat-session.ts:571`
below): nobody hears their answers. The listeners are taken to be attached together;
`RealtimeSession` has the case in which they are not.

### GatewayTickets and GatewaySession

A call of the ticket module reads the clock, awaits the hash, and runs one
statement; `IssueTicket` / `SaveIssuedTicket` / `IssueFails` and `AskToConsume`
/ `ConsumeIssuedTicket` / `AskFails` are these steps, the failures both before
and after the statement. `row[t].consumedBy` is the set of calls that consumed
the ticket. `GatewaySession` adds the process:

| Code | Model |
| --- | --- |
| the HTTP server and its connections | `Connect(s)`, `ConnectionEnds(s)`: `socket[s]` is `"http"` before its upgrade, for ever if it never asks for one |
| `evaluateUpgrade`, `rejectUpgrade` and the connection listener | `Upgrade`, with every reason for a refusal; a refused socket is `"refused"` until its peer ends its half |
| `authenticateConnection` | `ApiIsAsked`, `Authenticated` or `AuthenticationFails`, then `Greeted` or `GreetingFails` (the `connected` event is sent with the session already in the maps) |
| `removeSession` and its listeners | `RemoveSessions`, `told` |
| `handleSocketMessage` | `TooEarly` (answered `gateway.not_ready`), `BadFrame`, `Join`, `SendMessage`, `Mutate` |
| `relayMessageSend`, `relayMessageEdit`, `relayMessageDelete` | `ApiAnswers` (the API is done), `Relayed` (its answer has come), `RelayFails` (answer lost, or timeout) |
| `close()`, `closeServers` | `Close`, `ForceClose` after the grace period, `ServersClosed` |

A frame of a socket that still consumes its ticket or awaits its greeting is answered
`gateway.not_ready`, which the client has no listener for; a frame that is binary,
malformed or of an unsupported type is one of `FrameFaults`. `MaxEarly` bounds the
frames of a socket that come too early. `socket.end()` of a refused upgrade ends the
gateway's half only: an upgraded socket is no longer a connection that
`closeAllConnections()` knows, nor a client of the WebSocket server, and
`httpServer.close()` waits until its peer ends it too.

### GatewayRelay

`request[r].stage` says what `handleStreamSync` awaits; `inFlight` is the map
and `aborted` the abort controllers that have fired. `limited`, chosen in `Init`,
says whether the relay was given a rate limiter: with one, an await separates the
check for a duplicate from the registration, and what the package promises about
duplicates does not hold (`gateway-relay.ts:175` and `182`). `OnePerTarget`,
`MapIsExact` and `RequestsAnswered` are therefore about the relay without one,
which is how the gateway of the repository registers it; `AnsweredOnce`,
`EntriesAreOwn` and `RunsEnd` hold for both.

### StreamPages, StreamReads, AtomicReads

A read is a `repeatable read` transaction: the target is resolved and the actor
authorised, the head is read (`ReadMetadata` takes the snapshot), the rows are
read from that snapshot (`ReadRows`), and the page is fitted and checked against
its contract (`Respond`). The log grows, is edited and is deleted from, and the
membership changes, between any two of these. A message is its size, 0 for a
tombstone, so that the envelope binds. `chain` is a client that reads page after
page and repeats what failed. `trusted` is a history variable.

`StreamAnswers` defines the answer to a question from one state of the stream, with
its own definition of the longest page that fits: a bound on an interval, where the
page policy drops one message after another. `AtomicReads` allows a reader that
answer, a refusal or a failure; `Settled` maps a read in progress to "decided" from
the moment its snapshot exists.

### ChatApi

Each route is its list of checks in order, each check the errors it throws for
the flaws of a request, and each use case the units of work for which it takes a
connection of the pool. `Expire` is the timeout: it answers the client, and
nothing stops the handler. `Fail` is a database failure before or after the
commit; `RejectAtOnce` is a use case that refuses before it asks the database (a text,
a blank ticket). `wire` is the connection of the client: `new` until it brings a
request, and kept alive (`idle`) after an answer, when it may bring another request
even while the server closes. Requests come without end: the identity of one that is
over and has changed nothing is used again (`IsUnused`), so that the number of
identities bounds the requests at a time and the changes of a run, and not the requests.
`Shutdown`, `CloseDatabase` and `Exit` are `main.ts`: `server.close()` ends the idle
connections, and waits for the others, those that are `new` among them.

Left out are two answers. 500 `internal_error` is for an error that no handler turns
into one of its own (a body whose stream breaks in `readOptionalJsonBody`, when the
client is gone). 429 cannot come from the deployed process, because nothing gives the
routes a rate limiter; `RateLimiter` has its buckets.

All sends have one idempotency key, all consumptions one ticket, all edits and
deletions one message: `Done` says what a second one finds.

### RateLimiter

The Lua script in integers: a bucket holds `units`, `Window` of them per token,
so that `Capacity` tokens flow in per window without fractions. A request takes a
token from each of its buckets or from none (`Taken`), a refused one is told how
long to wait (`Wait`), and Redis drops a bucket nobody used for `Life`. `admitted`
and `promised` are history variables.

## 3. Runs

Each cfg gives the bounds. `CHECK_DEADLOCK` is off where the system may stop: a
session whose budget of messages, drops and errors is used up has nothing left
to do, nor has a store when every request is answered, a process that has ended,
or a clock at its horizon. The connection can always go on, and is checked for
deadlock.

A property of a run is often a conjunction of named parts; each part is defined
right before it with a comment of its own.

| Run | Bounds | Properties, with their parts |
| --- | --- | --- |
| `recovery` | fair; empty stream, 2 messages (1 own, other tabs), pages of 1, 2 drops, 1 error, 1 lost relay | `NoSkippedMessage`, `RequestsAreValid`, `AnchoredReadyMissesNothing`, `WaitersHaveARun`, `ReadyClosesGaps`, `RecoveryEnds` (a bootstrap settles, a queued generation gets its own) |
| `history` | 2 messages before the start, 4 in all (1 own), 1 change by this tab or another, pages of 1, 1 drop, 1 reopening | `IInv` (types, the window, the buffer, older pages, stored cursors, pages and requests on their way), `AcceptedNeverLost`, `ContentNeverRegresses`, `ImplementsStreamView`, `ServerIsStreamLog` |
| `catch_up` | 2 drops, 1 error | violates `ReadyIsCaughtUp` |
| `store` | 3 requests of any kind, 3 keys, any failure, fair | `TablesAreSound` (sequences without a hole, one message per key, edited after created, no exception), `AnswersAgree`, `ThreadsBeginUnderLiveRoots`, `ImplementsStreamLog`, `RequestsEnd` |
| `connection` | a channel, a thread, a sync request, 1 retry, 3 sockets, fair | `ConnectionIsSound` (somebody connects, requests on their generation, no leaked socket), `ConversationsInformed` (told, joined once), `LinkSpec` (`ChatLink`, and closed until connect), `AttemptsEnd` |
| `sessions` | a ticket, 2 gateways, 2 sockets here and 1 elsewhere, lifetime and time 2, symmetric | `TicketsAreSound` (consumed once, as issued), `FirstComerAdmitted`, `SessionsAreSound` (end once, own ticket), `NoSessionOnceClosing` |
| `fanout` | a session in the channel with a command under way and a connection to come, 2 commands with one key, 1 early frame, fair | `WireIsSound` (greeting before all but `not_ready`, announced once, sent by members), `NothingHangs` (authentication, commands, and the shutdown unless a refused peer stays) |
| `relay` | 3 requests of a session, 2 targets, with and without limiter, fair | `RelayIsSound` (one per target, exact map), `RequestsKeepApart` (answered once, own entries), `RequestsEnd` |
| `local_messages` | 2 own messages and 1 of another, 1 retry each, symmetric | `LocalIsSound` (records, one object per message, pending is answered), `ShownOnce` (in the list until accepted, then in one place), `SentIsFinal` |
| `reads` | 3 messages of size 1 or 5 in an envelope of 12, pages of 2, 1 change, 1 failure, fair | `ReadsAreSound` (no integrity error, strangers learn nothing), `ChainsAreSound` (nothing missed, given cursors good), `ReadsAreAtomic`, `ChainsEnd` |
| `api` | 2 requests at a time to 6 routes, pool of 1, fair | `AnswersAreSound` (true, failures told, shutdown fails nobody), `RequestsEnd` (one answer, timed ones in time, handlers end, and the shutdown when the clients cease) |
| `rate_limiter` | 2 actors with 1 token, their address with 2, a syncer with 1, window 3, time 6, symmetric | `BucketsAreSound` (bounded admission), `RetryIsExact` |

Why these bounds are enough:

- *Session*: pages of one message make every recovery take several requests;
  three messages make a hole (one in view, one missing, one buffered), and a
  fourth lets a window start in the middle and grow at both ends. One drop gives
  every interleaving of a reconnection with an active recovery, the second one
  those of a reconnection with a queued one. The error of a request is in `recovery`, and
  a drop fails the requests of `history`. One change of a message, by any tab, is an edit
  or a deletion that a page, an acceptance or a result overtakes; with two edits, whose
  stamps may contradict their order, a run takes too long, and the theorem has them.
  The proofs remove these bounds for everything but the liveness properties.
- *Store*: a message and two requests that race for it (two edits, a retry
  against a deletion, two first messages of its thread, a first message against
  the deletion of the root), or three sends that queue for one stream. A message
  takes part in a race only through its key, its stream and its row, each of
  which two of them can hold.
- *Connection*: three sockets are a connection, its loss, and a loss during the
  reconnection; with one retry a series of attempts both retries and gives up.
- *Gateway*: a ticket is raced for by two sockets here and one elsewhere, within
  and after its lifetime; tickets do not touch each other. Two commands with one
  key are a repeated one. The first one, a message to the channel, is on its way
  when the run begins; the theorems have every order of commands. A second frame that comes
  too early is answered as the first one is.
- *Relay*: three requests are one under way, a duplicate, and one that comes
  after the first was removed. Sessions meet only in the key of the map, so one
  is enough; two exceed the time of a run.
- *Reads*: three messages with a page limit of two cut by the limit, three of
  size 5 by the envelope; the chain then needs a second page. `LatestCount` 2
  leaves a stream that is longer than its latest page.
- *API*: with a pool of one, one handler that outlives its timeout keeps another
  waiting. `older` and `sync` have the shape of `latest` (`Routes`) and are left
  out of the run, not of the model.
- *Rate limiter*: two windows; a key expires after two windows of rest.

`ContentNeverRegresses` is about every step but the arrival of a result, and about
stamps: a deleted message stays deleted, and an edit gives way only to one that is stamped
no earlier. A result is applied whatever is known, so that nothing of the kind holds of it
(`timeline-model.ts:203` below). Nor does anything of the kind hold of the *order of
changes*: a text that came with the answer to a repeated send has no stamp, and an older page
replaces it (`timeline-model.ts:240` below); and of two edits the later one may have the earlier stamp.

### Fairness

Nothing is assumed of users, of messages to come, of drops or of failures: they
may all happen, or none. What is assumed, and why the code justifies it:

- `FairSpec` of `StreamSession`: a request is answered and its page applied
  (every request has a timeout), timers fire, the gateway handles the join frame
  of an open socket, and an attempt ends in a connection unless it is given up.
- `ChannelSpec` of `MCMessageStore`: the database runs the next statement and
  grants a lock that stays free. Weak fairness is enough because every request
  takes a lock only finitely often. (`ChannelInit` makes one request send to the
  channel; without it no message is ever stored.)
- `FairSpec` of `RealtimeSession`: microtasks run, timers end, a closing socket
  closes, and the issuer answers or its timer ends.
- `JoinedSpec` of `MCGatewaySession`: a request to the API is answered or its
  timer ends, a send calls back, a terminated socket closes, and the timer of the
  shutdown ends. The initial state has one session that came with a ticket and
  joined, and whose message is on its way; the run is of what follows. Nothing is assumed of the peers: one that
  stays behind a refused upgrade keeps the process, and `ShutdownEnds` says so in its
  hypothesis.
- `RelayFairSpec` of `GatewayRelay`: the limiter answers, an API request ends by its
  answer, its timeout or its abort, and a send calls back.
- `FairSpec` of `StreamReads`: the database answers a read or fails it, and the
  client goes on reading.
- `FairSpec` of `ChatApi`: bodies arrive, timers fire, a connection of the pool is
  had or its timeout ends, an idle client connection is not kept for ever. The
  database may hang: `HandlersEnd` and `ShutdownCompletes` are conditioned on
  `DatabaseAnswers`, `TimedAreAnswered` is not. Nothing is assumed of the clients;
  `ShutdownCompletes` is conditioned on `ClientsCease` (from some time on no request comes
  and no connection stays that has brought none), because a gateway that goes on sending
  on a kept-alive connection holds the callback of `server.close()` for ever.

## 4. Where code and documents disagree

`catch_up` shows one disagreement: the watermark of an interrupted recovery
survives in the timeline's session, and the recovery of the next connection takes
it for the head of the stream. One drop or error between two pages is enough for
a session to say "ready" with messages of the outage unread, against FS-SYNC-001
of `specs/realtime-chat-ui/07-failure-scenarios.md:101`.

Others were met while modelling. The models contain what the code does, except where a
line says otherwise, and no property claims what it contradicts:

- `realtime-chat-session.ts:573`: `#attachMessageSubscriptions` sets its flag and
  registers the generation listener, which sends the join at once; on a socket that is
  closing while the status is still "ready" the join throws (`JoinThrows`,
  `Attach`), and the listeners after it are never registered. The conversation joins the
  next connection and recovers, and hears no live message, no answer and no result, where
  BH-SUB-001 (`specs/realtime-chat-ui/03-behavior-catalog.md:160`) has the new messages of
  a joined channel on the screen.
- `timeline-model.ts:240`: line 239 says that a page keeps a newer edit that came while it
  was being read. An edit is known by its `editedAt`, and the answer to a repeated send
  carries the present text without one (`send-message.kysely.ts:302`): a page is read,
  another tab edits, the send is repeated, its answer brings the edited text, and the page,
  applied last, brings back the text before the edit.
- `timeline-model.ts:144`: a live message that continues the cursor during a sync
  request turns the recovery into `protocol_failure`, where FS-MSG-008 has it
  merged.
- `browser-message-transport.ts:70`: the join is not acknowledged, so the first
  page may be read before the gateway handles it, and a message relayed in between
  is not seen (BH-MSG-004; `AnchoredReadyMissesNothing` is what holds).
- `timeline-model.ts:203`: `replaceKnown` takes whatever result comes last, so a
  late edit result brings a deleted message back, although line 239 keeps the
  newer content elsewhere.
- `edit-message.kysely.ts:96`: `edited_at` is the start of the transaction, so the
  edit that commits second, and whose text the store keeps, may carry the earlier
  stamp (`Stamps`); the client compares stamps.
- `app.ts:573` of the gateway: a refused upgrade is only half closed, so that its peer can
  keep the process beyond the grace period of the shutdown (`ShutdownEnds`).
- `authenticated-realtime-session.ts:255`: attempts that are exhausted close the
  session, where the diagram of `specs/realtime-chat-ui/04-glossary-and-state-machines.md:376`
  leaves `CONNECTING` for `CLOSED` only on refused authentication, protocol failure or
  disconnect.
- `gateway-relay.ts:175` and `182`: with a rate limiter two requests of one target
  may run at once, where line 10 of the package's README says that duplicates are handled.
- `page-policy.ts:166`: a message that alone exceeds the envelope makes every read
  that reaches it a retryable failure.
- `routes.ts:660`: the refusals 401 and 403 of the stream routes become a retryable
  503, where line 55 of the API's README reserves it for failures of the database, of
  integrity and of dependencies.
- `specs/realtime-chat-ui/03-behavior-catalog.md:252` allows the gateway to fan out
  a repeated send again; the code never does.

Notes of less weight: a message sent before the session has started has no
listener and stays pending until the next disconnection; a kept-alive connection
may bring requests to an API that is closing, without end, and one that has brought none
is not closed, so that both hold its shutdown (`ClientsCease`); the commands have no
timeout, so a database that hangs blocks the shutdown; neither `app.ts` nor
`create-runtime-deps.ts` gives the stream routes a rate limiter.

## 5. Proofs

Every theorem is about the specification of its component with any values of the
constants: any number of messages, requests, sockets, tickets, sessions or
gateways. The assumptions, which TLC evaluates in the runs, are:

- `LimitsAssumption`, `BoundsAssumption` (`StreamSession`): page limits are positive,
  the bounds are natural numbers, otherwise arbitrary.
- `NamesAssumption` (`MessageStore`): the names of the channel and of "no key" are
  not those of a request or of a key.
- `SelfAssumption`, `PolicyAssumption`, `TimeAssumption`, `BlankIsNoTicket`,
  `ElsewhereAssumption` (`GatewaySession`): the process is one of the gateways, a
  ticket lives for some time, a blank or forged one is none that is issued, and the
  sockets here are none of those elsewhere.
- `SizesAssumption`, `KindsAssumption` (`RealtimeSession`): bounds are natural numbers,
  and no conversation is a channel and a thread.
- `BoundsAssumption`, `KeysAssumption` (`LocalMessages`): bounds are natural numbers, and
  the marks for "another user's message" and "shown from the server" are none of the
  identities of the user's messages.
- `PoolAssumption`, `RoutesAssumption` (`ChatApi`): the pool has a connection, and the
  routes that are asked for are routes.
- `LimitsAssumption` (`RateLimiter`): the limits, the window and the bound of the run are
  positive.
- `BoundsAssumption`, `LargestLimitAssumption` (`StreamReads`): sizes and page limits are
  positive, the bounds are natural numbers, and one page limit is the largest
  (`MAX_STREAM_MESSAGES_PAGE_LIMIT` of
  `packages/realtime-chat-stream-messages-contracts/src/common.ts:13`), which is what a client asks for after
  the latest page.

One hypothesis is no assumption of a model. `EveryMessageFits` says that a message alone
never fills the envelope of a page; `ReadsAnswerSoundly` and `ReadsAreOneLook` state it
(`ASSUME EveryMessageFits PROVE ...`), and `MCStreamReads` asserts it of the instance
that TLC checks. A text has at most 8,192 UTF-8 bytes (`index.ts:12` of
`packages/realtime-chat-message-contracts/src`) and an envelope 49,152 (`common.ts:15`), so it holds unless a
text consists almost only of control characters, each of which JSON writes with six
bytes; then the read fails, as section 4 says of `page-policy.ts:166`. Types, chains and
strangers need no such hypothesis.

### The session of the client

`InvariantHolds` proves `Spec => []IInv`. The properties are not inductive by
themselves; `IInv` adds what the parts must agree on:

- `PagesFit`: a page on its way is contiguous and starts where the request says
  (a sync page at `run.after + 1`, an older page ends at `floor - 1`). Without
  it `applySync` could open a hole.
- `RunFits`: the latest query runs only while there is no cursor, and the cursor
  of a pending request is not beyond the timeline's.
- `WindowConnects`: `floor` is at most one past the cursor, and nothing older is
  asked for before the first page.
- `AcceptedAreMarked`: an accepted message that is not in view is in the buffer
  *and* marked in `#acceptedOutsideVisible`; this mark is what keeps
  `#discardBufferedAtOrBeforeCursor` from dropping it.
- `SessionResumes`: the stored cursor lies behind the window, so a session that
  starts from it shows a window that the earlier one had reached.

`Timeline_proofs` states for each operator of `Timeline` what it returns on a
well-typed timeline (the drained run is the maximal one, a discard leaves only
what lies beyond the cursor, and so on); `StreamSession_proofs` has one lemma
per action, and within it one step per conjunct the action can disturb. From
`IInv` follow `TypesHold`, `NothingIsSkipped`, `BufferIsBeyondCursor`,
`AcceptedIsNeverLost`, `HistoryAlwaysMeetsView`, `RequestsAreAlwaysValid` and
`StoredCursorIsAlwaysValid`.

`ContentNeverGetsOlder` proves `Spec => ContentNeverRegresses`, an action property, for
any number of edits, stamps and results in flight. It needs no order of the changes on
their way: whatever content a page or an acceptance brings, `Timeline_proofs` says of each
operator that a record that is known is kept, or reconciled by `#insertHistoryMessage`,
which compares stamps and never undoes a deletion (`KeptIsNewer`, `MergedIsNewer`).

`AnchoredReadyNeverMisses` needs an account of every message between the cursor and
the head of the stream. `Covers(n, ...)` says that each message beyond `n` is in view,
in the buffer, still to be relayed, or lost by the gateway; `Watched` in `AnchorInv`
says that on a connection that was anchored the watermark `through` covers, that the
watermark of a page on its way does, and that the cursor does once the session says
"ready". It holds because an anchor is set by an answer that the server gave after the
join, when everything beyond its watermark is yet to be relayed to this session, and
because every drop takes the anchor away. The step from "the watermark covers" to
"the cursor covers" is the last page of a recovery, and this is what the other
conjuncts are for: a request carries the session's watermark (`RunReads`), a page
without more ends at the watermark (`LastPageEnds`), nothing in view lies beyond the
cursor (`ViewEnds`), there is no watermark before the first page (`HasRead`), and a
ready session has none left. The buffer is why this is delicate: a message that arrived
early counts as covered only if no operator of `Timeline` drops it, which is what the
`...Waits` lemmas of `Timeline_proofs` say of each.

`SessionImplementsStreamView` proves `Spec => View!Spec`: the window is
`floor..tl.cursor`, and each step of the session is one of `Grow`, `Open`,
`Forward`, `Backward`, `Accept`, `Restart` or leaves the view alone.
`WindowStaysInView` proves what `StreamView` itself promises.

`ServerKeepsStreamLog` proves `Spec => ServerIsStreamLog`: commits append one
row, an edit or a deletion changes one, and nothing else touches the log.

`WaitersAlwaysHaveARun` and `ReadyAlwaysClosesGaps` rest on a second inductive
invariant, `WaitInv`: whoever waits has a run, and *a session with a run does not say
"ready"*. The last part is what makes the other two an invariant of the whole: every
step hands the outcome of the coroutine to `Continue`, which either installs a run
that is not ready or wakes everybody (`ContinueWaits`), and no bootstrap is ready at
once (`RequestSyncNotReady`). So a recovery can only become ready in `SyncApplied`,
which looks at the buffer.

### The connection of the browser

`ConnectionInvariantHolds` proves `Spec => []Inv` with

- `StageFits`: which status goes with which await of `#connectWithRetries`, and with the
  microtask of the close listener. While the status is "connecting" there is an attempt
  that awaits something *or* a microtask that will start one; a microtask that finds the
  connection closed finds `explicitlyClosed` too, so it does not reconnect what
  `disconnect()` has closed;
- `SocketFits`: there is a socket exactly while the connection is ready or waits for
  `gateway.connected`, it is newer than every generation before, and no other is live;
- `PendingFits`: who waits for a sync waits on the generation that is ready;
- `TransportsFit`: what a conversation was told fits the status, its join goes with the
  generation it was told of, and who waits for `connect()` finds an attempt. On a
  generation that is ready it was told of it, or it has not attached, or its join has
  thrown: then the socket is closing, and it stays so until the generation is lost.

`ConnectingHasAttempt`, `OneLiveSocket` and the rest are not inductive without them:
status, stage and socket change in different turns, so that each step relies on the
other two. `ConnectionStaysSound`, `ConversationsStayInformed` and
`ConnectionImplementsLink` (`Spec => LinkSpec`: each turn of the event loop is a step of
`ChatLink` or none) follow.

### The messages that are sent here

`LocalInvariantHolds` proves `Spec => []Inv` of `LocalMessages_proofs`. The argument is
that `serverId[id]`, the sequence a message was accepted with, decides everything else:
the status is "sent" exactly when it is there (`StatusFits`), the object that shows that
message of the stream is this one (`ObjectsFit`), and the message is in the local list
while it is not accepted, and from then on exactly while it is not in view at its place
(`OrderFits`). `WireFits` ties an answer to
the row that was stored under the key it answers, which is what makes a retry harmless.
`LocalStaysSound`, `EachIsShownOnce` and the action property `SentStaysFinal` follow.

### The store of the messages

`StoreInvariantHolds` proves `Spec => []StoreInv`. A transaction is a series of
statements, so that the tables alone say too little: between its statements the
transaction relies on what it has read. `StoreInv` adds

- `Exclusive`: no lock is held by two requests;
- `SendFits`, `MutateFits`: at each statement, which locks the request holds, and that
  what it read under them still holds: no receipt and no message of its key while it
  holds the key, a live root while it holds the row of the root, and a sequence one
  past the head of the stream while it holds the row of the stream;
- `AnswerFits`: an accepted send has its row, in the stream it asked for;
- `TablesFit`: sequences without a hole, one message per key, stamps in order.

A step of one request can disturb another only through a row, and then one of the two
does not hold its lock; that is the case split of each lemma. From `StoreInv` follow
`TablesStaySound` (with `NothingThrows`: no constraint is ever violated),
`AnswersStayInAgreement` and `ThreadsAlwaysBeginUnderLiveRoots`.
`StoreImplementsStreamLog` shows that a commit is a step of `StreamLog` and every
other statement leaves the log alone; with `ServerKeepsStreamLog` the session and the
store meet in one abstract stream.

### The gateway

`TicketInvariantHolds` proves `TicketInv`: what the statements of the API and the
calls of all gateways have in common. `RowsFit` ties a row to the issue it came from,
`AsksFit` says that a call carries the hash of a ticket and a time not ahead of the
clock, `WinnersFit` that a row names its consumer exactly when that call was told so.
`TicketsStaySound` and `FirstComerIsAdmitted` follow.

`SessionInvariantHolds` adds `SessionParts`: which states of a socket, of its
authentication and of its session go together (`SessionsFit`), that a session is that
of the actor whose ticket its socket consumed (`AdmissionsFit`), and what is gone once
the process closes (`ClosingFit`). The awaits of the handshake are why all three are needed: the
answer of the API comes to a socket that may be closed, in a process that may be
closing. `SessionsStaySound` and `ClosingStaysClosed` follow.

`FanoutInvariantHolds` adds `WireFits`: what a socket has been sent fits its state
(nothing but `not_ready` before the greeting, no greeting and no announcement twice), a
command was sent by a session in its channel, and a stored message belongs to one command.
`WireStaysSound` follows. The run `fanout` starts from a state that `Init` leads to
(`JoinedInit`: one session has come, joined and sent a message), and the run `store` from some of the states of `Init` (`ChannelInit`);
the theorems are about `Init` and everything that it leads to.

`RelayInvariantHolds` proves `RelayInv`: a request that was not answered is unknown to
the session, and, without a rate limiter, `Exact`: each request under way has its
entry and each entry its request, which is under way in an open session, and only a
request that ran is aborted. With a limiter two requests of one target can pass the
duplicate check, and the map is exact no more (section 4); `RequestsStayApart` holds
either way, because a run removes only the entry that is its own.

### The stream reads

The five theorems rest on the invariant `IInv` of `StreamReads_proofs`, which was first
checked on the instance of the run. A read carries what it has learned from one
statement to the next, and a chain from one page to the next; `IInv` says what either
is still worth when the stream has changed meanwhile:

- `WorldFits`: row `n` of the log has the sequence `n`, and content and deletion agree in
  it. Without it `assertExpectedSequenceWindow` could fail.
- `ReadFits`: at each stage of a read, the snapshot is a log no longer than the present
  one, no cursor lies ahead of *it*, and the rows are exactly the messages of the window;
  an answered page shows the messages `i` to `j`, and its cursors follow from `i` and `j`
  (`IsPage`).
- `TrustFits`: whoever was never a member is not past the authorisation.
- `ChainFits` (`Stands`): the query under way goes on where the chain stands: at its
  first message going back, at its last one, with the watermark of its first page, going
  forwards. Both lie within the stream, which only grows: this is why no later cursor is refused.
- `SoundChain`: what has been taken is one interval of the stream.

`ChainsAreSound` speaks of the pages taken and not of the one on its way, so that it
needs `IsPage` and `Stands` to survive the next `TakePage`. `ReadsTypeCorrect`,
`ChainsDeliverTheStream` and `StrangersAreRefused` follow from `IInv` alone.
`ReadsAnswerSoundly` adds that the page is found and keeps its contract
(`ValidLatest`, `ValidOlder`, `ValidSync`), which needs a message to fit alone.

`ReadsAreOneLook` proves `Spec => Atomic!Spec`: the statement that reads the head
decides, and everything after it stutters. The step that carries it is `Respond`: the
page that is fitted by dropping messages is the page of `StreamAnswers`, whose interval
is the longest that fits. The fold of the page policy is a recursive function over the
lengths of the page, and no induction principle is within the provers' reach here; what
it computes is shown by the *least counterexample*: among the lengths for which a claim
fails there is a least one (every nonempty set of natural numbers has a least member),
and the definition of the function at that length and the claim at the one before
contradict each other.

### The API

`ApiInvariantHolds` proves `Spec => []ApiInv`, for any set of requests (finite or not),
any pool and any of the eight routes. `StageFits` says at which check or unit of work a
handler is, and what a use case that has settled has done: a rejection has changed
nothing, a success has, and a failure leaves it open. `ChecksFit` says that the timer
starts once, by the check that starts it. `AnswerFits` relates what the client was told to
what was done *later*: until a handler is over only its timeout answers, which is why a
timeout may only say "unavailable". `PoolFits` and `WireFits` add that the pool is not
exceeded and that nobody waits for a process that has closed its database. A send or a
deletion that repeats another one has changed nothing itself, so that its success rests on
another request (`Repeats`, `Done`); that is the one conjunct about two handlers.
`AnswersStaySound` follows, and `AnswersAreFinal` proves `Spec => OneAnswer`, the safety
part of `RequestsEnd`.

### The rate limiter

`LimitsHold` and `WaitsAreExact` prove `LimiterSpec => []BucketsAreSound` and
`LimiterSpec => []RetryIsExact` of `RateLimiter`, which `ChatApi_proofs` extends. The
invariant is `LimiterInv`:

- `Stock`: what a bucket holds now, and the tokens it gave since any token it gave, come
  to no more than a full bucket and what has flowed in since that token. A bucket gives
  only what it holds, so that `BoundedAdmission` follows at the next token.
- `Told`: a request that was told to come again at `p` finds all of its buckets able to
  pay at `p` and one of them unable a millisecond before, if they are left alone.
  `RetryIsExact` says this of the time that has come; the buckets fill linearly up to
  their capacity, so that `Told` carries it forward.

`TickFills` is the step both rest on: in a millisecond a bucket gains its capacity's
share or is full, and *a key that Redis drops was full*, because it lives for twice the
time that fills it. With half that time, or when each bucket is charged without the
others, the proof fails (at `TickFills` and `RunCharges`). `WaitIsExact` is about the
rounding: the longest of the quotients, rounded up, is at least 1 and is the first
millisecond at which every bucket can pay.

### Only model-checked

Liveness (`RecoveryEnds`, `RequestsEnd`, `NothingHangs`, `AttemptsEnd`, `ChainsEnd`) is
out of the prover's reach. Every other property of a passing run is stated by a theorem.

## 6. Plan

What is left:

1. The registry that shares one session per target between views, the voice call
   model and the room table of the media gateway, the state cookie of the login.

## 7. Not modelled

- *Login* (`packages/oauth`, `apps/auth-api`): a cookie that is compared once, and a
  redirect; no two actors meet in it.
- *Media gateway and voice*: an in-memory table of rooms and the call model of the
  web application. Places a model should look at: `main.ts:325` to `404` of the media
  gateway awaits `createRouter` between a peer's arrival and its entry in the room,
  so a peer that closes or joins twice meanwhile may stay listed; `leave()` during the
  awaits of a join, and close events of an earlier connection, in `voiceCallModel.ts`.
- *Web application*: rendering; its state is that of the client packages.
- *Deployment*: container files and scripts.
- *Message database*: reactions and read positions have no code that writes them.
- *Contracts*: a frame or a body is valid or has a flaw; the parsing character by
  character has no state. The schemas of stream pages are in `StreamPages`.
- *Client*: the notification scopes of the emitter, and the rooms of the message
  store package.
- *API*: CORS, the health answer, unknown paths, configuration, the 500 of an unexpected
  error.
- Message texts and fingerprints, beyond what the properties tell apart.

## 8. Running

    tlc -workers 2 -config recovery.cfg MCStreamSession
    tlc -workers 2 -config store.cfg MCMessageStore
    tlapm StreamSession_proofs.tla

`PROJECT.json` names the module of each run. A run takes up to three minutes, the
proofs a few minutes.
