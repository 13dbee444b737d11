--------------------------- MODULE GatewaySession ---------------------------
(***************************************************************************)
(* The sessions of one gateway process (apps/realtime-chat-gateway), from  *)
(* the upgrade of a socket to its close, with the API's tickets under it:  *)
(* authentication, joins, the relay of commands and the fan-out of new     *)
(* messages, and the shutdown.  Between two awaits a handler runs alone;   *)
(* the actions below are the stretches between awaits.                     *)
(***************************************************************************)
EXTENDS Naturals, Sequences, FiniteSets

CONSTANTS
    Tickets, Actors, Gateways, Ttl, MaxTime,
    Self,        \* config.gatewayId
    Sockets,     \* sockets this gateway may accept
    Elsewhere,   \* tickets presented to the other gateways
    Channels,
    Calls,       \* commands the clients may send
    Keys,        \* the idempotency keys they may carry
    MaxEarly     \* bound on the frames that come too early, for each socket

ASSUME SelfAssumption == Self \in Gateways
ASSUME PolicyAssumption == Ttl \in Nat \ {0}
ASSUME TimeAssumption == MaxTime \in Nat

VARIABLES
    clock, issue, row, ask,   \* the ticket table and its calls
    socket,      \* each connection: plain HTTP, refused, or its WebSocket's readyState
    auth,        \* what authenticateConnection awaits
    session,     \* the LocalGatewaySession of each socket
    sessions,    \* sessionsById and sessionsBySocket, by their socket
    told,        \* calls of the sessionClosedListeners
    wire,        \* history: the events sent on each socket
    call,        \* the commands being relayed
    stored,      \* the messages the API has stored, by key: their channel
    shutdown     \* isClosing and closePromise

Api == INSTANCE GatewayTickets WITH Asks <- Sockets \cup Elsewhere

\* The generator makes no blank ticket, and a forged one is none of its own.
ASSUME BlankIsNoTicket == Api!Blank \notin Tickets /\ Api!Forged \notin Tickets
ASSUME ElsewhereAssumption == Elsewhere \cap Sockets = {}

api  == <<clock, issue, row, ask>>
vars == <<api, socket, auth, session, sessions, told, wire, call, stored, shutdown>>

NoSession == [state |-> "none"]
NoCall    == [stage |-> "none"]
Thread    == "thread"      \* a target that is not fanned out
Direct    == "dm"          \* a target the gateway refuses
Targets   == Channels \cup {Thread, Direct}
Mutation  == "mutation"    \* an edit or a delete: no target, no fan-out

Connected == [type |-> "gateway.connected"]
Accepted(c) == [type |-> "accepted", call |-> c]
Rejected(c) == [type |-> "rejected", call |-> c]
Created(k)  == [type |-> "chat.message.created", key |-> k]
NotReady    == [type |-> "gateway.not_ready"]

Init ==
    /\ Api!TicketsInit
    /\ socket = [s \in Sockets |-> "absent"]
    /\ auth = [s \in Sockets |-> "none"]
    /\ session = [s \in Sockets |-> NoSession]
    /\ sessions = {}
    /\ told = [s \in Sockets |-> 0]
    /\ wire = [s \in Sockets |-> <<>>]
    /\ call = [c \in Calls |-> NoCall]
    /\ stored = [k \in {} |-> Thread]
    /\ shutdown = "serving"

Present(s) == socket[s] \in {"open", "closing", "terminated"}

IsClosing == shutdown /= "serving"

\* closeIfOpen, on every socket of S.
ClosedIfOpen(S) == [s \in Sockets |->
    IF s \in S /\ socket[s] = "open" THEN "closing" ELSE socket[s]]

\* sendWireEvent writes only to an open socket.
Sent(s, events) == IF socket[s] = "open" THEN wire[s] \o events ELSE wire[s]

\* Faulty: a session is removed though it was removed before.
RemovesAgain(S) ==
    /\ session' = [s \in Sockets |->
         IF s \in S /\ session[s] /= NoSession
         THEN [session[s] EXCEPT !.state = "closed"] ELSE session[s]]
    /\ told' = [s \in Sockets |->
         IF s \in S /\ session[s] /= NoSession THEN told[s] + 1 ELSE told[s]]
    /\ sessions' = sessions \ S

\* removeSession, for the part of S that is still registered.
RemoveSessions(S) ==
    /\ session' = [s \in Sockets |->
         IF s \in S \cap sessions THEN [session[s] EXCEPT !.state = "closed"]
                                  ELSE session[s]]
    /\ told' = [s \in Sockets |->
         IF s \in S \cap sessions THEN told[s] + 1 ELSE told[s]]
    /\ sessions' = sessions \ S

KeepSessions == UNCHANGED <<session, sessions, told>>

-----------------------------------------------------------------------------
(* Upgrade and authentication.                                             *)

\* What evaluateUpgrade can object to in a request.
Requests == {"valid", "bad_url", "other_path", "other_origin"}

UpgradeStatus(request) ==
    CASE IsClosing -> 503
      [] request = "bad_url" -> 400
      [] request = "other_path" -> 404
      [] request = "other_origin" -> 403
      [] OTHER -> 101

\* A connection reaches the HTTP server.
Connect(s) ==
    /\ shutdown = "serving" /\ socket[s] = "absent"
    /\ socket' = [socket EXCEPT ![s] = "http"]
    /\ KeepSessions
    /\ UNCHANGED <<api, auth, wire, call, stored, shutdown>>

\* The connection's upgrade request.  rejectUpgrade ends the gateway's half of
\* the socket only.  extractTicket: a missing or blank ticket closes the socket
\* with 4401.
Upgrade(s, request, hasTicket) ==
    /\ socket[s] = "http"
    /\ IF UpgradeStatus(request) /= 101
       THEN /\ socket' = [socket EXCEPT ![s] = "refused"]
            /\ UNCHANGED auth
       ELSE /\ socket' = [socket EXCEPT ![s] = IF hasTicket THEN "open" ELSE "closing"]
            /\ auth' = [auth EXCEPT ![s] = IF hasTicket THEN "consuming" ELSE "none"]
    /\ KeepSessions
    /\ UNCHANGED <<api, wire, call, stored, shutdown>>

\* A plain connection ends, by its peer or its timeouts; a refused one only when
\* its peer ends its half too.
ConnectionEnds(s) ==
    /\ socket[s] \in {"http", "refused"}
    /\ socket' = [socket EXCEPT ![s] = "closed"]
    /\ KeepSessions
    /\ UNCHANGED <<api, auth, wire, call, stored, shutdown>>

\* consumeGatewayTicket reaches the API: the call may arrive after the gateway
\* gave it up.
ApiIsAsked(s, t) ==
    /\ auth[s] /= "none"
    /\ t /= Api!Blank
    /\ Api!AskToConsume(s, t, Self)
    /\ UNCHANGED <<socket, auth, session, sessions, told, wire, call, stored, shutdown>>

\* Faulty: the session is made without a look at the socket.
AuthenticatedAnyway(s) ==
    /\ auth[s] = "consuming"
    /\ ask[s].stage \in {"consumed", "rejected"}
    /\ IF ask[s].stage = "rejected"
       THEN /\ socket' = ClosedIfOpen({s})
            /\ auth' = [auth EXCEPT ![s] = "over"]
            /\ KeepSessions /\ UNCHANGED wire
       ELSE /\ auth' = [auth EXCEPT ![s] = "greeting"]
            /\ session' = [session EXCEPT ![s] =
                 [state |-> "authenticating", connectedEventSent |-> FALSE,
                  actor |-> row[ask[s].ticket].actor, channels |-> {}]]
            /\ sessions' = sessions \cup {s}
            /\ wire' = [wire EXCEPT ![s] = Sent(s, <<Connected>>)]
            /\ UNCHANGED <<socket, told>>
    /\ UNCHANGED <<api, call, stored, shutdown>>

\* authenticateConnection after its await: a rejected ticket closes the socket,
\* a socket that closed meanwhile gets no session, and the others are greeted.
Authenticated(s) ==
    /\ auth[s] = "consuming"
    /\ ask[s].stage \in {"consumed", "rejected"}
    /\ IF ask[s].stage = "rejected" \/ socket[s] /= "open"
       THEN /\ socket' = IF ask[s].stage = "rejected" THEN ClosedIfOpen({s}) ELSE socket
            /\ auth' = [auth EXCEPT ![s] = "over"]
            /\ KeepSessions /\ UNCHANGED wire
       ELSE /\ auth' = [auth EXCEPT ![s] = "greeting"]
            /\ session' = [session EXCEPT ![s] =
                 [state |-> "authenticating", connectedEventSent |-> FALSE,
                  actor |-> row[ask[s].ticket].actor, channels |-> {}]]
            /\ sessions' = sessions \cup {s}
            /\ wire' = [wire EXCEPT ![s] = Sent(s, <<Connected>>)]
            /\ UNCHANGED <<socket, told>>
    /\ UNCHANGED <<api, call, stored, shutdown>>

\* The call times out, the API answers with an error, or the close of the
\* socket aborts it: 1011.  The ticket may be spent all the same.
AuthenticationFails(s) ==
    /\ auth[s] = "consuming"
    /\ auth' = [auth EXCEPT ![s] = "over"]
    /\ socket' = ClosedIfOpen({s})
    /\ KeepSessions
    /\ UNCHANGED <<api, wire, call, stored, shutdown>>

\* The callback of the connected event's send.  The session object becomes
\* ready even if it was removed from the maps during the await.
Greeted(s) ==
    /\ auth[s] = "greeting"
    /\ auth' = [auth EXCEPT ![s] = "over"]
    /\ session' = [session EXCEPT ![s].state = "ready", ![s].connectedEventSent = TRUE]
    /\ UNCHANGED <<api, socket, sessions, told, wire, call, stored, shutdown>>

GreetingFails(s) ==
    /\ auth[s] = "greeting"
    /\ socket[s] /= "open"
    /\ auth' = [auth EXCEPT ![s] = "over"]
    /\ RemoveSessions({s})
    /\ UNCHANGED <<api, socket, wire, call, stored, shutdown>>

-----------------------------------------------------------------------------
(* Frames of the client.  A closing socket still delivers what it reads.   *)

\* The check of handleSocketMessage.
Ready(s) ==
    /\ s \in sessions
    /\ session[s].state = "ready" /\ session[s].connectedEventSent

Hears(s) == socket[s] \in {"open", "closing"}

\* A frame that parses is answered not_ready as long as the ticket is being
\* consumed or the greeting has not called back.
TooEarly(s) ==
    /\ socket[s] = "open" /\ ~Ready(s)
    /\ Cardinality({i \in DOMAIN wire[s] : wire[s][i] = NotReady}) < MaxEarly
    /\ wire' = [wire EXCEPT ![s] = Sent(s, <<NotReady>>)]
    /\ KeepSessions
    /\ UNCHANGED <<api, socket, auth, call, stored, shutdown>>

\* A binary frame, a frame that does not parse, an unknown type, a bad payload.
FrameFaults == {"binary", "unparsable", "unsupported", "bad_payload"}

\* The last two are found only once the session is ready.
BadFrame(s, fault) ==
    /\ socket[s] = "open"
    /\ fault \in {"unsupported", "bad_payload"} => Ready(s)
    /\ socket' = ClosedIfOpen({s})
    /\ KeepSessions
    /\ UNCHANGED <<api, auth, wire, call, stored, shutdown>>

Join(s, channel) ==
    /\ Hears(s) /\ Ready(s)
    /\ session' = [session EXCEPT ![s].channels = @ \cup {channel}]
    /\ UNCHANGED <<api, socket, auth, sessions, told, wire, call, stored, shutdown>>

Writable(s, target) ==
    /\ target /= Direct
    /\ target \in Channels => target \in session[s].channels

\* relayMessageSend up to its await: a target that may not be written is
\* refused here and never reaches the API.  A refusal that cannot be sent ends
\* in closeIfOpen, which leaves a socket that is not open alone.
SendMessage(s, c, key, target) ==
    /\ Hears(s) /\ Ready(s) /\ call[c] = NoCall
    /\ IF Writable(s, target)
       THEN /\ call' = [call EXCEPT ![c] =
                 [from |-> s, key |-> key, target |-> target, stage |-> "api"]]
            /\ UNCHANGED wire
       ELSE /\ wire' = [wire EXCEPT ![s] = Sent(s, <<Rejected(c)>>)]
            /\ call' = [call EXCEPT ![c] =
                 [from |-> s, key |-> key, target |-> target, stage |-> "over"]]
    /\ KeepSessions
    /\ UNCHANGED <<api, socket, auth, stored, shutdown>>

\* relayMessageEdit and relayMessageDelete: whom they concern is for the API.
Mutate(s, c, key) ==
    /\ Hears(s) /\ Ready(s) /\ call[c] = NoCall
    /\ call' = [call EXCEPT ![c] =
         [from |-> s, key |-> key, target |-> Mutation, stage |-> "api"]]
    /\ KeepSessions
    /\ UNCHANGED <<api, socket, auth, wire, stored, shutdown>>

\* The API takes the command: a send is stored once for its key and answered
\* with the persistence it had; a mutation is accepted or rejected.
ApiAnswers(c) ==
    /\ call[c].stage = "api"
    /\ \/ /\ call' = [call EXCEPT ![c].stage = "rejected"]
          /\ UNCHANGED stored
       \/ /\ call[c].target = Mutation \/ call[c].key \in DOMAIN stored
          /\ call' = [call EXCEPT ![c].stage = "existing"]
          /\ UNCHANGED stored
       \/ /\ call[c].target /= Mutation /\ call[c].key \notin DOMAIN stored
          /\ call' = [call EXCEPT ![c].stage = "created"]
          /\ stored' = [k \in DOMAIN stored \cup {call[c].key} |->
                          IF k = call[c].key THEN call[c].target ELSE stored[k]]
    /\ UNCHANGED <<api, socket, auth, session, sessions, told, wire, shutdown>>

\* Who hears a new message: the sessions ready now that joined its channel.
Audience(channel) == {s \in sessions : Ready(s) /\ channel \in session[s].channels}

\* Faulty: an answer that names a message stored before is fanned out again.
FansOutAgain(c) == call[c].target \in Channels

FansOut(c) == call[c].stage = "created" /\ call[c].target \in Channels

Answered == {"rejected", "existing", "created"}

\* relayMessageSend, relayMessageEdit and relayMessageDelete after their await.
\* The sender hears accepted first; a socket that is not open is passed over.
\* An answer about another target throws, which closes the sender with 1011.
Relayed(c) ==
    LET s == call[c].from
        Target == IF call[c].target = Mutation THEN Mutation ELSE stored[call[c].key]
        Reply == IF call[c].stage = "rejected" THEN <<Rejected(c)>> ELSE <<Accepted(c)>>
        News(r) == IF FansOut(c) /\ r \in Audience(call[c].target)
                   THEN <<Created(call[c].key)>> ELSE <<>>
    IN
    /\ call[c].stage \in Answered
    /\ call' = [call EXCEPT ![c].stage = "over"]
    /\ IF call[c].stage /= "rejected" /\ Target /= call[c].target
       THEN socket' = ClosedIfOpen({s}) /\ UNCHANGED wire
       ELSE /\ wire' = [r \in Sockets |->
                 Sent(r, (IF r = s THEN Reply ELSE <<>>) \o News(r))]
            /\ UNCHANGED socket
    /\ KeepSessions
    /\ UNCHANGED <<api, auth, stored, shutdown>>

\* Faulty: nothing bounds the wait for the API.
RelayNeverTimesOut(c) ==
    /\ call[c].stage \in Answered
    /\ call' = [call EXCEPT ![c].stage = "over"]
    /\ socket' = ClosedIfOpen({call[c].from})
    /\ KeepSessions
    /\ UNCHANGED <<api, auth, wire, stored, shutdown>>

\* The command times out, fails, or is aborted by the shutdown: 1011.  The API
\* may have stored the message, or store it later.
RelayFails(c) ==
    /\ call[c].stage \in {"api"} \cup Answered
    /\ \/ call' = [call EXCEPT ![c].stage = "over"] /\ UNCHANGED stored
       \/ /\ call[c].stage = "api" /\ call[c].target /= Mutation
          /\ call[c].key \notin DOMAIN stored
          /\ call' = [call EXCEPT ![c].stage = "over"]
          /\ stored' = [k \in DOMAIN stored \cup {call[c].key} |->
                          IF k = call[c].key THEN call[c].target ELSE stored[k]]
    /\ socket' = ClosedIfOpen({call[c].from})
    /\ KeepSessions
    /\ UNCHANGED <<api, auth, wire, shutdown>>

-----------------------------------------------------------------------------
(* Close and shutdown.                                                     *)

\* The peer starts a close.
PeerCloses(s) ==
    /\ socket[s] = "open"
    /\ socket' = [socket EXCEPT ![s] = "closing"]
    /\ KeepSessions
    /\ UNCHANGED <<api, auth, wire, call, stored, shutdown>>

\* The close event, after a close handshake, a lost connection or terminate().
Closed(s) ==
    /\ Present(s)
    /\ socket' = [socket EXCEPT ![s] = "closed"]
    /\ RemoveSessions({s})
    /\ UNCHANGED <<api, auth, wire, call, stored, shutdown>>

\* close() and the start of closeServers; a second close() finds closePromise.
\* httpServer.close() ends the plain connections that are idle.
Close ==
    /\ shutdown = "serving"
    /\ shutdown' = "closing"
    /\ \E idle \in SUBSET {s \in Sockets : socket[s] = "http"} :
          socket' = [s \in Sockets |->
              IF s \in idle THEN "closed" ELSE ClosedIfOpen(Sockets)[s]]
    /\ KeepSessions
    /\ UNCHANGED <<api, auth, wire, call, stored>>

\* The grace period is over: terminate() on the clients of the WebSocket server,
\* and closeAllConnections(), which no longer knows a refused socket.
ForceClose ==
    /\ shutdown = "closing"
    /\ shutdown' = "forced"
    /\ socket' = [s \in Sockets |->
          CASE Present(s) -> "terminated"
            [] socket[s] = "http" -> "closed"
            [] OTHER -> socket[s]]
    /\ KeepSessions
    /\ UNCHANGED <<api, auth, wire, call, stored>>

\* Both servers have closed: no client and no connection is left.
ServersClosed ==
    /\ shutdown \in {"closing", "forced"}
    /\ \A s \in Sockets : ~Present(s) /\ socket[s] \notin {"http", "refused"}
    /\ shutdown' = "closed"
    /\ KeepSessions
    /\ UNCHANGED <<api, socket, auth, wire, call, stored>>

\* The tickets' own steps, and the calls of the other gateways.
OtherSteps ==
    /\ \/ Api!TicketsStep
       \/ \E a \in Elsewhere, t \in Tickets, g \in Gateways \ {Self} :
             Api!AskToConsume(a, t, g)
    /\ UNCHANGED <<socket, auth, session, sessions, told, wire, call, stored, shutdown>>

SocketStep(s) ==
    \/ Connect(s) \/ ConnectionEnds(s)
    \/ \E r \in Requests, hasTicket \in BOOLEAN : Upgrade(s, r, hasTicket)
    \/ \E t \in Api!Presented : ApiIsAsked(s, t)
    \/ Authenticated(s) \/ AuthenticationFails(s)
    \/ Greeted(s) \/ GreetingFails(s)
    \/ TooEarly(s)
    \/ \E fault \in FrameFaults : BadFrame(s, fault)
    \/ \E channel \in Channels : Join(s, channel)
    \/ \E c \in Calls, k \in Keys : Mutate(s, c, k)
    \/ \E c \in Calls, k \in Keys, t \in Targets : SendMessage(s, c, k, t)
    \/ PeerCloses(s) \/ Closed(s)

CallStep(c) == ApiAnswers(c) \/ Relayed(c) \/ RelayFails(c)

Next ==
    \/ \E s \in Sockets : SocketStep(s)
    \/ \E c \in Calls : CallStep(c)
    \/ Close \/ ForceClose \/ ServersClosed
    \/ OtherSteps

Spec == Init /\ [][Next]_vars

\* Requests have a timeout, the force-close timer runs, a terminated socket
\* reports its close and a send calls back.  Peers owe nothing.
Fairness ==
    /\ \A s \in Sockets :
         /\ WF_vars(Authenticated(s) \/ AuthenticationFails(s))
         /\ WF_vars(Greeted(s) \/ GreetingFails(s))
         /\ WF_vars(socket[s] = "terminated" /\ Closed(s))
    /\ \A c \in Calls : WF_vars(Relayed(c) \/ RelayFails(c))
    /\ WF_vars(ForceClose) /\ WF_vars(ServersClosed)

FairSpec == Spec /\ Fairness

-----------------------------------------------------------------------------

TypeOK ==
    /\ \A s \in Sockets :
         /\ socket[s] \in {"absent", "http", "refused", "open", "closing", "terminated", "closed"}
         /\ auth[s] \in {"none", "consuming", "greeting", "over"}
         /\ session[s] /= NoSession =>
              /\ session[s].state \in {"authenticating", "ready", "closed"}
              /\ session[s].actor \in Actors
              /\ session[s].channels \subseteq Channels
    /\ sessions \subseteq {s \in Sockets : session[s] /= NoSession}
    /\ DOMAIN stored \subseteq Keys
    /\ shutdown \in {"serving", "closing", "forced", "closed"}

\* Of all the calls that present a ticket, on any gateway and in any order, at
\* most one consumes it, and the row says which; it is a ticket the API issued,
\* for that gateway, and not expired.
TicketsAreSound == Api!TicketsTypeOK /\ Api!ConsumedOnce /\ Api!AdmittedAsIssued

\* A valid ticket that nobody else presented is not refused.
FirstComerAdmitted == Api!FirstComerAdmitted

\* A session is in the maps exactly until its socket closes or its greeting
\* fails, and the listeners that hold work for it (the stream relay) are told
\* of its end once (app.ts removeSession).
SessionEndsOnce ==
    \A s \in Sockets :
        /\ s \in sessions => Present(s)
        /\ told[s] = IF session[s] /= NoSession /\ s \notin sessions THEN 1 ELSE 0

\* Whoever has a session was admitted by the API with a ticket issued to his
\* actor for this gateway, and no other socket, here or on another gateway, was
\* admitted with it.
SessionFromOwnTicket ==
    \A s \in Sockets : session[s] /= NoSession =>
        LET t == ask[s].ticket IN
        /\ issue[t].stage = "issued"
        /\ issue[t].gateway = Self
        /\ issue[t].actor = session[s].actor
        /\ row[t].consumedBy = {s}

\* Sessions come from tickets of their own and end with their sockets, whatever
\* comes while the API is asked and the greeting is sent.
SessionsAreSound == TypeOK /\ SessionEndsOnce /\ SessionFromOwnTicket

\* The connected event is sent once on a socket, and before every event but
\* not_ready: the client adopts its connection generation from it, and drops
\* what comes earlier.
ConnectedFirst ==
    \A s \in Sockets : \A i \in DOMAIN wire[s] : wire[s][i] /= NotReady =>
        ((\E j \in 1..(i - 1) : wire[s][j] = Connected) <=> wire[s][i] /= Connected)

\* Each socket hears of a new message at most once, only if its session joined
\* the channel, and only of a message that is stored, however often the command
\* is repeated.
LiveOnce ==
    \A s \in Sockets : \A i \in DOMAIN wire[s], k \in Keys :
        wire[s][i] = Created(k) =>
            /\ \A j \in DOMAIN wire[s] : wire[s][j] = Created(k) => i = j
            /\ k \in DOMAIN stored
            /\ stored[k] \in session[s].channels

\* A message of a channel comes from a session that had joined the channel.
StoredByMembers ==
    \A k \in DOMAIN stored : stored[k] \in Channels =>
        \E s \in Sockets : session[s] /= NoSession /\ stored[k] \in session[s].channels

\* What is sent and stored is in order: the greeting before the answers, each message announced
\* once to those who joined, and sent by one who had.
WireIsSound == ConnectedFirst /\ LiveOnce /\ StoredByMembers

\* A process that is closing takes no new session, whatever authentication was
\* under way, and when close() has returned no session is left.
NoSessionOnceClosing ==
    [][/\ IsClosing => sessions' \subseteq sessions
       /\ shutdown' = "closed" => sessions' = {}]_vars

\* Every accepted socket becomes a ready session or stops being open: no
\* authentication hangs.
AuthenticationEnds ==
    \A s \in Sockets : auth[s] \in {"consuming", "greeting"} ~>
                         (Ready(s) \/ socket[s] /= "open")

\* Every relayed command comes to an end.
CallsEnd == \A c \in Calls : call[c].stage = "api" ~> call[c].stage = "over"

\* A shutdown ends, unless the peer of a refused upgrade keeps its half of the
\* socket: that socket is neither a client to terminate nor a connection to
\* close, and httpServer.close() waits for it.
ShutdownEnds ==
    (\A s \in Sockets : []<>(socket[s] /= "refused")) => (IsClosing ~> shutdown = "closed")

\* Neither the API nor a peer that does not answer keeps a handshake or a command
\* waiting for ever, and only a refused peer can keep a shutdown.
NothingHangs == AuthenticationEnds /\ CallsEnd /\ ShutdownEnds
=============================================================================
