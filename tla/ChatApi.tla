------------------------------ MODULE ChatApi ------------------------------
(***************************************************************************)
(* The process of the chat API: its routes (app.ts, routes.ts), the pool   *)
(* of database connections that their handlers share, the timeouts, the    *)
(* answers, and the shutdown (main.ts).                                    *)
(*                                                                         *)
(* A request passes the checks of its route one by one, calls its use case *)
(* and is answered.  The tickets and the stream messages have a timeout:   *)
(* it answers the client, and the handler goes on unseen.  What the use    *)
(* cases do to the database is modelled elsewhere (MessageStore,           *)
(* GatewayTickets, StreamReads); here they use a connection once or twice  *)
(* and change something or not.  All the sends have one idempotency key,   *)
(* the consumptions are of one ticket, the edits and deletions of one      *)
(* message.                                                                *)
(***************************************************************************)
EXTENDS Naturals, FiniteSets, Sequences

CONSTANTS
    Requests,       \* identities; each names one request
    RouteNames,     \* the routes that are asked for
    MaxConnections  \* the size of the pool

ASSUME PoolAssumption == MaxConnections \in Nat \ {0}

VARIABLES
    handler,  \* for each request, its handler
    wire,     \* the connection that brought it
    server    \* the process

vars == <<handler, wire, server>>

-----------------------------------------------------------------------------
(* Checks.  Each throws an error for some flaws of a request: an           *)
(* HTTPException of Hono, or an AppHttpError.                              *)

HttpException(code) == [kind |-> "HTTPException", code |-> code]
AppHttpError(code) == [kind |-> "AppHttpError", code |-> code]

NoErrors == [flaw \in {} |-> HttpException("none")]

\* The middleware before the handlers.
BearerAuth ==
    [wrongToken      |-> HttpException("unauthenticated"),
     malformedHeader |-> HttpException("bad_request")]
RequestId == [badRequestId |-> HttpException("bad_request")]

\* Who asks.
AuthenticateActor == [noActor |-> AppHttpError("unauthenticated")]
AuthenticateGateway ==
    [noGateway    |-> AppHttpError("unauthenticated"),
     otherGateway |-> AppHttpError("forbidden")]
GetAssertedActor == [noAssertedActor |-> AppHttpError("unauthenticated")]

\* What is asked.
OptionalBody == [badBody |-> AppHttpError("bad_request")]
TicketBody == [badBody |-> AppHttpError("bad_request")]
SendBody == [badBody |-> AppHttpError("bad_request")]
EditBody == [badBody |-> AppHttpError("bad_request")]
DeleteBody == [badBody |-> AppHttpError("bad_request")]
AllowedParameters == [badParameter |-> HttpException("bad_request")]
LatestTarget == [badTarget |-> HttpException("bad_request")]
OlderCursor == [badCursor |-> HttpException("bad_request")]
SyncBody == [badBody |-> HttpException("bad_request")]

Errors ==
    [timeout |-> NoErrors, bearer |-> BearerAuth, requestId |-> RequestId,
     actor |-> AuthenticateActor, gateway |-> AuthenticateGateway,
     assertedActor |-> GetAssertedActor, optionalBody |-> OptionalBody,
     ticketBody |-> TicketBody, sendBody |-> SendBody,
     editBody |-> EditBody, deleteBody |-> DeleteBody,
     parameters |-> AllowedParameters, latestTarget |-> LatestTarget,
     olderCursor |-> OlderCursor, syncBody |-> SyncBody]

-----------------------------------------------------------------------------
(* Routes: their checks in order, and how they use the database.           *)

Once == {<<"write">>}
LookupFirst == {<<"read", "write">>}
\* A thread is looked up before it is read.
Reading == {<<"read">>, <<"read", "read">>}

IssueTicket == [checks |-> <<"timeout", "actor", "optionalBody">>, works |-> Once]
ConsumeTicket == [checks |-> <<"bearer", "gateway", "ticketBody">>, works |-> Once]
SendMessage ==
    [checks |-> <<"bearer", "gateway", "assertedActor", "sendBody">>, works |-> LookupFirst]
EditMessage ==
    [checks |-> <<"bearer", "gateway", "assertedActor", "editBody">>, works |-> LookupFirst]
DeleteMessage ==
    [checks |-> <<"bearer", "gateway", "assertedActor", "deleteBody">>, works |-> LookupFirst]
LoadLatest ==
    [checks |-> <<"requestId", "timeout", "parameters", "actor", "latestTarget">>,
     works |-> Reading]
LoadOlder ==
    [checks |-> <<"requestId", "timeout", "parameters", "actor", "olderCursor">>,
     works |-> Reading]
SyncAfter ==
    [checks |-> <<"bearer", "requestId", "timeout", "gateway", "assertedActor", "syncBody">>,
     works |-> Reading]

Routes ==
    [issue |-> IssueTicket, consume |-> ConsumeTicket, send |-> SendMessage,
     edit |-> EditMessage, delete |-> DeleteMessage,
     latest |-> LoadLatest, older |-> LoadOlder, sync |-> SyncAfter]

ASSUME RoutesAssumption == RouteNames \subseteq DOMAIN Routes

StreamRoutes == {"latest", "older", "sync"}

-----------------------------------------------------------------------------
(* Answers.                                                                *)

Refusals == {"bad_request", "unauthenticated", "forbidden", "rejected"}
Answers == {"none", "ok", "unavailable"} \cup Refusals

\* What an error is answered with.  The handlers of the stream messages turn
\* everything but an HTTPException into a retryable 503.
AnswerTo(route, error) ==
    IF route \in StreamRoutes /\ error.kind = "AppHttpError" THEN "unavailable"
    ELSE error.code

\* Faulty: a failure passes for a refusal of the domain.
FailureRejects(outcome) == IF outcome = "accepted" THEN "ok" ELSE "rejected"

\* What a use case is answered with: 200 or 201, a rejection (200 for the
\* commands, 404 or 409 for the reads), or 503.
ResponseTo(outcome) ==
    CASE outcome = "accepted" -> "ok"
      [] outcome = "rejected" -> "rejected"
      [] outcome = "threw" -> "unavailable"

-----------------------------------------------------------------------------
Update(r, h) == handler' = [handler EXCEPT ![r] = h]

\* The handler is over: what remains of it is what it did and what it answered.
Ended(h) ==
    [h EXCEPT !.stage = "over", !.work = <<>>, !.at = 1,
              !.outcome = "none", !.timer = IF @ = "on" THEN "off" ELSE @]

\* The handler ends.  Its answer is dropped if the request has been answered,
\* or if nobody waits for it any more.
Reply(r, h, answer) ==
    /\ Update(r, [Ended(h) EXCEPT !.answer = IF wire[r] = "open" THEN answer ELSE @])
    /\ wire' = [wire EXCEPT ![r] = IF @ = "open" THEN "idle" ELSE @]

\* A request that is over and has changed nothing makes room for another one.
IsUnused(r) ==
    \/ handler[r].stage = "none"
    \/ handler[r].stage = "over" /\ ~handler[r].changed

\* A connection is made, and nothing has come by it yet.
Accept(r) ==
    /\ server = "up"
    /\ IsUnused(r) /\ wire[r] \in {"none", "closed"}
    /\ wire' = [wire EXCEPT ![r] = "new"]
    /\ UNCHANGED <<handler, server>>

NoHandler ==
    [stage |-> "none", route |-> "none", work |-> <<>>, at |-> 1,
     timer |-> "off", connected |-> FALSE, outcome |-> "none", changed |-> FALSE,
     failed |-> "no", answer |-> "none"]

\* A request comes, by a connection that has brought none yet or by one that was
\* kept alive: a server that is closing refuses neither.
Arrive(r, route, work) ==
    /\ IsUnused(r)
    /\ \E q \in Requests :
          /\ wire[q] \in {"new", "idle"}
          /\ q = r \/ wire[r] \in {"none", "closed"}
          /\ wire' = [wire EXCEPT ![q] = "closed", ![r] = "open"]
    /\ Update(r, [NoHandler EXCEPT !.stage = "checking", !.route = route, !.work = work])
    /\ UNCHANGED server

\* The next check throws, for one flaw or another, or passes.  After the last
\* the use case is called.
Check(r) ==
    LET h == handler[r]
        checks == Routes[h.route].checks
        check == checks[h.at]
    IN  /\ h.stage = "checking"
        /\ \/ \E flaw \in DOMAIN Errors[check] :
                 Reply(r, h, AnswerTo(h.route, Errors[check][flaw]))
           \/ /\ Update(r, [h EXCEPT
                    !.stage = IF h.at = Len(checks) THEN "connecting" ELSE @,
                    !.at = IF h.at = Len(checks) THEN 1 ELSE @ + 1,
                    !.timer = IF check = "timeout" THEN "on" ELSE @])
              /\ UNCHANGED wire
        /\ UNCHANGED server

\* The timeout answers; nothing stops the handler.
Expire(r) ==
    /\ handler[r].timer = "on"
    /\ wire[r] = "open"
    /\ Update(r, [handler[r] EXCEPT !.timer = "fired", !.answer = "unavailable"])
    /\ wire' = [wire EXCEPT ![r] = "idle"]
    /\ UNCHANGED server

-----------------------------------------------------------------------------
(* The database.                                                           *)

IsConnectionFree == Cardinality({r \in Requests : handler[r].connected}) < MaxConnections

Connect(r) ==
    /\ handler[r].stage = "connecting"
    /\ server \in {"up", "closing"}
    /\ IsConnectionFree
    /\ Update(r, [handler[r] EXCEPT !.stage = "working", !.connected = TRUE])
    /\ UNCHANGED <<wire, server>>

\* No connection within connectionTimeoutMillis, or the pool has been closed.
CannotConnect(r) ==
    /\ handler[r].stage = "connecting"
    /\ Update(r, [handler[r] EXCEPT
            !.stage = "settled", !.outcome = "threw",
            !.failed = IF server \in {"up", "closing"} THEN "database" ELSE "closed"])
    /\ UNCHANGED <<wire, server>>

\* Some request of the route has changed what they all would change.
Done(route) == \E q \in Requests : handler[q].route = route /\ handler[q].changed

\* How a unit of work may settle a use case: the outcome, and whether the
\* request has changed something.
Settlements(h) ==
    LET unit == h.work[h.at]
    IN  CASE unit = "read" /\ h.at = Len(h.work) -> {<<"accepted", FALSE>>, <<"rejected", FALSE>>}
          [] unit = "read" /\ h.route = "send" /\ Done("send") ->
                {<<"accepted", FALSE>>, <<"rejected", FALSE>>}
          [] unit = "read" /\ h.at < Len(h.work) -> {<<"rejected", FALSE>>}
          [] unit = "write" ->
                CASE h.route = "issue" -> {<<"accepted", TRUE>>}
                  [] h.route \in {"send", "delete"} /\ Done(h.route) ->
                        {<<"accepted", FALSE>>, <<"rejected", FALSE>>}
                  [] h.route = "consume" /\ Done("consume") -> {<<"rejected", FALSE>>}
                  [] h.route = "edit" /\ Done("delete") -> {<<"rejected", FALSE>>}
                  [] OTHER -> {<<"accepted", TRUE>>, <<"rejected", FALSE>>}

Work(r) ==
    LET h == handler[r]
    IN  /\ h.stage = "working"
        /\ \/ \E s \in Settlements(h) :
                 Update(r, [h EXCEPT !.stage = "settled", !.connected = FALSE,
                                     !.outcome = s[1], !.changed = s[2]])
           \/ /\ h.at < Len(h.work)
              /\ Update(r, [h EXCEPT !.stage = "connecting", !.connected = FALSE, !.at = @ + 1])
        /\ UNCHANGED <<wire, server>>

\* A text or a blank ticket is refused before the database is asked.
RejectAtOnce(r) ==
    /\ handler[r].stage = "connecting"
    /\ handler[r].at = 1
    /\ handler[r].route \in {"send", "edit", "consume"}
    /\ Update(r, [handler[r] EXCEPT !.stage = "settled", !.outcome = "rejected"])
    /\ UNCHANGED <<wire, server>>

\* Faulty: a connection that failed is not given back.
FailAndKeep(r) ==
    /\ handler[r].stage = "working"
    /\ Update(r, [handler[r] EXCEPT !.stage = "settled", !.outcome = "threw",
                                    !.failed = "database"])
    /\ UNCHANGED <<wire, server>>

\* The database fails, before or after what the request changes is committed.
Fail(r) ==
    /\ handler[r].stage = "working"
    /\ \E s \in Settlements(handler[r]) \cup {<<"threw", FALSE>>} :
          Update(r, [handler[r] EXCEPT !.stage = "settled", !.connected = FALSE,
                                       !.outcome = "threw", !.changed = s[2],
                                       !.failed = "database"])
    /\ UNCHANGED <<wire, server>>

Respond(r) ==
    /\ handler[r].stage = "settled"
    /\ Reply(r, handler[r], ResponseTo(handler[r].outcome))
    /\ UNCHANGED server

-----------------------------------------------------------------------------
(* Connections and shutdown.                                               *)

\* The client gives up, or leaves without a request: nothing tells the handler.
Abandon(r) ==
    /\ wire[r] \in {"new", "open"}
    /\ wire' = [wire EXCEPT ![r] = "closed"]
    /\ UNCHANGED <<handler, server>>

CloseIdle(r) ==
    /\ wire[r] = "idle"
    /\ wire' = [wire EXCEPT ![r] = "closed"]
    /\ UNCHANGED <<handler, server>>

\* A signal; the idle connections are closed at once, and those that have
\* brought nothing yet are not idle.
Shutdown ==
    /\ server = "up"
    /\ server' = "closing"
    /\ wire' = [r \in Requests |-> IF wire[r] = "idle" THEN "closed" ELSE wire[r]]
    /\ UNCHANGED handler

\* The callback of server.close, once every connection has been closed, closes
\* the database: whoever wants a connection now gets none.
CloseDatabase ==
    /\ server = "closing"
    /\ \A r \in Requests : wire[r] \in {"none", "closed"}
    /\ server' = "closed"
    /\ UNCHANGED <<handler, wire>>

\* The pool waits for the connections that are in use; the process ends.
Exit ==
    /\ server = "closed"
    /\ \A r \in Requests : ~handler[r].connected
    /\ server' = "ended"
    /\ UNCHANGED <<handler, wire>>

-----------------------------------------------------------------------------
Init ==
    /\ handler = [r \in Requests |-> NoHandler]
    /\ wire = [r \in Requests |-> "none"]
    /\ server = "up"

Step(r) ==
    \/ Accept(r)
    \/ \E route \in RouteNames : \E work \in Routes[route].works : Arrive(r, route, work)
    \/ Check(r) \/ Expire(r)
    \/ Connect(r) \/ CannotConnect(r) \/ RejectAtOnce(r) \/ Work(r) \/ Fail(r) \/ Respond(r)
    \/ Abandon(r) \/ CloseIdle(r)

Next == (\E r \in Requests : Step(r)) \/ Shutdown \/ CloseDatabase \/ Exit

Spec == Init /\ [][Next]_vars

\* Bodies arrive, timers fire, an idle connection is not kept for ever; the
\* database may hang.
FairSpec ==
    /\ Spec
    /\ \A r \in Requests :
          WF_vars(Check(r)) /\ WF_vars(Expire(r)) /\ WF_vars(Connect(r) \/ CannotConnect(r))
            /\ WF_vars(Respond(r)) /\ WF_vars(CloseIdle(r))
    /\ WF_vars(CloseDatabase) /\ WF_vars(Exit)

-----------------------------------------------------------------------------
(* Properties.                                                             *)

IsHandler(h) ==
    /\ h.stage \in {"none", "checking", "connecting", "working", "settled", "over"}
    /\ h.route \in {"none"} \cup RouteNames
    /\ h.timer \in {"off", "on", "fired"}
    /\ h.connected => h.stage = "working"
    /\ h.outcome \in {"none", "accepted", "rejected", "threw"}
    /\ h.failed \in {"no", "database", "closed"}
    /\ h.answer \in Answers

\* Every variable has its type; the pool is not exceeded, and a handler holds
\* a connection only while it works with it.
TypeOK ==
    /\ \A r \in Requests : IsHandler(handler[r])
    /\ Cardinality({r \in Requests : handler[r].connected}) <= MaxConnections
    /\ wire \in [Requests -> {"none", "new", "open", "idle", "closed"}]
    /\ server \in {"up", "closing", "closed", "ended"}

\* An answer is final: a handler that outlives the timeout of its request
\* cannot change what the client was told, until the request is over and makes
\* room for another one.
OneAnswer ==
    [][\A r \in Requests : handler[r].answer # "none" =>
          \/ handler'[r].answer = handler[r].answer
          \/ handler[r].stage = "over" /\ handler'[r].stage = "checking"]_vars

\* What is answered is true, then and later: after a refusal the request has
\* changed nothing and never will, after a success the change is there, made
\* by the request or by one that it repeats.  Only a 503 leaves it open.
AnswersTellTheTruth ==
    \A r \in Requests :
        LET h == handler[r]
        IN  /\ h.answer \in Refusals => ~h.changed
            /\ h.answer = "ok" /\ h.route \in {"issue", "consume", "edit"} => h.changed
            /\ h.answer = "ok" /\ h.route \in {"send", "delete"} => Done(h.route)

IsFailure(h) == h.failed # "no" \/ h.timer = "fired"

\* For tickets and commands, 503 is the answer to failures and to nothing else:
\* the caller repeats what failed, and does not repeat what was refused.
FailuresAreTold ==
    \A r \in Requests :
        LET h == handler[r]
        IN  h.answer # "none" /\ h.route \notin StreamRoutes =>
                (h.answer = "unavailable" <=> IsFailure(h))

\* The shutdown fails nobody: a request that meets the closed database is one
\* that has been answered, or given up, before.
ShutdownFailsNobody ==
    \A r \in Requests :
        LET h == handler[r]
        IN  h.failed = "closed" /\ h.answer = "unavailable" => h.timer = "fired"

\* What a client is told agrees with what was done, with what failed and with
\* who shut down, at every await of the handlers.
AnswersAreSound ==
    TypeOK /\ AnswersTellTheTruth /\ FailuresAreTold /\ ShutdownFailsNobody

\* A request with a timeout is answered, or given up, though the database
\* hangs and the pool is empty.
TimedAreAnswered ==
    \A r \in Requests :
        (handler[r].route \in StreamRoutes \cup {"issue"} /\ wire[r] = "open")
            ~> wire[r] # "open"

\* The database does not hang: a statement ends, well or badly.
DatabaseAnswers == \A r \in Requests : []<>(handler[r].stage # "working")

\* Unless the database hangs, every handler ends, the abandoned ones too.
HandlersEnd ==
    DatabaseAnswers =>
        \A r \in Requests : handler[r].stage # "none" ~> handler[r].stage = "over"

\* The clients let the server go: from some time on no request comes (each would
\* be checked), and no connection stays that has brought nothing.
ClientsCease ==
    \A r \in Requests : <>[](handler[r].stage # "checking" /\ wire[r] # "new")

\* The process ends by itself after the signal, unless the database hangs or the
\* clients hold it: server.close() waits for every connection, and one that was
\* kept alive may bring requests without end.
ShutdownCompletes ==
    DatabaseAnswers /\ ClientsCease => (server = "closing" ~> server = "ended")

\* Every request gets one answer, in time where it has a timeout, and leaves
\* nothing behind that would keep the process from ending: only clients can.
RequestsEnd == OneAnswer /\ TimedAreAnswered /\ HandlersEnd /\ ShutdownCompletes

=============================================================================
