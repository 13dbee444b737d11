--------------------------- MODULE ChatApi_proofs ---------------------------
(***************************************************************************)
(* What the chat API answers is true: for any number of requests, any size *)
(* of the pool and any of its routes, what a client is told agrees with    *)
(* what its request did, what failed and who shut down, whichever timeouts,*)
(* failures and hang-ups overtake the handlers.  Below, the rate limiter   *)
(* that its stream routes ask (RateLimiter): the limits it keeps, and the  *)
(* waits that it tells.                                                    *)
(***************************************************************************)
EXTENDS ChatApi, RateLimiter, FiniteSetTheorems, TLAPS

Underway == {"checking", "connecting", "working"}

\* A handler has the fields of one.
HandlerTypes(h) ==
    /\ h = [stage |-> h.stage, route |-> h.route, work |-> h.work, at |-> h.at,
            timer |-> h.timer, connected |-> h.connected, outcome |-> h.outcome,
            changed |-> h.changed, failed |-> h.failed, answer |-> h.answer]
    /\ h.stage \in {"none", "settled", "over"} \cup Underway
    /\ h.route \in {"none"} \cup RouteNames
    /\ h.stage = "none" <=> h.route = "none"
    /\ h.timer \in {"off", "on", "fired"}
    /\ h.outcome \in {"none", "accepted", "rejected", "threw"}
    /\ h.failed \in {"no", "database", "closed"}
    /\ h.answer \in Answers

\* One of the checks is next, and the timer is off until a check has started it.
ChecksFit(h) ==
    /\ h.at \in 1..Len(Routes[h.route].checks)
    /\ \A i \in h.at..Len(Routes[h.route].checks) :
          Routes[h.route].checks[i] = "timeout" => h.timer = "off"

\* How far a handler is: which check or unit of work is next, and what a use case
\* that has settled has done.
StageFits(h) ==
    /\ h.stage = "none" => h = NoHandler
    /\ h.stage = "checking" => ChecksFit(h)
    /\ h.stage \in Underway => h.work \in Routes[h.route].works
    /\ h.stage \in {"connecting", "working"} => h.at \in 1..Len(h.work)
    /\ h.stage \in {"none"} \cup Underway => ~h.changed /\ h.failed = "no"
    /\ h.connected => h.stage = "working"
    /\ h.stage = "settled" => h.outcome \in {"accepted", "rejected", "threw"}
    /\ h.stage = "settled" => (h.outcome = "threw" <=> h.failed # "no")
    /\ h.stage = "settled" /\ h.outcome = "rejected" => ~h.changed
    /\ h.stage = "settled" /\ h.outcome = "accepted" /\ h.route \in {"issue", "consume", "edit"}
          => h.changed

\* What a client has been told: until the handler is over only its timeout answers.
AnswerFits(h) ==
    /\ h.timer = "fired" => h.answer = "unavailable"
    /\ h.stage # "over" /\ h.answer # "none" => h.timer = "fired"
    /\ h.answer \in Refusals => ~h.changed
    /\ h.answer = "ok" /\ h.route \in {"issue", "consume", "edit"} => h.changed
    /\ h.answer \in Refusals \cup {"ok"} => h.failed = "no"
    /\ h.answer = "unavailable" /\ h.route \notin StreamRoutes => IsFailure(h)
    /\ h.failed = "closed" /\ h.answer = "unavailable" => h.timer = "fired"

HandlerFits(h) == HandlerTypes(h) /\ StageFits(h) /\ AnswerFits(h)

\* A send or a deletion that succeeded has been done, by this request or another.
Repeats(h) ==
    /\ h.route \in {"send", "delete"}
    /\ h.answer = "ok" \/ (h.stage = "settled" /\ h.outcome = "accepted")

InUse == {r \in Requests : handler[r].connected}

PoolFits == IsFiniteSet(InUse) /\ Cardinality(InUse) <= MaxConnections

\* Who waits has not been answered; and once the database is closed nobody waits.
WireFits ==
    /\ wire \in [Requests -> {"none", "new", "open", "idle", "closed"}]
    /\ server \in {"up", "closing", "closed", "ended"}
    /\ \A r \in Requests :
          /\ wire[r] = "open" => handler[r].answer = "none"
          /\ server \in {"closed", "ended"} => wire[r] \in {"none", "closed"}
          /\ handler[r].failed = "closed" => server \in {"closed", "ended"}

ApiInv ==
    /\ handler = [r \in Requests |-> handler[r]]
    /\ \A r \in Requests : HandlerFits(handler[r])
    /\ \A r \in Requests : Repeats(handler[r]) => Done(handler[r].route)
    /\ PoolFits
    /\ WireFits

-----------------------------------------------------------------------------
(***************************************************************************)
(* The handler of one request                                              *)
(***************************************************************************)
LEMMA NoHandlerFits == HandlerFits(NoHandler) /\ ~Repeats(NoHandler)
BY DEF HandlerFits, HandlerTypes, StageFits, AnswerFits, NoHandler, Repeats, Answers, Refusals,
       Underway, StreamRoutes, IsFailure

\* The checks throw what is answered with a refusal.
LEMMA ErrorsRefuse ==
    ASSUME NEW check \in DOMAIN Errors, NEW flaw \in DOMAIN Errors[check]
    PROVE  Errors[check][flaw].code \in {"bad_request", "unauthenticated", "forbidden"}
BY DEF Errors, NoErrors, BearerAuth, RequestId, AuthenticateActor, AuthenticateGateway,
       GetAssertedActor, OptionalBody, TicketBody, SendBody, EditBody, DeleteBody,
       AllowedParameters, LatestTarget, OlderCursor, SyncBody, HttpException, AppHttpError

\* A route has checks, all of them known, and its use case uses the database.
LEMMA RouteProperties ==
    ASSUME NEW route \in RouteNames
    PROVE  /\ route # "none"
           /\ Len(Routes[route].checks) \in Nat \ {0}
           /\ \A i \in 1..Len(Routes[route].checks) : Routes[route].checks[i] \in DOMAIN Errors
           /\ \A i, j \in 1..Len(Routes[route].checks) :
                 Routes[route].checks[i] = "timeout" /\ Routes[route].checks[j] = "timeout" => i = j
           /\ \A work \in Routes[route].works :
                 /\ Len(work) \in Nat \ {0}
                 /\ \A i \in 1..Len(work) : work[i] \in {"read", "write"}
                 /\ route \notin StreamRoutes => work[Len(work)] = "write"
<1>1. route \in {"issue", "consume", "send", "edit", "delete", "latest", "older", "sync"}
  BY RoutesAssumption DEF Routes
<1>2. /\ Once = {<<"write">>} /\ LookupFirst = {<<"read", "write">>}
      /\ Reading = {<<"read">>, <<"read", "read">>}
  BY DEF Once, LookupFirst, Reading
<1>3. /\ \A works \in {Once, LookupFirst, Reading} : \A work \in works :
            Len(work) \in Nat \ {0} /\ \A i \in 1..Len(work) : work[i] \in {"read", "write"}
      /\ \A works \in {Once, LookupFirst} : \A work \in works : work[Len(work)] = "write"
  BY <1>2
<1>4. /\ {"timeout", "bearer", "requestId", "actor", "gateway"} \subseteq DOMAIN Errors
      /\ {"assertedActor", "optionalBody", "ticketBody", "sendBody"} \subseteq DOMAIN Errors
      /\ {"editBody", "deleteBody"} \subseteq DOMAIN Errors
      /\ {"parameters", "latestTarget", "olderCursor", "syncBody"} \subseteq DOMAIN Errors
  BY DEF Errors
<1>5. CASE route = "issue"
  <2>1. Routes[route] = IssueTicket
    BY <1>5 DEF Routes
  <2> QED BY <1>5, <1>3, <1>4, <2>1 DEF IssueTicket
<1>6. CASE route = "consume"
  <2>1. Routes[route] = ConsumeTicket
    BY <1>6 DEF Routes
  <2> QED BY <1>6, <1>3, <1>4, <2>1 DEF ConsumeTicket
<1>7. CASE route = "send"
  <2>1. Routes[route] = SendMessage
    BY <1>7 DEF Routes
  <2> QED BY <1>7, <1>3, <1>4, <2>1 DEF SendMessage
<1>8. CASE route = "edit"
  <2>1. Routes[route] = EditMessage
    BY <1>8 DEF Routes
  <2> QED BY <1>8, <1>3, <1>4, <2>1 DEF EditMessage
<1>9. CASE route = "delete"
  <2>1. Routes[route] = DeleteMessage
    BY <1>9 DEF Routes
  <2> QED BY <1>9, <1>3, <1>4, <2>1 DEF DeleteMessage
<1>10. CASE route = "latest"
  <2>1. Routes[route] = LoadLatest
    BY <1>10 DEF Routes
  <2> QED BY <1>10, <1>3, <1>4, <2>1 DEF LoadLatest, StreamRoutes
<1>11. CASE route = "older"
  <2>1. Routes[route] = LoadOlder
    BY <1>11 DEF Routes
  <2> QED BY <1>11, <1>3, <1>4, <2>1 DEF LoadOlder, StreamRoutes
<1>12. CASE route = "sync"
  <2>1. Routes[route] = SyncAfter
    BY <1>12 DEF Routes
  <2> QED BY <1>12, <1>3, <1>4, <2>1 DEF SyncAfter, StreamRoutes
<1> QED BY <1>1, <1>5, <1>6, <1>7, <1>8, <1>9, <1>10, <1>11, <1>12

\* What a handler becomes when it ends while w is the state of its connection.
Replied(h, w, answer) == [Ended(h) EXCEPT !.answer = IF w = "open" THEN answer ELSE @]

\* A handler that ends keeps what it did, and its answer counts if somebody waits.
LEMMA ReplyFits ==
    ASSUME NEW h, HandlerFits(h), h.stage \in {"checking", "settled"},
           NEW w, NEW answer \in Answers, w = "open" => h.answer = "none",
           w = "open" => h.failed # "closed",
           answer \in Refusals => ~h.changed,
           answer = "ok" /\ h.route \in {"issue", "consume", "edit"} => h.changed,
           answer \in Refusals \cup {"ok"} => h.failed = "no",
           answer = "unavailable" /\ h.route \notin StreamRoutes => h.failed # "no",
           NEW g, g = Replied(h, w, answer)
    PROVE  /\ HandlerFits(g)
           /\ ~g.connected /\ (g.changed <=> h.changed) /\ g.route = h.route
           /\ g.failed = h.failed
           /\ w = "open" => g.answer = answer
           /\ w # "open" => g.answer = h.answer
           /\ g.stage = "over"
<1>1. h = [stage |-> h.stage, route |-> h.route, work |-> h.work, at |-> h.at,
           timer |-> h.timer, connected |-> h.connected, outcome |-> h.outcome,
           changed |-> h.changed, failed |-> h.failed, answer |-> h.answer]
  BY DEF HandlerFits, HandlerTypes
<1>2. g = [stage |-> "over", route |-> h.route, work |-> <<>>, at |-> 1,
           timer |-> IF h.timer = "on" THEN "off" ELSE h.timer,
           connected |-> h.connected, outcome |-> "none",
           changed |-> h.changed, failed |-> h.failed,
           answer |-> IF w = "open" THEN answer ELSE h.answer]
  BY <1>1 DEF Replied, Ended
<1>3. /\ g.stage = "over" /\ g.route = h.route /\ g.outcome = "none" /\ g.failed = h.failed
      /\ g.connected = h.connected /\ g.changed = h.changed
      /\ g.timer = IF h.timer = "on" THEN "off" ELSE h.timer
      /\ g.answer = IF w = "open" THEN answer ELSE h.answer
  BY <1>2
<1>4. HandlerTypes(g)
  <2>1. g = [stage |-> g.stage, route |-> g.route, work |-> g.work, at |-> g.at,
             timer |-> g.timer, connected |-> g.connected, outcome |-> g.outcome,
             changed |-> g.changed, failed |-> g.failed, answer |-> g.answer]
    BY <1>2
  <2> QED BY <1>3, <2>1 DEF HandlerFits, HandlerTypes
<1>5. ~g.connected /\ (g.changed <=> h.changed)
  BY <1>3 DEF HandlerFits, StageFits
<1>6. StageFits(g)
  BY <1>3, <1>5 DEF StageFits, Underway
<1>7. AnswerFits(g)
  BY <1>3, <1>5 DEF HandlerFits, HandlerTypes, AnswerFits, IsFailure, Answers, Refusals
<1> QED BY <1>3, <1>4, <1>5, <1>6, <1>7 DEF HandlerFits

\* A step of a handler keeps the invariant if the handler still fits, takes no connection
\* that is not free, takes back nothing it has done, and is waited for unanswered only.
LEMMA HandlerStep ==
    ASSUME ApiInv, NEW r \in Requests, NEW g, Update(r, g), HandlerFits(g),
           handler[r].changed => g.changed /\ g.route = handler[r].route,
           Repeats(g) => g.changed \/ Done(g.route),
           g.connected => handler[r].connected \/ IsConnectionFree,
           wire' \in [Requests -> {"none", "new", "open", "idle", "closed"}],
           server' = server,
           \A q \in Requests : q # r /\ wire'[q] = "open" => wire[q] = "open",
           wire'[r] = "open" => g.answer = "none",
           server \in {"closed", "ended"} => \A q \in Requests : wire'[q] \in {"none", "closed"},
           g.failed = "closed" => server \in {"closed", "ended"}
    PROVE  ApiInv'
<1>1. handler = [q \in Requests |-> handler[q]]
  BY DEF ApiInv
<1>2. /\ handler' = [q \in Requests |-> handler'[q]]
      /\ handler'[r] = g
      /\ \A q \in Requests \ {r} : handler'[q] = handler[q]
  BY <1>1 DEF Update
<1>3. \A q \in Requests : HandlerFits(handler[q])'
  <2> SUFFICES ASSUME NEW q \in Requests PROVE HandlerFits(handler[q])'
    OBVIOUS
  <2>1. HandlerFits(handler'[q])
    BY <1>2 DEF ApiInv
  <2>2. HandlerTypes(handler[q])'
    BY <2>1 DEF HandlerFits, HandlerTypes
  <2>3. StageFits(handler[q])'
    BY <2>1 DEF HandlerFits, StageFits, ChecksFit
  <2>4. AnswerFits(handler[q])'
    BY <2>1 DEF HandlerFits, AnswerFits, IsFailure
  <2> QED BY <2>2, <2>3, <2>4 DEF HandlerFits
<1>4. ASSUME NEW route, Done(route)
      PROVE  \E p \in Requests : handler'[p].route = route /\ handler'[p].changed
  <2>1. PICK q \in Requests : handler[q].route = route /\ handler[q].changed
    BY <1>4 DEF Done
  <2>2. handler'[q].route = route /\ handler'[q].changed
    BY <1>2, <2>1
  <2> QED BY <2>2
<1>5. ASSUME NEW q \in Requests, Repeats(handler'[q])
      PROVE  \E p \in Requests : handler'[p].route = handler'[q].route /\ handler'[p].changed
  <2>1. CASE q = r
    <3>1. Repeats(g)
      BY <1>2, <1>5, <2>1
    <3>2. CASE g.changed
      BY <1>2, <2>1, <3>2
    <3>3. CASE Done(g.route)
      BY <1>2, <1>4, <2>1, <3>3
    <3> QED BY <3>1, <3>2, <3>3
  <2>2. CASE q # r
    <3>1. handler'[q] = handler[q]
      BY <1>2, <2>2
    <3>2. Done(handler[q].route)
      BY <1>5, <3>1 DEF ApiInv
    <3> QED BY <1>4, <3>1, <3>2
  <2> QED BY <2>1, <2>2
<1>6. PoolFits'
  <2>1. IsFiniteSet(InUse) /\ Cardinality(InUse) <= MaxConnections
    BY DEF ApiInv, PoolFits
  <2>2. CASE InUse' \subseteq InUse
    <3>1. IsFiniteSet(InUse') /\ Cardinality(InUse') <= Cardinality(InUse)
      BY <2>1, <2>2, FS_Subset
    <3>2. Cardinality(InUse) \in Nat /\ Cardinality(InUse') \in Nat
      BY <2>1, <3>1, FS_CardinalityType
    <3> QED BY <2>1, <3>1, <3>2, PoolAssumption DEF PoolFits
  <2>3. CASE ~(InUse' \subseteq InUse)
    <3>1. InUse' = InUse \cup {r} /\ g.connected /\ ~handler[r].connected
      BY <1>2, <2>3 DEF InUse
    <3>2. Cardinality(InUse) < MaxConnections
      BY <3>1 DEF IsConnectionFree, InUse
    <3>3. r \notin InUse
      BY <3>1 DEF InUse
    <3>4. IsFiniteSet(InUse') /\ Cardinality(InUse') = Cardinality(InUse) + 1
      BY <2>1, <3>1, <3>3, FS_AddElement
    <3>5. Cardinality(InUse) \in Nat
      BY <2>1, FS_CardinalityType
    <3> QED BY <3>2, <3>4, <3>5, PoolAssumption DEF PoolFits
  <2> QED BY <2>2, <2>3
<1>7. WireFits'
  <2>1. ASSUME NEW q \in Requests
        PROVE  /\ wire'[q] = "open" => handler'[q].answer = "none"
               /\ server' \in {"closed", "ended"} => wire'[q] \in {"none", "closed"}
               /\ handler'[q].failed = "closed" => server' \in {"closed", "ended"}
    BY <1>2 DEF ApiInv, WireFits
  <2> QED BY <2>1 DEF ApiInv, WireFits
<1>8. \A q \in Requests : (Repeats(handler[q]) => Done(handler[q].route))'
  BY <1>5 DEF Repeats, Done
<1> QED BY <1>2, <1>3, <1>6, <1>7, <1>8 DEF ApiInv

\* A step that leaves the handlers alone.
LEMMA WireStep ==
    ASSUME ApiInv, handler' = handler,
           wire' \in [Requests -> {"none", "new", "open", "idle", "closed"}],
           server' \in {"up", "closing", "closed", "ended"},
           \A q \in Requests : wire'[q] = "open" => wire[q] = "open",
           server \in {"closed", "ended"} => server' \in {"closed", "ended"},
           server' \in {"closed", "ended"} => \A q \in Requests : wire'[q] \in {"none", "closed"}
    PROVE  ApiInv'
<1>1. WireFits'
  <2>1. ASSUME NEW q \in Requests
        PROVE  /\ wire'[q] = "open" => handler'[q].answer = "none"
               /\ server' \in {"closed", "ended"} => wire'[q] \in {"none", "closed"}
               /\ handler'[q].failed = "closed" => server' \in {"closed", "ended"}
    BY DEF ApiInv, WireFits
  <2> QED BY <2>1 DEF ApiInv, WireFits
<1>2. PoolFits'
  BY DEF ApiInv, PoolFits, InUse
<1> QED BY <1>1, <1>2 DEF ApiInv, HandlerFits, HandlerTypes, StageFits, AnswerFits, IsFailure,
                          Repeats, Done

\* How a unit of work settles a use case: a refusal has changed nothing, and a success
\* has changed what it says, or repeats a send or a deletion that has.
LEMMA SettlementProperties ==
    ASSUME NEW h, HandlerFits(h), h.stage = "working", NEW s \in Settlements(h)
    PROVE  \/ s[1] = "rejected" /\ s[2] = FALSE
           \/ s[1] = "accepted" /\ s[2] = TRUE
           \/ /\ s[1] = "accepted" /\ s[2] = FALSE
              /\ h.route \in StreamRoutes \/ (h.route \in {"send", "delete"} /\ Done(h.route))
<1>1. h.work \in Routes[h.route].works /\ h.at \in 1..Len(h.work) /\ h.route \in RouteNames
  BY DEF HandlerFits, HandlerTypes, StageFits, Underway
<1>2. /\ h.work[h.at] \in {"read", "write"} /\ Len(h.work) \in Nat
      /\ h.route \notin StreamRoutes => h.work[Len(h.work)] = "write"
  BY <1>1, RouteProperties
<1> DEFINE Told == h.route \in StreamRoutes \/ (h.route \in {"send", "delete"} /\ Done(h.route))
<1>3. \/ s = <<"rejected", FALSE>>
      \/ s = <<"accepted", TRUE>>
      \/ s = <<"accepted", FALSE>> /\ Told
  <2>1. CASE h.work[h.at] = "read" /\ h.at = Len(h.work)
    <3>1. s \in {<<"accepted", FALSE>>, <<"rejected", FALSE>>}
      BY <2>1 DEF Settlements
    <3>2. Told
      BY <1>2, <2>1
    <3> QED BY <3>1, <3>2
  <2>2. CASE h.work[h.at] = "read" /\ h.at # Len(h.work) /\ h.route = "send" /\ Done("send")
    <3>1. s \in {<<"accepted", FALSE>>, <<"rejected", FALSE>>}
      BY <2>2 DEF Settlements
    <3>2. Told
      BY <2>2
    <3> QED BY <3>1, <3>2
  <2>3. CASE h.work[h.at] = "read" /\ h.at # Len(h.work) /\ ~(h.route = "send" /\ Done("send"))
    <3>1. h.at < Len(h.work)
      BY <1>1, <1>2, <2>3
    <3>2. s = <<"rejected", FALSE>>
      BY <2>3, <3>1 DEF Settlements
    <3> QED BY <3>2
  <2>4. CASE h.work[h.at] = "write" /\ h.route = "issue"
    <3>1. s = <<"accepted", TRUE>>
      BY <2>4 DEF Settlements
    <3> QED BY <3>1
  <2>5. CASE h.work[h.at] = "write" /\ h.route \in {"send", "delete"} /\ Done(h.route)
    <3>1. s \in {<<"accepted", FALSE>>, <<"rejected", FALSE>>}
      BY <2>5 DEF Settlements
    <3> QED BY <2>5, <3>1
  <2>6. CASE /\ h.work[h.at] = "write" /\ h.route # "issue"
             /\ ~(h.route \in {"send", "delete"} /\ Done(h.route))
    <3>1. s \in {<<"accepted", TRUE>>, <<"rejected", FALSE>>}
      BY <2>6 DEF Settlements
    <3> QED BY <3>1
  <2> QED BY <1>2, <2>1, <2>2, <2>3, <2>4, <2>5, <2>6
<1>4. ASSUME NEW a, NEW b, s = <<a, b>> PROVE s[1] = a /\ s[2] = b
  BY <1>4
<1> QED BY <1>3, <1>4

-----------------------------------------------------------------------------
(***************************************************************************)
(* The steps                                                               *)
(***************************************************************************)
\* The handler of a request that comes.
Arrived(route, work) ==
    [NoHandler EXCEPT !.stage = "checking", !.route = route, !.work = work]

LEMMA ArriveFits ==
    ASSUME NEW route \in RouteNames, NEW work \in Routes[route].works,
           NEW g, g = Arrived(route, work)
    PROVE  /\ HandlerFits(g) /\ ~g.changed /\ ~g.connected /\ g.stage = "checking"
           /\ g.answer = "none" /\ g.failed = "no" /\ ~Repeats(g)
<1>3. g = [stage |-> "checking", route |-> route, work |-> work, at |-> 1,
           timer |-> "off", connected |-> FALSE, outcome |-> "none",
           changed |-> FALSE, failed |-> "no", answer |-> "none"]
  BY DEF NoHandler, Arrived
<1>4. /\ g.stage = "checking" /\ g.route = route /\ g.work = work /\ g.at = 1
      /\ g.timer = "off" /\ g.connected = FALSE /\ g.outcome = "none"
      /\ g.changed = FALSE /\ g.failed = "no" /\ g.answer = "none"
  BY <1>3
<1>5. HandlerTypes(g)
  <2>1. g = [stage |-> g.stage, route |-> g.route, work |-> g.work, at |-> g.at,
             timer |-> g.timer, connected |-> g.connected, outcome |-> g.outcome,
             changed |-> g.changed, failed |-> g.failed, answer |-> g.answer]
    BY <1>3
  <2>2. route # "none"
    BY RouteProperties
  <2> QED BY <1>4, <2>1, <2>2 DEF HandlerTypes, Underway, Answers
<1>6. StageFits(g)
  <2>1. Len(Routes[route].checks) \in Nat \ {0}
    BY RouteProperties
  <2>2. ChecksFit(g)
    BY <1>4, <2>1 DEF ChecksFit
  <2> QED BY <1>4, <2>2 DEF StageFits, Underway
<1>7. AnswerFits(g)
  BY <1>4 DEF AnswerFits, Refusals
<1> QED BY <1>4, <1>5, <1>6, <1>7 DEF HandlerFits, Repeats

LEMMA ArriveKeeps ==
    ASSUME ApiInv, NEW r \in Requests, NEW route \in RouteNames, NEW work \in Routes[route].works,
           Arrive(r, route, work)
    PROVE  ApiInv'
<1>1. ~handler[r].changed
  <2>1. StageFits(handler[r])
    BY DEF ApiInv, HandlerFits
  <2> QED BY <2>1 DEF Arrive, IsUnused, StageFits
<1>2. PICK g : g = Arrived(route, work)
  OBVIOUS
<1>3. Update(r, g)
  BY <1>2 DEF Arrive, Arrived
<1>4. /\ HandlerFits(g) /\ ~g.changed /\ ~g.connected
      /\ g.answer = "none" /\ g.failed = "no" /\ ~Repeats(g)
  BY <1>2, ArriveFits
<1>5. PICK q \in Requests : /\ wire[q] \in {"new", "idle"}
                           /\ wire' = [wire EXCEPT ![q] = "closed", ![r] = "open"]
  BY DEF Arrive
<1>6. /\ wire' \in [Requests -> {"none", "new", "open", "idle", "closed"}]
      /\ \A p \in Requests : p # r /\ wire'[p] = "open" => wire[p] = "open"
      /\ server \notin {"closed", "ended"}
  BY <1>5 DEF ApiInv, WireFits
<1>7. server' = server
  BY DEF Arrive
<1> QED BY <1>1, <1>3, <1>4, <1>6, <1>7, HandlerStep

\* A handler that ends, whatever it answers with.
LEMMA ReplyKeeps ==
    ASSUME ApiInv, NEW r \in Requests, NEW h, h = handler[r], NEW answer \in Answers,
           h.stage \in {"checking", "settled"},
           answer \in Refusals => ~h.changed,
           answer = "ok" /\ h.route \in {"issue", "consume", "edit"} => h.changed,
           answer = "ok" /\ h.route \in {"send", "delete"} => Repeats(h),
           answer \in Refusals \cup {"ok"} => h.failed = "no",
           answer = "unavailable" /\ h.route \notin StreamRoutes => h.failed # "no",
           Reply(r, h, answer), UNCHANGED server
    PROVE  ApiInv'
<1>1. HandlerFits(h) /\ (wire[r] = "open" => h.answer = "none" /\ h.failed # "closed")
  BY DEF ApiInv, WireFits
<1>2. PICK w : w = wire[r]
  OBVIOUS
<1>3. PICK g : g = Replied(h, w, answer)
  OBVIOUS
<1>4. /\ HandlerFits(g)
      /\ ~g.connected /\ (g.changed <=> h.changed) /\ g.route = h.route
      /\ g.failed = h.failed
      /\ w = "open" => g.answer = answer
      /\ w # "open" => g.answer = h.answer
      /\ g.stage = "over"
  <2>1. w = "open" => h.answer = "none" /\ h.failed # "closed"
    BY <1>1, <1>2
  <2> QED BY <1>1, <1>3, <2>1, ReplyFits
<1>5. Update(r, g)
  BY <1>2, <1>3 DEF Reply, Replied
<1>6. /\ wire' \in [Requests -> {"none", "new", "open", "idle", "closed"}]
      /\ \A q \in Requests : q # r /\ wire'[q] = "open" => wire[q] = "open"
      /\ wire'[r] # "open"
      /\ server \in {"closed", "ended"} => \A q \in Requests : wire'[q] \in {"none", "closed"}
  BY DEF Reply, ApiInv, WireFits
<1>7. g.failed = "closed" => server \in {"closed", "ended"}
  BY <1>4 DEF ApiInv, WireFits
<1>8. Repeats(g) => Done(g.route)
  <2>1. Repeats(h) => Done(h.route)
    BY DEF ApiInv
  <2> QED BY <1>4, <2>1 DEF Repeats
<1>9. handler[r].changed => g.changed /\ g.route = handler[r].route
  BY <1>4
<1> QED BY <1>4, <1>5, <1>6, <1>7, <1>8, <1>9, HandlerStep

\* The next check passes; after the last one the use case is called.
Passed(h, check) ==
    LET checks == Routes[h.route].checks
    IN  [h EXCEPT !.stage = IF h.at = Len(checks) THEN "connecting" ELSE @,
                  !.at = IF h.at = Len(checks) THEN 1 ELSE @ + 1,
                  !.timer = IF check = "timeout" THEN "on" ELSE @]

LEMMA PassFits ==
    ASSUME NEW h, HandlerFits(h), h.stage = "checking",
           NEW check, check = Routes[h.route].checks[h.at],
           NEW g, g = Passed(h, check)
    PROVE  /\ HandlerFits(g) /\ ~h.changed /\ ~g.connected /\ ~Repeats(g)
           /\ g.failed = "no" /\ g.answer = h.answer
<1> DEFINE n == Len(Routes[h.route].checks)
<1>1. g = [stage |-> IF h.at = n THEN "connecting" ELSE h.stage, route |-> h.route,
           work |-> h.work, at |-> IF h.at = n THEN 1 ELSE h.at + 1,
           timer |-> IF check = "timeout" THEN "on" ELSE h.timer,
           connected |-> h.connected, outcome |-> h.outcome,
           changed |-> h.changed, failed |-> h.failed, answer |-> h.answer]
  BY DEF HandlerFits, HandlerTypes, Passed
<1>2. /\ g.route = h.route /\ g.work = h.work /\ g.connected = h.connected
      /\ g.outcome = h.outcome /\ g.changed = h.changed /\ g.failed = h.failed
      /\ g.answer = h.answer
      /\ check # "timeout" => g.timer = h.timer
      /\ check = "timeout" => g.timer = "on"
      /\ h.at = n => g.stage = "connecting" /\ g.at = 1
      /\ h.at # n => g.stage = "checking" /\ g.at = h.at + 1
  BY <1>1
<1>3. g = [stage |-> g.stage, route |-> g.route, work |-> g.work, at |-> g.at,
           timer |-> g.timer, connected |-> g.connected, outcome |-> g.outcome,
           changed |-> g.changed, failed |-> g.failed, answer |-> g.answer]
  BY <1>1
<1>4. /\ ~h.changed /\ h.failed = "no" /\ ~h.connected
      /\ h.route \in RouteNames /\ h.work \in Routes[h.route].works /\ h.at \in 1..n
      /\ \A i \in h.at..n : Routes[h.route].checks[i] = "timeout" => h.timer = "off"
  BY DEF HandlerFits, HandlerTypes, StageFits, ChecksFit, Underway
<1>5. /\ n \in Nat \ {0} /\ Len(h.work) \in Nat \ {0}
      /\ \A i, j \in 1..n :
            Routes[h.route].checks[i] = "timeout" /\ Routes[h.route].checks[j] = "timeout" => i = j
  BY <1>4, RouteProperties
<1>6. ~g.changed /\ g.failed = "no" /\ ~g.connected
  BY <1>2, <1>4
<1>7. HandlerTypes(g)
  <2>1. /\ g.stage \in {"checking", "connecting"} /\ g.route \in RouteNames /\ g.route # "none"
        /\ g.timer \in {"off", "on", "fired"}
    BY <1>2, <1>4, RouteProperties DEF HandlerFits, HandlerTypes
  <2> QED BY <1>2, <1>3, <2>1 DEF HandlerFits, HandlerTypes, Underway
<1>8. StageFits(g)
  <2>1. CASE h.at = n
    <3>1. 1 \in 1..Len(h.work)
      BY <1>5
    <3>2. g.stage = "connecting" /\ g.at = 1 /\ g.work = h.work /\ g.route = h.route
      BY <1>2, <2>1
    <3>3. g.at \in 1..Len(g.work)
      BY <3>1, <3>2, Zenon
    <3>4. g.work \in Routes[g.route].works
      BY <1>4, <3>2, Zenon
    <3> QED BY <1>6, <3>2, <3>3, <3>4 DEF StageFits, Underway
  <2>2. CASE h.at # n
    <3>1. g.stage = "checking" /\ g.at \in 1..n /\ g.at > h.at
      <4>1. g.stage = "checking" /\ g.at = h.at + 1
        BY <1>2, <2>2
      <4>2. h.at \in 1..n /\ n \in Nat
        BY <1>4, <1>5
      <4> HIDE DEF n
      <4> QED BY <2>2, <4>1, <4>2
    <3>2. ASSUME NEW i \in g.at..n, Routes[h.route].checks[i] = "timeout" PROVE g.timer = "off"
      <4>1. i \in h.at..n /\ i # h.at /\ i \in 1..n
        BY <1>4, <1>5, <3>1
      <4>2. check # "timeout"
        BY <1>4, <1>5, <3>2, <4>1
      <4> QED BY <1>2, <1>4, <3>2, <4>1, <4>2
    <3>3. Len(Routes[g.route].checks) = n /\ Routes[g.route].checks = Routes[h.route].checks
      BY <1>2
    <3> HIDE DEF n
    <3>4. ChecksFit(g)
      <4>1. g.at \in 1..Len(Routes[g.route].checks)
        BY <3>1, <3>3
      <4>2. ASSUME NEW i \in g.at..Len(Routes[g.route].checks),
                   Routes[g.route].checks[i] = "timeout"
            PROVE  g.timer = "off"
        <5>1. i \in g.at..n /\ Routes[h.route].checks[i] = "timeout"
          BY <3>3, <4>2
        <5> QED BY <3>2, <5>1
      <4> QED BY Zenon, <4>1, <4>2 DEF ChecksFit
    <3>5. g.work \in Routes[g.route].works
      BY <1>2, <1>4
    <3> QED BY <1>6, <3>1, <3>4, <3>5 DEF StageFits, Underway
  <2> QED BY <2>1, <2>2
<1>9. AnswerFits(g)
  <2>1. h.timer = "fired" => check # "timeout"
    BY <1>4, <1>5
  <2>2. h.answer # "none" <=> h.timer = "fired"
    BY DEF HandlerFits, AnswerFits
  <2>3. h.timer = "fired" => h.answer = "unavailable"
    BY DEF HandlerFits, AnswerFits
  <2> QED BY <1>2, <1>6, <2>1, <2>2, <2>3 DEF AnswerFits, IsFailure, Refusals
<1>10. ~Repeats(g)
  <2>1. g.stage # "settled" /\ g.answer # "ok"
    BY <1>2 DEF HandlerFits, AnswerFits
  <2> QED BY <2>1 DEF Repeats
<1>11. HandlerFits(g)
  BY <1>7, <1>8, <1>9 DEF HandlerFits
<1> QED BY <1>2, <1>4, <1>6, <1>10, <1>11

LEMMA CheckKeeps ==
    ASSUME ApiInv, NEW r \in Requests, Check(r)
    PROVE  ApiInv'
<1> DEFINE h == handler[r]
           check == Routes[h.route].checks[h.at]
<1>1. h = handler[r]
  OBVIOUS
<1>2. check = Routes[h.route].checks[h.at]
  OBVIOUS
<1>3. /\ h.stage = "checking" /\ server' = server
      /\ \/ \E flaw \in DOMAIN Errors[check] :
               Reply(r, h, AnswerTo(h.route, Errors[check][flaw]))
         \/ Update(r, Passed(h, check)) /\ wire' = wire
  BY Zenon DEF Check, Passed
<1> HIDE DEF h, check
<1>4. HandlerFits(h)
  BY <1>1 DEF ApiInv
<1>5. check \in DOMAIN Errors /\ ~h.changed /\ h.failed = "no"
  <2>1. h.route \in RouteNames /\ h.at \in 1..Len(Routes[h.route].checks)
        /\ ~h.changed /\ h.failed = "no"
    BY <1>3, <1>4 DEF HandlerFits, HandlerTypes, StageFits, ChecksFit, Underway
  <2> QED BY <1>2, <2>1, RouteProperties
<1>6. ASSUME NEW flaw \in DOMAIN Errors[check],
             Reply(r, h, AnswerTo(h.route, Errors[check][flaw]))
      PROVE  ApiInv'
  <2>1. PICK answer : answer = AnswerTo(h.route, Errors[check][flaw])
    OBVIOUS
  <2>2. /\ answer \in Refusals \cup {"unavailable"}
        /\ answer = "unavailable" => h.route \in StreamRoutes
    BY <1>5, <2>1, ErrorsRefuse DEF AnswerTo, Refusals
  <2>3. answer \in Answers /\ answer # "ok"
    BY <2>2 DEF Answers, Refusals
  <2>4. Reply(r, h, answer)
    BY <1>6, <2>1
  <2> QED BY <1>1, <1>3, <1>5, <2>2, <2>3, <2>4, ReplyKeeps
<1>7. CASE Update(r, Passed(h, check)) /\ wire' = wire
  <2>1. PICK g : g = Passed(h, check)
    OBVIOUS
  <2>2. /\ HandlerFits(g) /\ ~h.changed /\ ~g.connected /\ ~Repeats(g)
        /\ g.failed = "no" /\ g.answer = h.answer
    BY <1>2, <1>3, <1>4, <2>1, PassFits, ZenonT(40)
  <2>3. Update(r, g)
    BY <1>7, <2>1
  <2>4. wire'[r] = "open" => g.answer = "none"
    BY <1>1, <1>7, <2>2 DEF ApiInv, WireFits
  <2> QED BY <1>1, <1>3, <1>7, <2>2, <2>3, <2>4, HandlerStep DEF ApiInv, WireFits
<1> QED BY <1>3, <1>6, <1>7

\* The timeout answers.
Expired(h) ==
    [h EXCEPT !.timer = "fired", !.answer = "unavailable"]

LEMMA ExpireFits ==
    ASSUME NEW h, HandlerFits(h), h.timer = "on", h.answer = "none",
           NEW g, g = Expired(h)
    PROVE  /\ HandlerFits(g) /\ g.route = h.route /\ g.failed = h.failed
           /\ g.changed = h.changed /\ g.connected = h.connected
           /\ Repeats(g) => Repeats(h)
<1>1. g = [stage |-> h.stage, route |-> h.route, work |-> h.work, at |-> h.at,
           timer |-> "fired", connected |-> h.connected, outcome |-> h.outcome,
           changed |-> h.changed, failed |-> h.failed, answer |-> "unavailable"]
  BY DEF HandlerFits, HandlerTypes, Expired
<1>2. /\ g.stage = h.stage /\ g.route = h.route /\ g.work = h.work /\ g.at = h.at
      /\ g.timer = "fired" /\ g.connected = h.connected /\ g.outcome = h.outcome
      /\ g.changed = h.changed /\ g.failed = h.failed /\ g.answer = "unavailable"
  BY <1>1
<1>3. g = [stage |-> g.stage, route |-> g.route, work |-> g.work, at |-> g.at,
           timer |-> g.timer, connected |-> g.connected, outcome |-> g.outcome,
           changed |-> g.changed, failed |-> g.failed, answer |-> g.answer]
  BY <1>1
<1>4. h.stage # "none"
  BY DEF HandlerFits, StageFits, NoHandler
<1>5. HandlerTypes(g)
  BY <1>2, <1>3 DEF HandlerFits, HandlerTypes, Answers
<1>8. h.stage = "checking" => ChecksFit(g)
  BY <1>2 DEF HandlerFits, StageFits, ChecksFit
<1>6. StageFits(g)
  BY <1>2, <1>4, <1>8 DEF HandlerFits, StageFits
<1>7. AnswerFits(g)
  BY <1>2 DEF AnswerFits, IsFailure, Refusals
<1> QED BY <1>2, <1>4, <1>5, <1>6, <1>7 DEF HandlerFits, Repeats

\* A connection of the pool is given to the handler.
Connected(h) ==
    [h EXCEPT !.stage = "working", !.connected = TRUE]

LEMMA ConnectFits ==
    ASSUME NEW h, HandlerFits(h), h.stage = "connecting",
           NEW g, g = Connected(h)
    PROVE  /\ HandlerFits(g) /\ ~h.changed /\ ~Repeats(g)
           /\ g.failed = "no" /\ g.answer = h.answer
<1>1. g = [stage |-> "working", route |-> h.route, work |-> h.work, at |-> h.at,
           timer |-> h.timer, connected |-> TRUE, outcome |-> h.outcome,
           changed |-> h.changed, failed |-> h.failed, answer |-> h.answer]
  BY DEF HandlerFits, HandlerTypes, Connected
<1>2. /\ g.stage = "working" /\ g.route = h.route /\ g.work = h.work /\ g.at = h.at
      /\ g.timer = h.timer /\ g.connected = TRUE /\ g.outcome = h.outcome
      /\ g.changed = h.changed /\ g.failed = h.failed /\ g.answer = h.answer
  BY <1>1
<1>3. g = [stage |-> g.stage, route |-> g.route, work |-> g.work, at |-> g.at,
           timer |-> g.timer, connected |-> g.connected, outcome |-> g.outcome,
           changed |-> g.changed, failed |-> g.failed, answer |-> g.answer]
  BY <1>1
<1>4. /\ ~h.changed /\ h.failed = "no" /\ h.answer \in {"none", "unavailable"}
      /\ h.route \in RouteNames /\ h.work \in Routes[h.route].works /\ h.at \in 1..Len(h.work)
  BY DEF HandlerFits, HandlerTypes, StageFits, AnswerFits, Underway
<1>5. HandlerTypes(g)
  BY <1>2, <1>3 DEF HandlerFits, HandlerTypes, Underway
<1>6. StageFits(g)
  BY <1>2, <1>4 DEF StageFits, Underway
<1>7. AnswerFits(g)
  BY <1>2 DEF HandlerFits, AnswerFits, IsFailure
<1> QED BY <1>2, <1>4, <1>5, <1>6, <1>7 DEF HandlerFits, Repeats

\* The use case has another unit of work.
NextUnit(h) ==
    [h EXCEPT !.stage = "connecting", !.connected = FALSE, !.at = @ + 1]

LEMMA NextUnitFits ==
    ASSUME NEW h, HandlerFits(h), h.stage = "working", h.at < Len(h.work),
           NEW g, g = NextUnit(h)
    PROVE  /\ HandlerFits(g) /\ ~h.changed /\ ~g.connected /\ ~Repeats(g)
           /\ g.failed = "no" /\ g.answer = h.answer
<1>1. g = [stage |-> "connecting", route |-> h.route, work |-> h.work, at |-> h.at + 1,
           timer |-> h.timer, connected |-> FALSE, outcome |-> h.outcome,
           changed |-> h.changed, failed |-> h.failed, answer |-> h.answer]
  BY DEF HandlerFits, HandlerTypes, NextUnit
<1>2. /\ g.stage = "connecting" /\ g.route = h.route /\ g.work = h.work /\ g.at = h.at + 1
      /\ g.timer = h.timer /\ g.connected = FALSE /\ g.outcome = h.outcome
      /\ g.changed = h.changed /\ g.failed = h.failed /\ g.answer = h.answer
  BY <1>1
<1>3. g = [stage |-> g.stage, route |-> g.route, work |-> g.work, at |-> g.at,
           timer |-> g.timer, connected |-> g.connected, outcome |-> g.outcome,
           changed |-> g.changed, failed |-> g.failed, answer |-> g.answer]
  BY <1>1
<1>4. /\ ~h.changed /\ h.failed = "no" /\ h.answer \in {"none", "unavailable"}
      /\ h.route \in RouteNames /\ h.work \in Routes[h.route].works
      /\ h.at + 1 \in 1..Len(h.work)
  <2>1. /\ ~h.changed /\ h.failed = "no" /\ h.answer \in {"none", "unavailable"}
        /\ h.route \in RouteNames /\ h.work \in Routes[h.route].works /\ h.at \in 1..Len(h.work)
    BY DEF HandlerFits, HandlerTypes, StageFits, AnswerFits, Underway
  <2> QED BY <2>1, RouteProperties
<1>5. HandlerTypes(g)
  BY <1>2, <1>3 DEF HandlerFits, HandlerTypes, Underway
<1>6. StageFits(g)
  BY <1>2, <1>4 DEF StageFits, Underway
<1>7. AnswerFits(g)
  BY <1>2 DEF HandlerFits, AnswerFits, IsFailure
<1> QED BY <1>2, <1>4, <1>5, <1>6, <1>7 DEF HandlerFits, Repeats

\* The use case is settled: what it returned or threw, what it has changed, what has failed.
Settled(h, connected, outcome, changed, failed) ==
    [h EXCEPT !.stage = "settled", !.connected = connected, !.outcome = outcome,
              !.changed = changed, !.failed = failed]

LEMMA SettleFits ==
    ASSUME NEW h, HandlerFits(h), h.stage \in {"connecting", "working"},
           NEW connected, ~connected, NEW changed,
           NEW outcome \in {"accepted", "rejected", "threw"},
           NEW failed \in {"no", "database", "closed"},
           outcome = "threw" <=> failed # "no",
           outcome = "rejected" => ~changed,
           outcome = "accepted" /\ h.route \in {"issue", "consume", "edit"} => changed,
           NEW g, g = Settled(h, connected, outcome, changed, failed)
    PROVE  /\ HandlerFits(g) /\ ~h.changed /\ ~g.connected /\ g.route = h.route
           /\ g.changed = changed /\ g.failed = failed /\ g.answer = h.answer
           /\ Repeats(g) => h.route \in {"send", "delete"} /\ outcome = "accepted"
<1>1. g = [stage |-> "settled", route |-> h.route, work |-> h.work, at |-> h.at,
           timer |-> h.timer, connected |-> connected, outcome |-> outcome,
           changed |-> changed, failed |-> failed, answer |-> h.answer]
  BY DEF HandlerFits, HandlerTypes, Settled
<1>2. /\ g.stage = "settled" /\ g.route = h.route /\ g.work = h.work /\ g.at = h.at
      /\ g.timer = h.timer /\ g.connected = connected /\ g.outcome = outcome
      /\ g.changed = changed /\ g.failed = failed /\ g.answer = h.answer
  BY <1>1
<1>3. g = [stage |-> g.stage, route |-> g.route, work |-> g.work, at |-> g.at,
           timer |-> g.timer, connected |-> g.connected, outcome |-> g.outcome,
           changed |-> g.changed, failed |-> g.failed, answer |-> g.answer]
  BY <1>1
<1>4. ~h.changed /\ h.answer \in {"none", "unavailable"}
  BY DEF HandlerFits, HandlerTypes, StageFits, AnswerFits, Underway
<1>5. HandlerTypes(g)
  BY <1>2, <1>3 DEF HandlerFits, HandlerTypes, Underway
<1>6. StageFits(g)
  BY <1>2, <1>4 DEF StageFits, Underway
<1>7. AnswerFits(g)
  BY <1>2, <1>4 DEF HandlerFits, AnswerFits, IsFailure, Refusals
<1> QED BY <1>2, <1>4, <1>5, <1>6, <1>7 DEF HandlerFits, Repeats

LEMMA ExpireKeeps ==
    ASSUME ApiInv, NEW r \in Requests, Expire(r)
    PROVE  ApiInv'
<1>1. PICK h : h = handler[r]
  OBVIOUS
<1>2. PICK g : g = Expired(h)
  OBVIOUS
<1>3. HandlerFits(h) /\ h.timer = "on" /\ h.answer = "none" /\ wire[r] = "open"
  BY <1>1 DEF Expire, ApiInv, WireFits
<1>4. /\ HandlerFits(g) /\ g.route = h.route /\ g.failed = h.failed
      /\ g.changed = h.changed /\ g.connected = h.connected
      /\ Repeats(g) => Repeats(h)
  BY <1>2, <1>3, ExpireFits
<1>5. Update(r, g)
  BY <1>1, <1>2 DEF Expire, Expired
<1>6. /\ wire' \in [Requests -> {"none", "new", "open", "idle", "closed"}] /\ server' = server
      /\ \A q \in Requests : q # r /\ wire'[q] = "open" => wire[q] = "open"
      /\ wire'[r] # "open" /\ server \notin {"closed", "ended"}
  BY <1>3 DEF Expire, ApiInv, WireFits
<1>7. g.failed = "closed" => server \in {"closed", "ended"}
  BY <1>1, <1>4 DEF ApiInv, WireFits
<1>8. Repeats(g) => g.changed \/ Done(g.route)
  BY <1>1, <1>4 DEF ApiInv
<1>9. /\ handler[r].changed => g.changed /\ g.route = handler[r].route
      /\ g.connected => handler[r].connected
  BY <1>1, <1>4
<1> QED BY <1>4, <1>5, <1>6, <1>7, <1>8, <1>9, HandlerStep

\* A step of a handler that is not done and that leaves the connections alone.
LEMMA UnseenStep ==
    ASSUME ApiInv, NEW r \in Requests, NEW g, Update(r, g), HandlerFits(g),
           ~handler[r].changed, g.answer = handler[r].answer,
           Repeats(g) => g.changed \/ Done(g.route),
           g.connected => handler[r].connected \/ IsConnectionFree,
           g.failed = "closed" => server \in {"closed", "ended"},
           UNCHANGED <<wire, server>>
    PROVE  ApiInv'
<1>1. /\ wire' \in [Requests -> {"none", "new", "open", "idle", "closed"}] /\ server' = server
      /\ wire' = wire
      /\ wire'[r] = "open" => g.answer = "none"
      /\ server \in {"closed", "ended"} => \A q \in Requests : wire'[q] \in {"none", "closed"}
  BY DEF ApiInv, WireFits
<1> QED BY <1>1, HandlerStep

LEMMA ConnectKeeps ==
    ASSUME ApiInv, NEW r \in Requests, Connect(r)
    PROVE  ApiInv'
<1>1. PICK h : h = handler[r]
  OBVIOUS
<1>2. PICK g : g = Connected(h)
  OBVIOUS
<1>3. HandlerFits(h) /\ h.stage = "connecting" /\ IsConnectionFree /\ UNCHANGED <<wire, server>>
  BY <1>1 DEF Connect, ApiInv
<1>4. HandlerFits(g) /\ ~h.changed /\ ~Repeats(g) /\ g.failed = "no" /\ g.answer = h.answer
  BY <1>2, <1>3, ConnectFits
<1>5. Update(r, g)
  BY <1>1, <1>2 DEF Connect, Connected
<1> QED BY <1>1, <1>3, <1>4, <1>5, UnseenStep

\* A step that settles the use case.
Settles(h, connected, outcome, changed, failed) ==
    /\ ~connected
    /\ outcome \in {"accepted", "rejected", "threw"}
    /\ failed \in {"no", "database", "closed"}
    /\ outcome = "threw" <=> failed # "no"
    /\ outcome = "rejected" => ~changed
    /\ outcome = "accepted" /\ h.route \in {"issue", "consume", "edit"} => changed
    /\ outcome = "accepted" /\ h.route \in {"send", "delete"} => changed \/ Done(h.route)
    /\ failed = "closed" => server \in {"closed", "ended"}

LEMMA SettledKeeps ==
    ASSUME ApiInv, NEW r \in Requests, NEW h, h = handler[r], h.stage \in {"connecting", "working"},
           NEW connected, NEW changed, NEW outcome, NEW failed,
           Settles(h, connected, outcome, changed, failed),
           Update(r, Settled(h, connected, outcome, changed, failed)), UNCHANGED <<wire, server>>
    PROVE  ApiInv'
<1>1. PICK g : g = Settled(h, connected, outcome, changed, failed)
  OBVIOUS
<1>2. HandlerFits(h)
  BY DEF ApiInv
<1>3. /\ HandlerFits(g) /\ ~h.changed /\ ~g.connected /\ g.route = h.route
      /\ g.changed = changed /\ g.failed = failed /\ g.answer = h.answer
      /\ Repeats(g) => h.route \in {"send", "delete"} /\ outcome = "accepted"
  BY <1>1, <1>2, SettleFits DEF Settles
<1>4. /\ Repeats(g) => g.changed \/ Done(g.route)
      /\ g.failed = "closed" => server \in {"closed", "ended"}
  BY <1>3 DEF Settles
<1>5. Update(r, g)
  BY <1>1
<1> QED BY <1>3, <1>4, <1>5, UnseenStep

LEMMA CannotConnectKeeps ==
    ASSUME ApiInv, NEW r \in Requests, CannotConnect(r)
    PROVE  ApiInv'
<1>1. PICK h : h = handler[r]
  OBVIOUS
<1>2. PICK failed : failed = IF server \in {"up", "closing"} THEN "database" ELSE "closed"
  OBVIOUS
<1>3. HandlerFits(h) /\ h.stage = "connecting" /\ UNCHANGED <<wire, server>>
  BY <1>1 DEF CannotConnect, ApiInv
<1>4. ~h.connected /\ ~h.changed
  BY <1>3 DEF HandlerFits, StageFits, Underway
<1>5. /\ failed \in {"database", "closed"}
      /\ failed = "closed" => server \in {"closed", "ended"}
  BY <1>2 DEF ApiInv, WireFits
<1>6. Update(r, Settled(h, h.connected, "threw", h.changed, failed))
  <2>1. [h EXCEPT !.stage = "settled", !.outcome = "threw", !.failed = failed]
            = Settled(h, h.connected, "threw", h.changed, failed)
    BY <1>3 DEF Settled, HandlerFits, HandlerTypes
  <2>2. Update(r, [h EXCEPT !.stage = "settled", !.outcome = "threw", !.failed = failed])
    BY <1>1, <1>2 DEF CannotConnect
  <2> QED BY <2>1, <2>2
<1>7. Settles(h, h.connected, "threw", h.changed, failed)
  BY <1>4, <1>5 DEF Settles
<1> QED BY <1>1, <1>3, <1>6, <1>7, SettledKeeps

LEMMA RejectAtOnceKeeps ==
    ASSUME ApiInv, NEW r \in Requests, RejectAtOnce(r)
    PROVE  ApiInv'
<1>1. PICK h : h = handler[r]
  OBVIOUS
<1>2. HandlerFits(h) /\ h.stage = "connecting" /\ UNCHANGED <<wire, server>>
  BY <1>1 DEF RejectAtOnce, ApiInv
<1>3. ~h.connected /\ ~h.changed /\ h.failed = "no"
  BY <1>2 DEF HandlerFits, StageFits, Underway
<1>4. Update(r, Settled(h, h.connected, "rejected", h.changed, "no"))
  <2>1. [h EXCEPT !.stage = "settled", !.outcome = "rejected"]
            = Settled(h, h.connected, "rejected", h.changed, "no")
    BY <1>2, <1>3 DEF Settled, HandlerFits, HandlerTypes
  <2>2. Update(r, [h EXCEPT !.stage = "settled", !.outcome = "rejected"])
    BY <1>1 DEF RejectAtOnce
  <2> QED BY <2>1, <2>2
<1>5. Settles(h, h.connected, "rejected", h.changed, "no")
  BY <1>3 DEF Settles
<1> QED BY <1>1, <1>2, <1>4, <1>5, SettledKeeps

Worked(h, s) ==
    [h EXCEPT !.stage = "settled", !.connected = FALSE, !.outcome = s[1], !.changed = s[2]]

LEMMA WorkKeeps ==
    ASSUME ApiInv, NEW r \in Requests, Work(r)
    PROVE  ApiInv'
<1> DEFINE h == handler[r]
<1>1. h = handler[r]
  OBVIOUS
<1>2. h.stage = "working" /\ UNCHANGED <<wire, server>>
  BY Zenon DEF Work
<1>3. \/ \E s \in Settlements(h) : Update(r, Worked(h, s))
      \/ h.at < Len(h.work) /\ Update(r, NextUnit(h))
  BY Zenon DEF Work, NextUnit, Worked
<1> HIDE DEF h
<1>4. HandlerFits(h)
  BY <1>1 DEF ApiInv
<1>5. ~h.changed /\ h.failed = "no"
  BY <1>2, <1>4 DEF HandlerFits, StageFits, Underway
<1>6. ASSUME NEW s \in Settlements(h), Update(r, Worked(h, s))
      PROVE  ApiInv'
  <2>1. PICK outcome, changed : outcome = s[1] /\ changed = s[2]
    OBVIOUS
  <2>2. Worked(h, s) = Settled(h, FALSE, outcome, changed, "no")
    BY <1>4, <1>5, <2>1 DEF Settled, Worked, HandlerFits, HandlerTypes
  <2>3. Update(r, Settled(h, FALSE, outcome, changed, "no"))
    BY <1>6, <2>2
  <2>4. \/ outcome = "rejected" /\ changed = FALSE
        \/ outcome = "accepted" /\ changed = TRUE
        \/ /\ outcome = "accepted" /\ changed = FALSE
           /\ h.route \in StreamRoutes \/ (h.route \in {"send", "delete"} /\ Done(h.route))
    BY <1>2, <1>4, <2>1, SettlementProperties
  <2>5. Settles(h, FALSE, outcome, changed, "no")
    BY <2>4 DEF Settles, StreamRoutes
  <2> QED BY <1>1, <1>2, <2>3, <2>5, SettledKeeps
<1>7. CASE h.at < Len(h.work) /\ Update(r, NextUnit(h))
  <2>1. PICK g : g = NextUnit(h)
    OBVIOUS
  <2>2. /\ HandlerFits(g) /\ ~h.changed /\ ~g.connected /\ ~Repeats(g)
        /\ g.failed = "no" /\ g.answer = h.answer
    BY <1>2, <1>4, <1>7, <2>1, NextUnitFits
  <2>3. Update(r, g)
    BY <1>7, <2>1
  <2> QED BY <1>1, <1>2, <2>2, <2>3, UnseenStep
<1> QED BY <1>3, <1>6, <1>7

Failed(h, s) ==
    [h EXCEPT !.stage = "settled", !.connected = FALSE, !.outcome = "threw",
              !.changed = s[2], !.failed = "database"]

LEMMA FailKeeps ==
    ASSUME ApiInv, NEW r \in Requests, Fail(r)
    PROVE  ApiInv'
<1> DEFINE h == handler[r]
<1>1. h = handler[r]
  OBVIOUS
<1>2. h.stage = "working" /\ UNCHANGED <<wire, server>>
  BY Zenon DEF Fail
<1>3. PICK s : Update(r, Failed(h, s))
  BY Zenon DEF Fail, Failed
<1> HIDE DEF h
<1>4. HandlerFits(h)
  BY <1>1 DEF ApiInv
<1>5. PICK changed : changed = s[2]
  OBVIOUS
<1>6. Failed(h, s) = Settled(h, FALSE, "threw", changed, "database")
  BY <1>4, <1>5 DEF Settled, Failed, HandlerFits, HandlerTypes
<1>7. Update(r, Settled(h, FALSE, "threw", changed, "database"))
  BY <1>3, <1>6
<1>8. Settles(h, FALSE, "threw", changed, "database")
  BY DEF Settles
<1> QED BY <1>1, <1>2, <1>7, <1>8, SettledKeeps

LEMMA RespondKeeps ==
    ASSUME ApiInv, NEW r \in Requests, Respond(r)
    PROVE  ApiInv'
<1>1. PICK h : h = handler[r]
  OBVIOUS
<1>2. PICK answer : answer = ResponseTo(h.outcome)
  OBVIOUS
<1>3. HandlerFits(h) /\ h.stage = "settled" /\ Reply(r, h, answer) /\ UNCHANGED server
  BY <1>1, <1>2 DEF Respond, ApiInv
<1>4. /\ h.outcome \in {"accepted", "rejected", "threw"}
      /\ h.outcome = "threw" <=> h.failed # "no"
      /\ h.outcome = "rejected" => ~h.changed
      /\ h.outcome = "accepted" /\ h.route \in {"issue", "consume", "edit"} => h.changed
  BY <1>3 DEF HandlerFits, StageFits
<1>5. /\ answer \in {"ok", "rejected", "unavailable"}
      /\ answer = "ok" <=> h.outcome = "accepted"
      /\ answer = "rejected" <=> h.outcome = "rejected"
      /\ answer = "unavailable" <=> h.outcome = "threw"
  BY <1>2, <1>4 DEF ResponseTo
<1>6. answer = "ok" /\ h.route \in {"send", "delete"} => Repeats(h)
  BY <1>3, <1>5 DEF Repeats
<1>7. answer \in Answers /\ (answer \in Refusals => answer = "rejected")
  BY <1>5 DEF Answers, Refusals
<1>8. answer \in Refusals \cup {"ok"} => h.failed = "no"
  BY <1>4, <1>5, <1>7
<1> QED BY <1>1, <1>3, <1>4, <1>5, <1>6, <1>7, <1>8, ReplyKeeps

\* The steps of the connections and of the process.
LEMMA ServerKeeps ==
    ASSUME ApiInv,
           \/ \E r \in Requests : Accept(r) \/ Abandon(r) \/ CloseIdle(r)
           \/ Shutdown \/ CloseDatabase \/ Exit
    PROVE  ApiInv'
<1> USE DEF ApiInv, WireFits
<1>1. ASSUME NEW r \in Requests, Accept(r) \/ Abandon(r) \/ CloseIdle(r) PROVE ApiInv'
  <2>1. /\ handler' = handler /\ server' = server
        /\ wire' \in [Requests -> {"none", "new", "open", "idle", "closed"}]
        /\ \A q \in Requests : wire'[q] = "open" => wire[q] = "open"
        /\ server \in {"closed", "ended"} => \A q \in Requests : wire'[q] \in {"none", "closed"}
    BY <1>1 DEF Accept, Abandon, CloseIdle
  <2> QED BY <2>1, WireStep
<1>2. CASE Shutdown
  <2>1. /\ handler' = handler /\ server' = "closing" /\ server = "up"
        /\ wire' \in [Requests -> {"none", "new", "open", "idle", "closed"}]
        /\ \A q \in Requests : wire'[q] = "open" => wire[q] = "open"
    BY <1>2 DEF Shutdown
  <2> QED BY <2>1, WireStep
<1>3. CASE CloseDatabase
  <2>1. /\ handler' = handler /\ server' = "closed" /\ server = "closing" /\ wire' = wire
        /\ \A q \in Requests : wire'[q] \in {"none", "closed"}
    BY <1>3 DEF CloseDatabase
  <2> QED BY <2>1, WireStep
<1>4. CASE Exit
  <2>1. handler' = handler /\ server' = "ended" /\ server = "closed" /\ wire' = wire
    BY <1>4 DEF Exit
  <2> QED BY <2>1, WireStep
<1> QED BY <1>1, <1>2, <1>3, <1>4

LEMMA InitFits == ASSUME Init PROVE ApiInv
<1>1. \A r \in Requests : handler[r] = NoHandler /\ wire[r] = "none"
  BY DEF Init
<1>2. \A r \in Requests : HandlerFits(handler[r]) /\ ~Repeats(handler[r])
  BY <1>1, NoHandlerFits
<1>3. InUse = {}
  BY <1>1 DEF InUse, NoHandler
<1>4. PoolFits
  BY <1>3, FS_EmptySet, PoolAssumption DEF PoolFits
<1>5. WireFits
  BY <1>1 DEF Init, WireFits, NoHandler
<1>6. handler = [r \in Requests |-> handler[r]]
  BY DEF Init
<1> QED BY <1>2, <1>4, <1>5, <1>6 DEF ApiInv

LEMMA NextKeeps == ASSUME ApiInv, [Next]_vars PROVE ApiInv'
<1>1. ASSUME NEW r \in Requests, Step(r) PROVE ApiInv'
  BY <1>1, ArriveKeeps, CheckKeeps, ExpireKeeps, ConnectKeeps, CannotConnectKeeps,
     RejectAtOnceKeeps, WorkKeeps, FailKeeps, RespondKeeps, ServerKeeps DEF Step
<1>2. CASE Shutdown \/ CloseDatabase \/ Exit
  BY <1>2, ServerKeeps
<1>3. CASE UNCHANGED vars
  <2>1. handler' = handler /\ wire' = wire /\ server' = server
    BY <1>3 DEF vars
  <2> QED BY <2>1, WireStep DEF ApiInv, WireFits
<1> QED BY <1>1, <1>2, <1>3 DEF Next

-----------------------------------------------------------------------------
(***************************************************************************)
(* Theorems                                                                *)
(***************************************************************************)

\* The handlers of the chat API stay as described, at every await: what is told fits what
\* is done, the pool is not exceeded, and nobody waits for a process that has closed
\* its database.
THEOREM ApiInvariantHolds == Spec => []ApiInv
<1>1. Init => ApiInv
  BY InitFits
<1>2. ApiInv /\ [Next]_vars => ApiInv'
  BY NextKeeps
<1> QED BY <1>1, <1>2, PTL DEF Spec

LEMMA InvSuffices == ASSUME ApiInv PROVE AnswersAreSound
<1>1. \A r \in Requests :
         HandlerTypes(handler[r]) /\ StageFits(handler[r]) /\ AnswerFits(handler[r])
  BY DEF ApiInv, HandlerFits
<1>2. TypeOK
  <2>1. \A r \in Requests : IsHandler(handler[r])
    BY <1>1 DEF HandlerTypes, StageFits, IsHandler, Underway
  <2>2. Cardinality({r \in Requests : handler[r].connected}) <= MaxConnections
    BY DEF ApiInv, PoolFits, InUse
  <2> QED BY <2>1, <2>2 DEF TypeOK, ApiInv, WireFits
<1>3. AnswersTellTheTruth
  <2>1. \A r \in Requests : handler[r].answer = "ok" /\ handler[r].route \in {"send", "delete"}
           => Done(handler[r].route)
    BY DEF ApiInv, Repeats
  <2> QED BY <1>1, <2>1 DEF AnswersTellTheTruth, AnswerFits
<1>4. FailuresAreTold
  <2>1. ASSUME NEW h, HandlerTypes(h), AnswerFits(h), h.answer # "none", h.route \notin StreamRoutes
        PROVE  h.answer = "unavailable" <=> IsFailure(h)
    BY <2>1 DEF HandlerTypes, AnswerFits, IsFailure, Answers
  <2> QED BY <1>1, <2>1 DEF FailuresAreTold
<1>5. ShutdownFailsNobody
  BY <1>1 DEF ShutdownFailsNobody, AnswerFits
<1> QED BY <1>2, <1>3, <1>4, <1>5 DEF AnswersAreSound

\* What a client is told agrees with what was done, with what failed and with who shut
\* down, for any number of requests, any pool and any of the routes.
THEOREM AnswersStaySound == Spec => []AnswersAreSound
BY ApiInvariantHolds, InvSuffices, PTL

\* The answer of request q is not taken back: it stays until the request is over and
\* another one takes its place.
AnswerKept(q) ==
    handler[q].answer # "none" =>
        \/ handler'[q].answer = handler[q].answer
        \/ handler[q].stage = "over" /\ handler'[q].stage = "checking"

LEMMA AnswerStays ==
    ASSUME ApiInv, NEW r \in Requests, Step(r)
    PROVE  \A q \in Requests : AnswerKept(q)
<1> DEFINE h == handler[r]
<1>1. ASSUME NEW g, Update(r, g), h.answer # "none" => g.answer = h.answer
      PROVE  \A q \in Requests : AnswerKept(q)
  <2>1. handler'[r] = g /\ \A q \in Requests \ {r} : handler'[q] = handler[q]
    BY <1>1 DEF ApiInv, Update
  <2> QED BY <1>1, <2>1 DEF AnswerKept
<1>2. /\ h = [stage |-> h.stage, route |-> h.route, work |-> h.work, at |-> h.at,
              timer |-> h.timer, connected |-> h.connected, outcome |-> h.outcome,
              changed |-> h.changed, failed |-> h.failed, answer |-> h.answer]
      /\ wire[r] = "open" => h.answer = "none"
  BY DEF ApiInv, HandlerFits, HandlerTypes, WireFits
<1> HIDE DEF h
<1>4. \A w, answer : w # "open" => Replied(h, w, answer).answer = h.answer
  BY <1>2 DEF Replied, Ended
<1>5. \A check : Passed(h, check).answer = h.answer
  BY <1>2 DEF Passed
<1>6. Connected(h).answer = h.answer /\ NextUnit(h).answer = h.answer
  BY <1>2 DEF Connected, NextUnit
<1>7. \A s : Worked(h, s).answer = h.answer /\ Failed(h, s).answer = h.answer
  BY <1>2 DEF Worked, Failed
<1>8. \A outcome, failed :
         /\ [h EXCEPT !.stage = "settled", !.outcome = outcome, !.failed = failed].answer = h.answer
         /\ [h EXCEPT !.stage = "settled", !.outcome = outcome].answer = h.answer
  BY <1>2
<1> DEFINE Stays == \A q \in Requests : AnswerKept(q)
<1>9. ASSUME NEW answer, Reply(r, h, answer) PROVE Stays
  <2>1. Update(r, Replied(h, wire[r], answer))
    BY <1>9 DEF Reply, Replied
  <2>2. h.answer # "none" => Replied(h, wire[r], answer).answer = h.answer
    BY <1>2, <1>4
  <2> QED BY <1>1, <2>1, <2>2
<1> HIDE DEF Stays
<1>10. ASSUME NEW route, NEW work, Arrive(r, route, work) PROVE Stays
  <2>1. Update(r, Arrived(route, work)) /\ (h.stage = "none" \/ h.stage = "over")
    BY <1>10 DEF Arrive, Arrived, IsUnused, h
  <2>2. /\ handler'[r].stage = "checking"
        /\ \A q \in Requests \ {r} : handler'[q] = handler[q]
    BY <2>1 DEF ApiInv, Update, Arrived, NoHandler
  <2>3. h.stage = "none" => h.answer = "none"
    BY DEF ApiInv, HandlerFits, StageFits, NoHandler, h
  <2> QED BY <2>1, <2>2, <2>3 DEF Stays, AnswerKept, h
<1>11. CASE Check(r)
  <2>1. \/ \E answer : Reply(r, h, answer)
        \/ \E check : Update(r, Passed(h, check))
    BY <1>11, Zenon DEF Check, Passed, h
  <2> QED BY <1>1, <1>5, <1>9, <2>1 DEF Stays
<1>12. CASE Expire(r)
  <2>1. h.answer = "none" /\ Update(r, Expired(h))
    BY <1>2, <1>12 DEF Expire, Expired, h
  <2> QED BY <1>1, <2>1 DEF Stays
<1>13. CASE Connect(r)
  <2>1. Update(r, Connected(h))
    BY <1>13 DEF Connect, Connected, h
  <2> QED BY <1>1, <1>6, <2>1 DEF Stays
<1>14. CASE CannotConnect(r)
  <2>1. PICK failed :
          Update(r, [h EXCEPT !.stage = "settled", !.outcome = "threw", !.failed = failed])
    BY <1>14, Zenon DEF CannotConnect, h
  <2> QED BY <1>1, <1>8, <2>1 DEF Stays
<1>15. CASE RejectAtOnce(r)
  <2>1. Update(r, [h EXCEPT !.stage = "settled", !.outcome = "rejected"])
    BY <1>15 DEF RejectAtOnce, h
  <2> QED BY <1>1, <1>8, <2>1 DEF Stays
<1>16. CASE Work(r)
  <2>1. Update(r, NextUnit(h)) \/ \E s : Update(r, Worked(h, s))
    BY <1>16, Zenon DEF Work, NextUnit, Worked, h
  <2> QED BY <1>1, <1>6, <1>7, <2>1 DEF Stays
<1>17. CASE Fail(r)
  <2>1. \E s : Update(r, Failed(h, s))
    BY <1>17, Zenon DEF Fail, Failed, h
  <2> QED BY <1>1, <1>7, <2>1 DEF Stays
<1>18. CASE Respond(r)
  <2>1. Reply(r, h, ResponseTo(h.outcome))
    BY <1>18 DEF Respond, h
  <2> QED BY <1>9, <2>1 DEF Stays
<1>19. CASE Accept(r) \/ Abandon(r) \/ CloseIdle(r)
  BY <1>19 DEF Accept, Abandon, CloseIdle, Stays, AnswerKept
<1>20. ASSUME NEW route, NEW work, Arrive(r, route, work)
       PROVE  \A q \in Requests : AnswerKept(q)
  BY <1>10, <1>20 DEF Stays
<1> QED BY <1>11, <1>12, <1>13, <1>14, <1>15, <1>16, <1>17, <1>18, <1>19, <1>20 DEF Step

\* An answer is final: no handler that outlives its timeout, and no request that takes over
\* a connection, changes what a client was told, as long as nothing else takes the place
\* of its request, which is over by then.
THEOREM AnswersAreFinal == Spec => OneAnswer
<1> DEFINE Final == \A r \in Requests : AnswerKept(r)
<1>1. ApiInv /\ [Next]_vars => [Final]_vars
  <2> SUFFICES ASSUME ApiInv, Next PROVE Final
    OBVIOUS
  <2>1. CASE Shutdown \/ CloseDatabase \/ Exit
    BY <2>1 DEF Shutdown, CloseDatabase, Exit, AnswerKept
  <2> QED BY <2>1, AnswerStays DEF Next
<1>2. [](ApiInv) /\ [][Next]_vars => [][Final]_vars
  BY <1>1, PTL
<1>3. Spec => [][Final]_vars
  BY <1>2, ApiInvariantHolds, PTL DEF Spec
<1> QED BY <1>3 DEF OneAnswer, AnswerKept

-----------------------------------------------------------------------------
(***************************************************************************)
(* The rate limiter that the stream routes ask                             *)
(***************************************************************************)
\* Every limit alone is positive.
Limits ==
    /\ ActorCapacity \in Nat \ {0} /\ AddressCapacity \in Nat \ {0}
    /\ SyncCapacity \in Nat \ {0} /\ Window \in Nat \ {0} /\ Horizon \in Nat \ {0}

\* What a bucket may still admit, measured from any token it gave.
Stock(k) ==
    \A i \in DOMAIN admitted[k] :
        Units(k) + (Len(admitted[k]) - i + 1) * Window
            <= Capacity(k) * Window
                   + Capacity(k) * (now - admitted[k][i])

\* What a bucket admitted so far.
Bounded(k) ==
    \A i, j \in DOMAIN admitted[k] : i <= j =>
        (j - i + 1) * Window
            <= Capacity(k) * Window
                   + Capacity(k) * (admitted[k][j] - admitted[k][i])

\* What the time p that request r was told means: left alone, all of its buckets
\* hold a token at p, and one of them does not a millisecond before.
Kept(r, p) ==
    /\ p <= now => \A k \in r : Units(k) >= Window
    /\ p > now => /\ \A k \in r :
                        Units(k) + (p - now) * Capacity(k) >= Window
                  /\ \E k \in r :
                        Units(k) + (p - 1 - now) * Capacity(k) < Window

Told(r) == promised[r] # -1 => Kept(r, promised[r])

LimiterTypes ==
    /\ now \in 0..Horizon
    /\ DOMAIN buckets \subseteq Keys
    /\ \A k \in DOMAIN buckets :
          /\ buckets[k].units \in 0..(Capacity(k) * Window)
          /\ buckets[k].at \in 0..now
    /\ admitted \in [Keys -> Seq(0..Horizon)]
    /\ promised \in [Charges -> Nat \cup {-1}]

LimiterInv ==
    /\ LimiterTypes
    /\ \A k \in Keys : Stock(k) /\ Bounded(k)
    /\ \A r \in Charges : Told(r)

-----------------------------------------------------------------------------
LEMMA LimitsArePositive == Limits
BY LimitsAssumption DEF Limits

LEMMA ProductIsNat ==
    ASSUME NEW x \in Nat, NEW y \in Nat
    PROVE  x * y \in Nat /\ (y # 0 => x * y >= x)
  OBVIOUS

LEMMA RoundedUp ==
    ASSUME NEW x \in Nat, x > 0, NEW c \in Nat, c > 0, NEW q, q = (x + c - 1) \div c
    PROVE  q \in Nat /\ q > 0 /\ q * c >= x /\ (q - 1) * c < x
<1>1. DEFINE n == x + c - 1
<1>2. n \in Nat /\ n \div c \in Int
  OBVIOUS
<1>3. (n \div c) * c <= n /\ n < (n \div c) * c + c
  OBVIOUS
<1> QED BY <1>2, <1>3

LEMMA Elements ==
    ASSUME NEW S, NEW s \in Seq(S)
    PROVE  /\ Len(s) \in Nat /\ DOMAIN s = 1..Len(s)
           /\ \A i \in 1..Len(s) : s[i] \in S
  OBVIOUS

LEMMA Appended ==
    ASSUME NEW S, NEW s \in Seq(S), NEW e
    PROVE  /\ DOMAIN Append(s, e) = 1..(Len(s) + 1) /\ Len(Append(s, e)) = Len(s) + 1
           /\ Append(s, e)[Len(s) + 1] = e
           /\ \A i \in 1..Len(s) : Append(s, e)[i] = s[i]
  OBVIOUS

\* The times at which a bucket gave its tokens.
LEMMA AdmittedAt ==
    ASSUME Limits, LimiterTypes, NEW k \in Keys
    PROVE  /\ admitted[k] \in Seq(0..Horizon)
           /\ Len(admitted[k]) \in Nat /\ DOMAIN admitted[k] = 1..Len(admitted[k])
           /\ \A i \in 1..Len(admitted[k]) : admitted[k][i] \in Int
<1>1. admitted[k] \in Seq(0..Horizon)
  BY DEF LimiterTypes
<1>2. /\ Len(admitted[k]) \in Nat /\ DOMAIN admitted[k] = 1..Len(admitted[k])
      /\ \A i \in 1..Len(admitted[k]) : admitted[k][i] \in 0..Horizon
  BY <1>1, Elements, Zenon
<1> QED BY <1>1, <1>2 DEF Limits

LEMMA RequestsAreKeys ==
    ASSUME NEW r \in Charges
    PROVE  /\ r \subseteq Keys
           /\ \E a, b : r = {a, b}
<1>1. CASE \E a \in Actors, i \in Addresses : r = PublicRead(a, i)
  <2>1. PICK a \in Actors, i \in Addresses : r = {<<"public-actor", a>>, <<"public-ip", i>>}
    BY <1>1 DEF PublicRead
  <2>2. \E x, y : r = {x, y}
    BY <2>1
  <2>3. <<"public-actor", a>> \in Keys /\ <<"public-ip", i>> \in Keys
    BY DEF Keys
  <2> QED BY <2>1, <2>2, <2>3
<1>2. CASE \E a \in Syncers : r = Sync(a)
  <2>1. PICK a \in Syncers : r = {<<"sync-actor", a>>}
    BY <1>2 DEF Sync
  <2>2. \E x, y : r = {x, y}
    <3>1. r = {<<"sync-actor", a>>, <<"sync-actor", a>>}
      BY <2>1
    <3> QED BY <3>1
  <2>3. <<"sync-actor", a>> \in Keys
    BY DEF Keys
  <2> QED BY <2>1, <2>2, <2>3
<1>3. (\E a \in Actors, i \in Addresses : r = PublicRead(a, i))
         \/ \E a \in Syncers : r = Sync(a)
  BY DEF Charges
<1> QED BY <1>1, <1>2, <1>3

LEMMA CapacityIsPositive ==
    ASSUME Limits, NEW k \in Keys
    PROVE  Capacity(k) \in Nat \ {0}
<1>1. k[1] = "public-actor" \/ k[1] = "public-ip" \/ k[1] = "sync-actor"
  BY DEF Keys
<1> QED BY <1>1 DEF Capacity, Limits

LEMMA UnitsFit ==
    ASSUME Limits, LimiterTypes, NEW k \in Keys
    PROVE  Units(k) \in 0..(Capacity(k) * Window)
<1>1. PICK C : C = Capacity(k) /\ C \in Nat \ {0}
  BY CapacityIsPositive
<1>2. PICK W \in Nat \ {0} : W = Window
  BY DEF Limits
<1>3. PICK F : F = C * W /\ F \in Nat
  BY <1>1, <1>2
<1>4. CASE k \notin DOMAIN buckets
  BY <1>1, <1>2, <1>3, <1>4 DEF Units
<1>5. CASE k \in DOMAIN buckets
  <2>1. PICK u, d : /\ u = buckets[k].units /\ u \in Nat
                    /\ d = now - buckets[k].at /\ d \in Nat
    BY <1>1, <1>2, <1>3, <1>5 DEF LimiterTypes
  <2>2. Units(k) = Least(F, u + d * C)
    BY <1>1, <1>2, <1>3, <1>5, <2>1 DEF Units
  <2>3. d * C \in Nat
    BY <1>1, <2>1
  <2> QED BY <1>1, <1>2, <1>3, <2>1, <2>2, <2>3 DEF Least
<1> QED BY <1>4, <1>5


\* A millisecond fills a bucket, and so does the end of a key that nobody used.
LEMMA TickFills ==
    ASSUME Limits, LimiterTypes, Tick, NEW k \in Keys
    PROVE  /\ now' = now + 1
           /\ Units(k)' = Least(Capacity(k) * Window,
                                                Units(k) + Capacity(k))
<1>1. PICK C : C = Capacity(k) /\ C \in Nat \ {0}
  BY CapacityIsPositive
<1>2. PICK W \in Nat \ {0} : W = Window
  BY DEF Limits
<1>3. PICK F : F = C * W /\ F \in Nat
  BY <1>1, <1>2
<1>4. /\ now' = now + 1 /\ now \in Nat
      /\ DOMAIN buckets' = {q \in DOMAIN buckets : now' - buckets[q].at < 2 * W}
      /\ \A q \in DOMAIN buckets' : buckets'[q] = buckets[q]
  BY <1>2 DEF Tick, Life, LimiterTypes
<1>5. CASE k \notin DOMAIN buckets
  <2>1. Units(k) = F /\ Units(k)' = F
    BY <1>1, <1>2, <1>3, <1>4, <1>5 DEF Units, Capacity
  <2> QED BY <1>1, <1>2, <1>3, <1>4, <2>1 DEF Least
<1>6. CASE k \in DOMAIN buckets
  <2>1. PICK u, d : /\ u = buckets[k].units /\ u \in Nat
                    /\ d = now - buckets[k].at /\ d \in Nat
    BY <1>1, <1>2, <1>3, <1>6 DEF LimiterTypes
  <2>2. Units(k) = Least(F, u + d * C)
    BY <1>1, <1>2, <1>3, <1>6, <2>1 DEF Units
  <2>3. now' - buckets[k].at = d + 1 /\ d * C \in Nat /\ (d + 1) * C = d * C + C
    <3>1. buckets[k].at \in Int
      BY <1>4, <1>6 DEF LimiterTypes
    <3>2. now' - buckets[k].at = d + 1
      BY <1>4, <2>1, <3>1
    <3>3. d * C \in Nat /\ (d + 1) * C = d * C + C
      BY <1>1, <2>1
    <3> QED BY <3>2, <3>3
  <2>4. CASE k \in DOMAIN buckets'
    <3>1. Units(k)' = Least(F, u + (d + 1) * C)
      BY <1>1, <1>2, <1>3, <1>4, <2>1, <2>3, <2>4 DEF Units, Capacity
    <3> QED BY <1>1, <1>2, <1>3, <1>4, <2>1, <2>2, <2>3, <3>1 DEF Least
  <2>5. CASE k \notin DOMAIN buckets'
    <3>1. Units(k)' = F
      BY <1>1, <1>2, <1>3, <2>5 DEF Units, Capacity
    <3>2. d >= W
      BY <1>2, <1>4, <1>6, <2>1, <2>3, <2>5
    <3>3. d * C >= F
      BY <1>1, <1>2, <1>3, <2>1, <3>2
    <3> QED BY <1>1, <1>2, <1>3, <1>4, <2>1, <2>2, <2>3, <3>1, <3>3 DEF Least
  <2> QED BY <2>4, <2>5
<1> QED BY <1>5, <1>6

\* The script of Redis charges the buckets of the request when all can pay, and
\* leaves what the others hold.
LEMMA RunCharges ==
    ASSUME Limits, LimiterTypes, NEW r \in Charges, Run(r), now' = now,
           NEW k \in Keys
    PROVE  Units(k)' = IF k \in r /\ Allowed(r) THEN Units(k) - Window
                                                                ELSE Units(k)
<1>1. PICK C : C = Capacity(k) /\ C \in Nat \ {0}
  BY CapacityIsPositive
<1>2. PICK W \in Nat \ {0} : W = Window
  BY DEF Limits
<1>3. PICK F : F = C * W /\ F \in Nat
  BY <1>1, <1>2
<1>4. PICK U : U = Units(k) /\ U \in 0..F
  BY <1>1, <1>2, <1>3, UnitsFit
<1>5. /\ DOMAIN buckets' = DOMAIN buckets \cup r
      /\ \A q \in DOMAIN buckets' :
            buckets'[q] = IF q \in r THEN [units |-> Units(q) - Taken(r, q),
                                           at |-> now]
                                     ELSE buckets[q]
  BY DEF Run
<1>6. CASE k \notin r
  <2>1. k \in DOMAIN buckets' <=> k \in DOMAIN buckets
    BY <1>5, <1>6
  <2>2. k \in DOMAIN buckets => buckets'[k] = buckets[k]
    BY <1>5, <1>6
  <2>3. Units(k)' = Units(k)
    <3>1. CASE k \notin DOMAIN buckets
      <4>1. Units(k)' = C * Window /\ Units(k) = C * Window
        BY <1>1, <2>1, <3>1 DEF Units, Capacity
      <4> QED BY <4>1
    <3>2. CASE k \in DOMAIN buckets
      <4>1. /\ Units(k)' = Least(C * Window,
                                                buckets[k].units + (now - buckets[k].at) * C)
            /\ Units(k) = Least(C * Window,
                                                buckets[k].units + (now - buckets[k].at) * C)
        BY <1>1, <2>1, <2>2, <3>2 DEF Units, Capacity
      <4> QED BY <4>1
    <3> QED BY <3>1, <3>2
  <2> QED BY <1>6, <2>3
<1>7. CASE k \in r
  <2>1. PICK c : c = Taken(r, k) /\ c = IF Allowed(r) THEN W ELSE 0
    BY <1>2 DEF Taken, Cost
  <2>2. buckets'[k].units = U - c /\ buckets'[k].at = now /\ k \in DOMAIN buckets'
    <3>1. k \in DOMAIN buckets'
      BY <1>5, <1>7
    <3>2. buckets'[k] = [units |-> U - c, at |-> now]
      BY <1>4, <1>5, <1>7, <2>1, <3>1
    <3> QED BY <3>1, <3>2
  <2>3. Units(k)' = Least(F, (U - c) + (now - now) * C)
    BY <1>1, <1>2, <1>3, <2>2 DEF Units, Capacity
  <2>4. (now - now) * C = 0
    BY <1>1 DEF LimiterTypes
  <2>5. c <= U /\ c \in Nat
    BY <1>2, <1>4, <1>7, <2>1 DEF Allowed, Cost
  <2>6. Units(k)' = U - c
    BY <1>3, <1>4, <2>3, <2>4, <2>5 DEF Least
  <2> QED BY <1>2, <1>4, <1>7, <2>1, <2>6
<1> QED BY <1>6, <1>7


LEMMA TickKeepsStock ==
    ASSUME Limits, LimiterTypes, Tick, NEW k \in Keys, Stock(k)
    PROVE  Stock(k)'
<1>1. PICK C : C = Capacity(k) /\ C \in Nat \ {0}
  BY CapacityIsPositive
<1>2. PICK W \in Nat \ {0} : W = Window
  BY DEF Limits
<1>3. PICK F : F = C * W /\ F \in Nat
  BY <1>1, <1>2
<1>4. PICK U : U = Units(k) /\ U \in 0..F
  BY <1>1, <1>2, <1>3, UnitsFit
<1>5. PICK V : V = Units(k)' /\ V <= U + C /\ V \in Int
  <2>1. PICK V : V = Units(k)' /\ V = Least(F, U + C)
    BY <1>1, <1>2, <1>3, <1>4, TickFills
  <2>2. V <= U + C /\ V \in Int
    BY <1>1, <1>3, <1>4, <2>1 DEF Least
  <2> QED BY <2>1, <2>2
<1>6. now' = now + 1 /\ admitted' = admitted /\ now \in Int
  BY DEF Tick, LimiterTypes
<1>7. /\ Len(admitted[k]) \in Nat /\ DOMAIN admitted[k] = 1..Len(admitted[k])
      /\ \A i \in 1..Len(admitted[k]) : admitted[k][i] \in Int
  BY AdmittedAt
<1>8. ASSUME NEW i \in DOMAIN admitted[k]
      PROVE  V + (Len(admitted[k]) - i + 1) * W
                <= F + C * (now' - admitted[k][i])
  <2>1. PICK M : M = (Len(admitted[k]) - i + 1) * W /\ M \in Int
    BY <1>2, <1>7
  <2>2. PICK a : a = admitted[k][i] /\ a \in Int
    BY <1>7, <1>8
  <2>3. PICK G : G = C * (now - a) /\ G \in Int
    BY <1>1, <1>6, <2>2
  <2>4. C * (now' - a) = G + C
    BY <1>1, <1>6, <2>2, <2>3
  <2>5. U + M <= F + G
    BY <1>1, <1>2, <1>3, <1>4, <2>1, <2>2, <2>3 DEF Stock
  <2>6. V + M <= F + (G + C)
    <3>1. U \in Int /\ C \in Int /\ F \in Int /\ G \in Int /\ M \in Int /\ V \in Int
      BY <1>1, <1>3, <1>4, <1>5, <2>1, <2>3
    <3>2. V <= U + C
      BY <1>5
    <3> QED BY <2>5, <3>1, <3>2
  <2> QED BY <2>1, <2>2, <2>4, <2>6
<1>9. Capacity(k)' = C
  BY <1>1 DEF Capacity
<1>10. Stock(k)' = \A i \in DOMAIN admitted'[k] :
          Units(k)' + (Len(admitted'[k]) - i + 1) * Window
            <= Capacity(k)' * Window + Capacity(k)' * (now' - admitted'[k][i])
  BY DEF Stock
<1> QED BY <1>1, <1>2, <1>3, <1>5, <1>6, <1>8, <1>9, <1>10

LEMMA TickKeepsPromise ==
    ASSUME Limits, LimiterTypes, Tick, NEW r \in Charges, NEW p \in Nat,
           Kept(r, p)
    PROVE  Kept(r, p)'
<1>1. now' = now + 1 /\ now \in Int
  BY DEF Tick, LimiterTypes
<1>2. PICK W \in Nat \ {0} : W = Window
  BY DEF Limits
<1>3. ASSUME NEW k \in r
      PROVE  \E C \in Nat \ {0}, U \in Nat, V \in Nat :
                /\ C = Capacity(k) /\ C = Capacity(k)'
                /\ U = Units(k) /\ V = Units(k)'
                /\ (V = U + C \/ (V <= U + C /\ V >= W))
                /\ V >= U
  <2>1. k \in Keys
    BY <1>3, RequestsAreKeys
  <2>2. PICK C : C = Capacity(k) /\ C \in Nat \ {0}
    BY <2>1, CapacityIsPositive
  <2>3. PICK F : F = C * W /\ F \in Nat /\ F >= W
    BY <1>2, <2>2
  <2>4. PICK U : U = Units(k) /\ U \in 0..F
    BY <1>2, <2>1, <2>2, <2>3, UnitsFit
  <2>5. PICK V : V = Units(k)' /\ V = Least(F, U + C)
    BY <1>2, <2>1, <2>2, <2>3, <2>4, TickFills
  <2>6. V \in Nat /\ (V = U + C \/ (V <= U + C /\ V >= W)) /\ V >= U /\ U \in Nat
    BY <1>2, <2>2, <2>3, <2>4, <2>5 DEF Least
  <2>7. C = Capacity(k)'
    BY <2>2 DEF Capacity
  <2> QED BY <2>2, <2>4, <2>5, <2>6, <2>7
<1>4. CASE p <= now
  <2>1. ASSUME NEW k \in r  PROVE Units(k)' >= Window
    <3>1. PICK U \in Nat, V \in Nat : U = Units(k) /\ V = Units(k)' /\ V >= U
      BY <1>3, <2>1
    <3>2. U >= W
      BY <1>2, <1>4, <2>1, <3>1 DEF Kept
    <3> QED BY <1>2, <3>1, <3>2
  <2>2. ~(p > now')
    BY <1>1, <1>4
  <2> QED BY <2>1, <2>2 DEF Kept
<1>5. CASE p = now + 1
  <2>1. ASSUME NEW k \in r  PROVE Units(k)' >= Window
    <3>1. PICK C \in Nat \ {0}, U \in Nat, V \in Nat :
             /\ C = Capacity(k)
             /\ U = Units(k) /\ V = Units(k)'
             /\ (V = U + C \/ (V <= U + C /\ V >= W))
      BY <1>3, <2>1
    <3>2. U + (p - now) * C >= W
      BY <1>1, <1>2, <1>5, <2>1, <3>1 DEF Kept
    <3>3. (p - now) * C = C
      BY <1>1, <1>5, <3>1
    <3> QED BY <1>2, <3>1, <3>2, <3>3
  <2>2. ~(p > now')
    BY <1>1, <1>5
  <2> QED BY <2>1, <2>2 DEF Kept
<1>6. CASE p > now + 1
  <2>1. ASSUME NEW k \in r
        PROVE  /\ Units(k)' + (p - now') * Capacity(k)' >= Window
               /\ Units(k) + (p - 1 - now) * Capacity(k) < Window
                    => Units(k)' + (p - 1 - now') * Capacity(k)' < Window
    <3>1. PICK C \in Nat \ {0}, U \in Nat, V \in Nat :
             /\ C = Capacity(k) /\ C = Capacity(k)'
             /\ U = Units(k) /\ V = Units(k)'
             /\ (V = U + C \/ (V <= U + C /\ V >= W))
      BY <1>3, <2>1
    <3>2. PICK D : D = (p - 1 - now') * C /\ D \in Nat
      <4>1. p - 1 - now' \in Nat
        BY <1>1, <1>6
      <4> QED BY <3>1, <4>1
    <3>3. (p - now') * C = D + C /\ (p - now) * C = D + C + C /\ (p - 1 - now) * C = D + C
      BY <1>1, <3>1, <3>2
    <3>4. U + (p - now) * C >= W
      BY <1>1, <1>2, <1>6, <2>1, <3>1 DEF Kept
    <3>5. /\ V + (D + C) >= W
          /\ U + (D + C) < W => V + D < W
      BY <1>2, <3>1, <3>2, <3>3, <3>4
    <3> QED BY <1>2, <3>1, <3>2, <3>3, <3>5
  <2>2. \E k \in r : Units(k) + (p - 1 - now) * Capacity(k) < Window
    BY <1>1, <1>6 DEF Kept
  <2>3. ~(p <= now')
    BY <1>1, <1>6
  <2> QED BY <2>1, <2>2, <2>3 DEF Kept
<1> QED BY <1>1, <1>4, <1>5, <1>6


LEMMA TickKeeps ==
    ASSUME Limits, LimiterInv, Tick
    PROVE  LimiterInv'
<1>1. LimiterTypes
  BY DEF LimiterInv
<1>2. LimiterTypes'
  <2>1. now' \in 0..Horizon /\ now' = now + 1 /\ now \in Nat
    BY <1>1 DEF Limits, LimiterTypes, Tick
  <2>2. ASSUME NEW k \in DOMAIN buckets'
        PROVE  /\ k \in Keys /\ buckets'[k].at \in 0..now'
               /\ buckets'[k].units \in 0..(Capacity(k) * Window)
    <3>1. k \in DOMAIN buckets /\ buckets'[k] = buckets[k]
      BY <2>2 DEF Tick
    <3>2. /\ k \in Keys /\ buckets[k].at \in 0..now
          /\ buckets[k].units \in 0..(Capacity(k) * Window)
      BY <1>1, <3>1 DEF LimiterTypes
    <3> QED BY <2>1, <3>1, <3>2
  <2>3. /\ admitted' \in [Keys -> Seq(0..Horizon)]
        /\ promised' \in [Charges -> Nat \cup {-1}]
    BY <1>1 DEF LimiterTypes, Tick
  <2>4. \A k : Capacity(k)' = Capacity(k)
    BY DEF Capacity
  <2>5. /\ DOMAIN buckets' \subseteq Keys
        /\ \A k \in DOMAIN buckets' : /\ buckets'[k].units \in 0..(Capacity(k)' * Window)
                                      /\ buckets'[k].at \in 0..now'
    BY <2>2, <2>4
  <2> QED BY <2>1, <2>3, <2>5 DEF LimiterTypes
<1>3. ASSUME NEW k \in Keys  PROVE Stock(k)' /\ Bounded(k)'
  <2>1. Stock(k)'
    BY <1>1, TickKeepsStock DEF LimiterInv
  <2>2. Bounded(k)'
    BY DEF LimiterInv, Bounded, Tick, Capacity
  <2> QED BY <2>1, <2>2
<1>4. ASSUME NEW r \in Charges  PROVE Told(r)'
  <2>1. CASE promised[r] = -1
    BY <2>1 DEF Told, Tick
  <2>2. CASE promised[r] # -1
    <3>1. PICK p : p = promised[r] /\ p = promised'[r] /\ p \in Nat
      BY <1>1, <2>2 DEF Tick, LimiterTypes
    <3>2. Kept(r, p)
      BY <2>2, <3>1 DEF LimiterInv, Told
    <3>3. Kept(r, p)'
      BY <1>1, <3>1, <3>2, TickKeepsPromise
    <3> QED BY <3>1, <3>3 DEF Told, Kept
  <2> QED BY <2>1, <2>2
<1>5. Keys' = Keys /\ Charges' = Charges
  OBVIOUS
<1> QED BY <1>2, <1>3, <1>4, <1>5 DEF LimiterInv

\* What a bucket gives, it had.
LEMMA RunKeepsStock ==
    ASSUME Limits, LimiterTypes, NEW r \in Charges, Run(r), now' = now,
           NEW k \in Keys, Stock(k), Bounded(k)
    PROVE  Stock(k)' /\ Bounded(k)'
<1>1. PICK C : C = Capacity(k) /\ C \in Nat \ {0} /\ C = Capacity(k)'
  BY CapacityIsPositive DEF Capacity
<1>2. PICK W \in Nat \ {0} : W = Window
  BY DEF Limits
<1>3. PICK F : F = C * W /\ F \in Nat /\ F >= W
  BY <1>1, <1>2
<1>4. PICK U : U = Units(k) /\ U \in 0..F
  BY <1>1, <1>2, <1>3, UnitsFit
<1>5. PICK s, n : /\ s = admitted[k] /\ s \in Seq(0..Horizon) /\ n = now /\ n \in Int
                  /\ Len(s) \in Nat /\ DOMAIN s = 1..Len(s)
                  /\ \A i \in 1..Len(s) : s[i] \in Int
  <2>1. now \in Int
    BY DEF LimiterTypes
  <2> QED BY <2>1, AdmittedAt
<1>6. CASE ~(k \in r /\ Allowed(r))
  <2>1. Units(k)' = U /\ admitted'[k] = s
    <3>1. Units(k)' = U
      BY <1>4, <1>6, RunCharges
    <3>2. admitted'[k] = s
      BY <1>5, <1>6 DEF Run
    <3> QED BY <3>1, <3>2
  <2>2. \A i \in DOMAIN s : U + (Len(s) - i + 1) * W <= F + C * (n - s[i])
    BY <1>1, <1>2, <1>3, <1>4, <1>5 DEF Stock
  <2>3. \A i, j \in DOMAIN s : i <= j => (j - i + 1) * W <= F + C * (s[j] - s[i])
    BY <1>1, <1>2, <1>3, <1>5 DEF Bounded
  <2>4. Stock(k)'
    BY <1>1, <1>2, <1>3, <1>5, <2>1, <2>2 DEF Stock
  <2>5. Bounded(k)'
    BY <1>1, <1>2, <1>3, <1>5, <2>1, <2>3 DEF Bounded
  <2> QED BY <2>4, <2>5
<1>7. CASE k \in r /\ Allowed(r)
  <2>1. Units(k)' = U - W
    BY <1>2, <1>4, <1>7, RunCharges
  <2>2. PICK z : z = admitted'[k] /\ z = Append(s, n)
    BY <1>5, <1>7 DEF Run
  <2>3. U >= W
    BY <1>2, <1>4, <1>7 DEF Allowed, Cost
  <2>4. /\ DOMAIN z = 1..(Len(s) + 1) /\ Len(z) = Len(s) + 1 /\ Len(s) \in Nat
        /\ z[Len(s) + 1] = n /\ \A i \in 1..Len(s) : z[i] = s[i] /\ s[i] \in Int
        /\ DOMAIN s = 1..Len(s)
    <3>1. /\ DOMAIN z = 1..(Len(s) + 1) /\ Len(z) = Len(s) + 1
          /\ z[Len(s) + 1] = n /\ \A i \in 1..Len(s) : z[i] = s[i]
      <4>1. /\ DOMAIN Append(s, n) = 1..(Len(s) + 1) /\ Len(Append(s, n)) = Len(s) + 1
            /\ Append(s, n)[Len(s) + 1] = n
            /\ \A i \in 1..Len(s) : Append(s, n)[i] = s[i]
        <5>1. PICK T : s \in Seq(T)
          BY <1>5
        <5> QED BY <5>1, Appended
      <4> QED BY <2>2, <4>1, Zenon
    <3> QED BY <1>5, <3>1
  <2>5. ASSUME NEW i \in 1..(Len(s) + 1)
        PROVE  (U - W) + (Len(z) - i + 1) * W <= F + C * (n - z[i])
    <3>1. CASE i = Len(s) + 1
      <4>1. PICK M : M = (Len(z) - i + 1) * W /\ M = W
        BY <1>2, <2>4, <3>1
      <4>2. PICK G : G = C * (n - z[i]) /\ G = 0
        BY <1>1, <1>5, <2>4, <3>1
      <4>3. (U - W) + M <= F + G
        <5>1. U \in Int /\ W \in Int /\ F \in Int /\ U <= F
          BY <1>2, <1>3, <1>4
        <5>2. M = W /\ G = 0
          BY <4>1, <4>2
        <5> QED BY <5>1, <5>2
      <4> QED BY <4>1, <4>2, <4>3
    <3>2. CASE i \in 1..Len(s)
      <4>1. U + (Len(s) - i + 1) * W <= F + C * (n - s[i])
        BY <1>1, <1>2, <1>3, <1>4, <1>5, <2>4, <3>2 DEF Stock
      <4>2. PICK M : M = (Len(s) - i + 1) * W /\ M \in Int
        BY <1>2, <2>4, <3>2
      <4>3. (Len(z) - i + 1) * W = M + W
        BY <1>2, <2>4, <3>2, <4>2
      <4>4. PICK G : G = C * (n - s[i]) /\ G \in Int /\ G = C * (n - z[i])
        <5>1. z[i] = s[i] /\ s[i] \in Int
          BY <2>4, <3>2
        <5>2. PICK d : d = n - s[i] /\ d = n - z[i] /\ d \in Int
          BY <1>1, <1>5, <5>1
        <5>3. C * d \in Int
          BY <1>1, <1>3, <5>2
        <5> QED BY <5>2, <5>3
      <4>5. U \in Int /\ W \in Int /\ F \in Int
        BY <1>2, <1>3, <1>4
      <4>6. U + M <= F + G
        BY <4>1, <4>2, <4>4
      <4>7. (U - W) + (M + W) <= F + G
        BY <4>2, <4>4, <4>5, <4>6
      <4> QED BY <4>3, <4>4, <4>7
    <3> QED BY <2>4, <3>1, <3>2
  <2>6. ASSUME NEW i \in 1..(Len(s) + 1), NEW j \in 1..(Len(s) + 1), i <= j
        PROVE  (j - i + 1) * W <= F + C * (z[j] - z[i])
    <3>1. CASE j = Len(s) + 1
      <4>1. (U - W) + (j - i + 1) * W <= F + C * (z[j] - z[i])
        BY <1>5, <2>4, <2>5, <3>1
      <4>2. PICK M : M = (j - i + 1) * W /\ M \in Int
        BY <1>2, <2>4
      <4>3. PICK G : G = C * (z[j] - z[i]) /\ G \in Int
        <5>1. z[Len(s) + 1] \in Int
          BY <1>5, <2>4
        <5>2. \A q \in 1..Len(s) : z[q] \in Int
          BY <2>4
        <5>3. i = Len(s) + 1 \/ i \in 1..Len(s)
          BY <2>4
        <5>4. z[i] \in Int /\ z[j] \in Int
          BY <3>1, <5>1, <5>2, <5>3
        <5> QED BY <1>1, <5>4
      <4>4. U \in Int /\ W \in Int /\ F \in Int
        BY <1>2, <1>3, <1>4
      <4> QED BY <2>3, <4>1, <4>2, <4>3, <4>4
    <3>2. CASE j \in 1..Len(s)
      <4>1. i \in 1..Len(s)
        BY <2>4, <2>6, <3>2
      <4>2. (j - i + 1) * W <= F + C * (s[j] - s[i])
        BY <1>1, <1>2, <1>3, <1>5, <2>4, <2>6, <3>2, <4>1 DEF Bounded
      <4> QED BY <2>4, <3>2, <4>1, <4>2
    <3> QED BY <2>4, <3>1, <3>2
  <2>7. Stock(k)'
    BY <1>1, <1>2, <1>3, <1>5, <2>1, <2>2, <2>4, <2>5 DEF Stock
  <2>8. Bounded(k)'
    BY <1>1, <1>2, <1>3, <1>5, <2>2, <2>4, <2>6 DEF Bounded
  <2> QED BY <2>7, <2>8
<1> QED BY <1>6, <1>7


LEMMA RunKeepsTypes ==
    ASSUME Limits, LimiterTypes, NEW r \in Charges, Run(r), now' = now,
           promised' \in [Charges -> Nat \cup {-1}]
    PROVE  LimiterTypes'
<1>1. \A k : Capacity(k)' = Capacity(k)
  BY DEF Capacity
<1>2. DOMAIN buckets' \subseteq Keys
  BY RequestsAreKeys DEF Run, LimiterTypes
<1>3. ASSUME NEW k \in DOMAIN buckets'
      PROVE  /\ buckets'[k].at \in 0..now
             /\ buckets'[k].units \in 0..(Capacity(k) * Window)
  <2>1. CASE k \notin r
    <3>1. buckets'[k] = buckets[k] /\ k \in DOMAIN buckets
      BY <1>3, <2>1 DEF Run
    <3> QED BY <3>1 DEF LimiterTypes
  <2>2. CASE k \in r
    <3>1. PICK F : F = Capacity(k) * Window /\ F \in Nat
      BY <1>2, <1>3, CapacityIsPositive DEF Limits
    <3>2. PICK U : U = Units(k) /\ U \in 0..F
      BY <1>2, <1>3, <3>1, UnitsFit
    <3>3. PICK c : c = Taken(r, k) /\ c \in 0..U
      <4>1. Window \in Nat
        BY DEF Limits
      <4> QED BY <2>2, <3>1, <3>2, <4>1 DEF Taken, Allowed, Cost
    <3>4. buckets'[k] = [units |-> U - c, at |-> now]
      BY <1>3, <2>2, <3>2, <3>3 DEF Run
    <3>5. now \in 0..now /\ U - c \in 0..F
      BY <3>1, <3>2, <3>3 DEF LimiterTypes
    <3> QED BY <3>1, <3>4, <3>5
  <2> QED BY <2>1, <2>2
<1>4. admitted' \in [Keys -> Seq(0..Horizon)]
  <2>1. ASSUME NEW k \in Keys  PROVE Append(admitted[k], now) \in Seq(0..Horizon)
    <3>1. PICK T : T = 0..Horizon /\ admitted[k] \in Seq(T) /\ now \in T
      BY DEF LimiterTypes
    <3>2. Append(admitted[k], now) \in Seq(T)
      BY <3>1
    <3> QED BY <3>1, <3>2
  <2>2. admitted' = [k \in Keys |-> IF k \in r /\ Allowed(r)
                                              THEN Append(admitted[k], now) ELSE admitted[k]]
    BY DEF Run
  <2>3. \A k \in Keys : admitted[k] \in Seq(0..Horizon)
    BY DEF LimiterTypes
  <2> QED BY <2>1, <2>2, <2>3
<1> QED BY <1>1, <1>2, <1>3, <1>4 DEF LimiterTypes

\* What a request was told stays true of it when its buckets give nothing.
LEMMA RunKeepsPromise ==
    ASSUME Limits, LimiterTypes, NEW r \in Charges, Run(r), now' = now,
           NEW q \in Charges, NEW p, Kept(q, p), ~Allowed(r) \/ q \cap r = {}
    PROVE  Kept(q, p)'
<1>1. ASSUME NEW k \in q
      PROVE  Units(k)' = Units(k) /\ Capacity(k)' = Capacity(k)
  <2>1. k \in Keys /\ ~(k \in r /\ Allowed(r))
    BY <1>1, RequestsAreKeys
  <2> QED BY <2>1, RunCharges DEF Capacity
<1>2. /\ p <= now => \A k \in q : Units(k)' >= Window
      /\ p > now => /\ \A k \in q :
                         Units(k)' + (p - now) * Capacity(k)' >= Window
                    /\ \E k \in q :
                         Units(k)' + (p - 1 - now) * Capacity(k)' < Window
  BY <1>1 DEF Kept
<1> QED BY <1>2 DEF Kept

\* The wait of a refused request: the longest that one of its buckets needs.
LEMMA WaitIsExact ==
    ASSUME Limits, LimiterTypes, NEW r \in Charges, ~Allowed(r)
    PROVE  Wait(r) \in Nat /\ Kept(r, now + Wait(r))
<1>1. PICK W \in Nat \ {0} : W = Window
  BY DEF Limits
<1>2. ASSUME NEW k \in r
      PROVE  \E C \in Nat \ {0}, U \in Nat, w \in Nat :
                /\ C = Capacity(k) /\ U = Units(k) /\ w = RetryAfter(k)
                /\ U + w * C >= W
                /\ w > 0 => U + (w - 1) * C < W
                /\ U < W => w > 0
  <2>1. k \in Keys
    BY <1>2, RequestsAreKeys
  <2>2. PICK C : C = Capacity(k) /\ C \in Nat \ {0}
    BY <2>1, CapacityIsPositive
  <2>3. PICK U : U = Units(k) /\ U \in Nat
    BY <1>1, <2>1, <2>2, UnitsFit
  <2>4. CASE U < W
    <3>1. PICK x : x = W - U /\ x \in Nat /\ x > 0
      BY <1>1, <2>3, <2>4
    <3>2. PICK w : w = RetryAfter(k) /\ w = (x + C - 1) \div C
      BY <1>1, <2>2, <2>3, <2>4, <3>1 DEF RetryAfter, Cost
    <3>3. w \in Nat /\ w > 0 /\ w * C >= x /\ (w - 1) * C < x
      <4>1. C \in Nat /\ C > 0
        BY <2>2
      <4> QED BY <3>1, <3>2, <4>1, RoundedUp, Zenon
    <3>4. PICK m, n : m = w * C /\ n = (w - 1) * C /\ m \in Int /\ n \in Int
      BY <2>2, <3>3
    <3>5. U + m >= W /\ U + n < W
      BY <1>1, <2>3, <3>1, <3>3, <3>4
    <3> QED BY <2>2, <2>3, <3>2, <3>3, <3>4, <3>5
  <2>5. CASE ~(U < W)
    <3>1. RetryAfter(k) = 0
      BY <1>1, <2>3, <2>5 DEF RetryAfter, Cost
    <3>2. U + 0 * C >= W
      BY <1>1, <2>2, <2>3, <2>5
    <3> QED BY <2>2, <2>3, <2>5, <3>1, <3>2
  <2> QED BY <2>4, <2>5
<1>3. PICK w : /\ w = Wait(r) /\ w \in {RetryAfter(k) : k \in r}
               /\ \A k \in r : RetryAfter(k) <= w
  <2>1. PICK a, b : r = {a, b}
    BY RequestsAreKeys
  <2>2. PICK x \in Nat, y \in Nat : x = RetryAfter(a) /\ y = RetryAfter(b)
    BY <1>2, <2>1
  <2>3. PICK S : S = {RetryAfter(k) : k \in r}
    OBVIOUS
  <2>4. S = {x, y}
    BY <2>1, <2>2, <2>3
  <2>5. \E m \in S : \A n \in S : n <= m
    BY <2>2, <2>4
  <2>6. Greatest(S) \in S /\ \A n \in S : n <= Greatest(S)
    BY <2>5, Zenon DEF Greatest
  <2>7. Wait(r) = Greatest(S)
    BY <2>3, Zenon DEF Wait
  <2> QED BY <2>3, <2>6, <2>7
<1>4. PICK l \in r : w = RetryAfter(l)
  BY <1>3
<1>5. w \in Nat
  BY <1>2, <1>4
<1>6. w > 0
  <2>1. PICK k \in r : ~(Units(k) >= W)
    BY <1>1 DEF Allowed, Cost
  <2>2. PICK U \in Nat, v \in Nat : /\ U = Units(k) /\ v = RetryAfter(k)
                                    /\ U < W => v > 0
    BY <1>2
  <2>3. v > 0
    BY <1>1, <2>1, <2>2
  <2> QED BY <1>3, <1>5, <2>2, <2>3
<1>7. PICK n \in Nat, p \in Nat : n = now /\ p = now + w
  BY <1>5 DEF LimiterTypes
<1>8. ASSUME NEW k \in r  PROVE Units(k) + (p - n) * Capacity(k) >= Window
  <2>1. PICK C \in Nat \ {0}, U \in Nat, v \in Nat :
           /\ C = Capacity(k) /\ U = Units(k) /\ v = RetryAfter(k)
           /\ U + v * C >= W
    BY <1>2
  <2>2. v <= w /\ p - n = w
    BY <1>3, <1>5, <1>7, <2>1
  <2>3. PICK x, y : x = v * C /\ y = (w - v) * C /\ x \in Nat /\ y \in Nat /\ x + y = w * C
    BY <1>5, <2>1, <2>2
  <2>4. U + (x + y) >= W
    BY <1>1, <2>1, <2>3
  <2> QED BY <1>1, <2>1, <2>2, <2>3, <2>4
<1>9. Units(l) + (p - 1 - n) * Capacity(l) < Window
  <2>1. PICK C \in Nat \ {0}, U \in Nat :
           /\ C = Capacity(l) /\ U = Units(l)
           /\ U + (w - 1) * C < W
    BY <1>2, <1>4, <1>6
  <2>2. p - 1 - n = w - 1
    BY <1>5, <1>7
  <2> QED BY <1>1, <2>1, <2>2
<1>10. p > n /\ ~(p <= n)
  BY <1>5, <1>6, <1>7
<1> QED BY <1>3, <1>5, <1>7, <1>8, <1>9, <1>10 DEF Kept


\* A request that Redis answers, and one whose answer is lost.
LEMMA RequestKeeps ==
    ASSUME Limits, LimiterInv, NEW r \in Charges, Run(r), now' = now,
           \/ promised' = StillPromised(r)
           \/ /\ ~Allowed(r)
              /\ promised' = [promised EXCEPT ![r] = now + Wait(r)]
    PROVE  LimiterInv'
<1>1. LimiterTypes /\ now \in Nat
  BY DEF LimiterInv, LimiterTypes
<1>2. CASE promised' = StillPromised(r)
  <2>1. promised' \in [Charges -> Nat \cup {-1}]
    BY <1>1, <1>2 DEF LimiterTypes, StillPromised, NotPromised
  <2>2. LimiterTypes'
    BY <1>1, <2>1, RunKeepsTypes
  <2>3. ASSUME NEW k \in Keys  PROVE Stock(k)' /\ Bounded(k)'
    <3>1. Stock(k) /\ Bounded(k)
      BY DEF LimiterInv
    <3> QED BY <1>1, <3>1, RunKeepsStock
  <2>4. ASSUME NEW q \in Charges  PROVE Told(q)'
    <3>1. CASE Allowed(r) /\ q \cap r # {}
      BY <1>2, <3>1 DEF Told, StillPromised, NotPromised
    <3>2. CASE ~(Allowed(r) /\ q \cap r # {}) /\ promised[q] # -1
      <4>1. PICK p : p = promised[q] /\ p = promised'[q]
        BY <1>2, <3>2 DEF StillPromised
      <4>2. Kept(q, p)
        BY <3>2, <4>1 DEF LimiterInv, Told
      <4>3. Kept(q, p)'
        BY <1>1, <3>2, <4>2, RunKeepsPromise
      <4> QED BY <4>1, <4>3 DEF Told, Kept
    <3>3. CASE ~(Allowed(r) /\ q \cap r # {}) /\ promised[q] = -1
      BY <1>2, <3>3 DEF Told, StillPromised
    <3> QED BY <3>1, <3>2, <3>3
  <2> QED BY <2>2, <2>3, <2>4 DEF LimiterInv
<1>3. CASE /\ ~Allowed(r)
           /\ promised' = [promised EXCEPT ![r] = now + Wait(r)]
  <2>1. PICK w \in Nat : w = Wait(r) /\ Kept(r, now + w)
    BY <1>1, <1>3, WaitIsExact
  <2>2. promised' \in [Charges -> Nat \cup {-1}]
    BY <1>1, <1>3, <2>1 DEF LimiterTypes
  <2>3. LimiterTypes'
    BY <1>1, <2>2, RunKeepsTypes
  <2>4. ASSUME NEW k \in Keys  PROVE Stock(k)' /\ Bounded(k)'
    <3>1. Stock(k) /\ Bounded(k)
      BY DEF LimiterInv
    <3> QED BY <1>1, <3>1, RunKeepsStock
  <2>5. ASSUME NEW q \in Charges  PROVE Told(q)'
    <3>1. CASE promised'[q] # -1
      <4>1. PICK p : p = promised'[q] /\ Kept(q, p)
        <5>1. CASE q = r
          BY <1>1, <1>3, <2>1, <5>1 DEF LimiterTypes
        <5>2. CASE q # r
          <6>1. promised'[q] = promised[q]
            BY <1>1, <1>3, <5>2 DEF LimiterTypes
          <6> QED BY <3>1, <6>1 DEF LimiterInv, Told
        <5> QED BY <5>1, <5>2
      <4>2. Kept(q, p)'
        BY <1>1, <1>3, <4>1, RunKeepsPromise
      <4> QED BY <4>1, <4>2 DEF Told, Kept
    <3>2. CASE promised'[q] = -1
      BY <3>2 DEF Told
    <3> QED BY <3>1, <3>2
  <2> QED BY <2>3, <2>4, <2>5 DEF LimiterInv
<1> QED BY <1>2, <1>3

LEMMA LimiterStarts ==
    ASSUME Limits, LimiterInit
    PROVE  LimiterInv
<1>1. LimiterTypes
  <2>1. DOMAIN buckets = {} /\ now = 0 /\ promised = [r \in Charges |-> -1]
    BY DEF LimiterInit, NotPromised
  <2>2. admitted \in [Keys -> Seq(0..Horizon)]
    BY DEF LimiterInit
  <2> QED BY <2>1, <2>2 DEF LimiterTypes, Limits
<1>2. ASSUME NEW k \in Keys  PROVE Stock(k) /\ Bounded(k)
  BY DEF LimiterInit, Stock, Bounded
<1>3. ASSUME NEW r \in Charges  PROVE Told(r)
  BY DEF LimiterInit, Told, NotPromised
<1> QED BY <1>1, <1>2, <1>3 DEF LimiterInv

LEMMA LimiterStep ==
    ASSUME Limits, LimiterInv, [LimiterNext]_limiterVars
    PROVE  LimiterInv'
<1>1. CASE Tick
  BY <1>1, TickKeeps
<1>2. ASSUME NEW r \in Charges, Consume(r)  PROVE LimiterInv'
  <2>1. /\ Run(r) /\ now' = now
        /\ \/ promised' = StillPromised(r)
           \/ /\ ~Allowed(r)
              /\ promised' = [promised EXCEPT ![r] = now + Wait(r)]
    BY <1>2 DEF Consume
  <2> QED BY <2>1, RequestKeeps
<1>3. ASSUME NEW r \in Charges, ConsumeUnanswered(r)  PROVE LimiterInv'
  <2>1. Run(r) /\ now' = now /\ promised' = StillPromised(r)
    BY <1>3 DEF ConsumeUnanswered
  <2> QED BY <2>1, RequestKeeps
<1>4. CASE UNCHANGED limiterVars
  <2>1. UNCHANGED <<now, buckets, admitted, promised>>
    BY <1>4 DEF limiterVars
  <2> QED BY <2>1, ZenonT(40) DEF LimiterInv, LimiterTypes, Stock, Bounded, Told, Kept,
                      Units, Capacity
<1> QED BY <1>1, <1>2, <1>3, <1>4 DEF LimiterNext

\* The limits hold for any limits, any window and any number of actors, addresses
\* and API processes: in no span of time does a bucket give more than it holds full
\* and what flows in, however requests, lost answers and the keys that Redis drops
\* interleave.
THEOREM LimitsHold == LimiterSpec => []BucketsAreSound
<1>1. ASSUME LimiterInv  PROVE BucketsAreSound
  <2>1. LimiterTypeOK
    BY <1>1 DEF LimiterInv, LimiterTypes, LimiterTypeOK, NotPromised
  <2>2. BoundedAdmission
    BY <1>1 DEF LimiterInv, Bounded, BoundedAdmission
  <2> QED BY <2>1, <2>2 DEF BucketsAreSound
<1> QED BY <1>1, LimitsArePositive, LimiterStarts, LimiterStep, PTL DEF LimiterSpec

\* What a refused request is told is exact: before that time it is refused, and from
\* then on allowed, as long as no other request takes from its buckets.
THEOREM WaitsAreExact == LimiterSpec => []RetryIsExact
<1>1. ASSUME LimiterInv  PROVE RetryIsExact
  <2>1. SUFFICES ASSUME NEW r \in Charges, promised[r] # -1
                 PROVE  Allowed(r) <=> now >= promised[r]
    BY DEF RetryIsExact, NotPromised
  <2>2. PICK p \in Nat : p = promised[r] /\ Kept(r, p)
    BY <1>1, <2>1 DEF LimiterInv, LimiterTypes, Told
  <2>3. PICK n \in Nat : n = now
    BY <1>1 DEF LimiterInv, LimiterTypes
  <2>4. CASE p <= n
    BY <2>2, <2>3, <2>4 DEF Kept, Allowed, Cost
  <2>5. CASE p > n
    <3>1. PICK k \in r : Units(k) + (p - 1 - n) * Capacity(k) < Window
      BY <2>2, <2>3, <2>5 DEF Kept
    <3>2. k \in Keys /\ LimiterTypes
      BY <1>1, RequestsAreKeys DEF LimiterInv
    <3>3. PICK C \in Nat : C = Capacity(k)
      BY <3>2, LimitsArePositive, CapacityIsPositive
    <3>4. PICK U \in Nat, W \in Nat : U = Units(k) /\ W = Window
      BY <3>2, <3>3, LimitsArePositive, UnitsFit DEF Limits
    <3>5. PICK x \in Nat : x = (p - 1 - n) * C
      BY <2>5, <3>3
    <3>6. U + x < W
      BY <3>1, <3>3, <3>4, <3>5
    <3>7. ~(U >= W)
      BY <3>6
    <3> QED BY <2>2, <2>3, <2>5, <3>4, <3>7 DEF Allowed, Cost
  <2> QED BY <2>2, <2>3, <2>4, <2>5
<1> QED BY <1>1, LimitsArePositive, LimiterStarts, LimiterStep, PTL DEF LimiterSpec
=============================================================================
