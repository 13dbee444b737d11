---------------------------- MODULE GatewayRelay ----------------------------
(***************************************************************************)
(* The relay of sync requests from gateway sessions to the API             *)
(* (gateway-relay.ts and its gateway-api-client.ts).  Requests of one      *)
(* session run side by side; a request that finds its target already under *)
(* way is turned away.  The rate limiter is a port the gateway may leave   *)
(* out: the gateway process of this repository does.                       *)
(***************************************************************************)
EXTENDS Naturals, FiniteSets

CONSTANTS
    Sessions,
    Targets,     \* channels and threads
    Requests     \* request frames, each handled once

VARIABLES
    session,     \* what getSession finds, and the socket behind it
    request,     \* the run of handleStreamSync for each frame
    inFlight,    \* the map, from a session and a target to a request
    aborted,     \* requests whose abort controller has fired
    sent,        \* history: the events sent for each request
    registered,  \* the listeners of the relay are registered
    limited      \* whether options.rateLimiter is given; never changes

relayVars == <<session, request, inFlight, aborted, sent, registered, limited>>

NotReceived == [stage |-> "none"]

RelayInit ==
    /\ session = [s \in Sessions |-> "authenticating"]
    /\ request = [r \in Requests |-> NotReceived]
    /\ inFlight = [k \in {} |-> CHOOSE r \in Requests : TRUE]
    /\ aborted = {}
    /\ sent = [r \in Requests |-> {}]
    /\ registered = TRUE
    /\ limited \in BOOLEAN

Key(r) == <<request[r].session, request[r].target>>

Over(r) == [request[r] EXCEPT !.stage = "over"]

\* The session is in the gateway's map and ready; its socket may be closing.
IsReady(s) == session[s] \in {"ready", "closing"}

\* runtime.send finds no session (nothing happens), a socket that is not open
\* (it throws, and the run ends) or sends.
Told(r, s, event) ==
    IF session[s] \in {"authenticating", "ready"}
    THEN [sent EXCEPT ![r] = @ \cup {event}] ELSE sent

-----------------------------------------------------------------------------
(* Sessions.                                                               *)

SessionReady(s) ==
    /\ session[s] = "authenticating"
    /\ session' = [session EXCEPT ![s] = "ready"]
    /\ UNCHANGED <<request, inFlight, aborted, sent, registered, limited>>

SocketCloses(s) ==
    /\ session[s] = "ready"
    /\ session' = [session EXCEPT ![s] = "closing"]
    /\ UNCHANGED <<request, inFlight, aborted, sent, registered, limited>>

Without(keys) == [k \in DOMAIN inFlight \ keys |-> inFlight[k]]

\* Faulty: the requests are aborted but stay in the map.
AbortKeepsEntries(s) ==
    /\ aborted' = aborted \cup {inFlight[k] : k \in {k \in DOMAIN inFlight : k[1] = s}}
    /\ UNCHANGED inFlight

\* abortSessionRequests: the requests are aborted and leave the map.
AbortSession(s) ==
    LET keys == {k \in DOMAIN inFlight : k[1] = s} IN
    /\ aborted' = aborted \cup {inFlight[k] : k \in keys}
    /\ inFlight' = Without(keys)

\* removeSession tells the relay, as long as it listens.
SessionCloses(s) ==
    /\ session[s] /= "closed"
    /\ session' = [session EXCEPT ![s] = "closed"]
    /\ IF registered THEN AbortSession(s) ELSE UNCHANGED <<inFlight, aborted>>
    /\ UNCHANGED <<request, sent, registered, limited>>

Unregister ==
    /\ registered
    /\ registered' = FALSE
    /\ aborted' = aborted \cup {inFlight[k] : k \in DOMAIN inFlight}
    /\ inFlight' = Without(DOMAIN inFlight)
    /\ UNCHANGED <<session, request, sent, limited>>

-----------------------------------------------------------------------------
(* A frame arrives.                                                        *)

\* What a frame can be: too long, without a request id, refused by the schema
\* with its request id, or a request.
Forms == {"too_long", "unreadable", "bad_request", "request"}

\* The run ends where it began, with at most one event.
EndsAtOnce(r, s, target, event) ==
    /\ request' = [request EXCEPT ![r] =
         [session |-> s, target |-> target, stage |-> "over"]]
    /\ sent' = Told(r, s, event)
    /\ UNCHANGED <<session, inFlight, aborted, registered, limited>>

Refused(r, s, target, form) ==
    /\ request[r] = NotReceived /\ registered
    /\ \/ session[s] = "authenticating" /\ EndsAtOnce(r, s, target, "gateway.not_ready")
       \/ IsReady(s) /\ form = "bad_request" /\ EndsAtOnce(r, s, target, "rejected")
       \/ /\ session[s] = "closed" \/ (IsReady(s) /\ form \in {"too_long", "unreadable"})
          /\ session' = [session EXCEPT ![s] = IF @ = "ready" THEN "closing" ELSE @]
          /\ request' = [request EXCEPT ![r] =
               [session |-> s, target |-> target, stage |-> "over"]]
          /\ UNCHANGED <<inFlight, aborted, sent, registered, limited>>

\* Faulty: the target is not looked for.
NothingUnderWay(s, target) == FALSE

UnderWay(s, target) == <<s, target>> \in DOMAIN inFlight

\* A request for a target under way: rate_limited, to be retried soon.
Duplicate(r, s, target) ==
    /\ request[r] = NotReceived /\ registered /\ IsReady(s)
    /\ UnderWay(s, target)
    /\ EndsAtOnce(r, s, target, "rejected")

\* The request enters the map, over whatever is there, and goes to the API.
Registered(r, s, target) ==
    /\ inFlight' = [k \in DOMAIN inFlight \cup {<<s, target>>} |->
                      IF k = <<s, target>> THEN r ELSE inFlight[k]]
    /\ request' = [request EXCEPT ![r] =
         [session |-> s, target |-> target, stage |-> "api"]]

Receive(r, s, target) ==
    /\ request[r] = NotReceived /\ registered /\ IsReady(s)
    /\ ~UnderWay(s, target)
    /\ IF limited
       THEN /\ request' = [request EXCEPT ![r] =
                 [session |-> s, target |-> target, stage |-> "limiting"]]
            /\ UNCHANGED inFlight
       ELSE Registered(r, s, target)
    /\ UNCHANGED <<session, aborted, sent, registered, limited>>

\* After checkSyncActor nothing is looked at again.
LimiterAnswers(r) ==
    /\ request[r].stage = "limiting"
    /\ \/ Registered(r, request[r].session, request[r].target) /\ UNCHANGED sent
       \/ \E event \in {"rejected", "failed"} :
            /\ request' = [request EXCEPT ![r] = Over(r)]
            /\ sent' = Told(r, request[r].session, event)
            /\ UNCHANGED inFlight
    /\ UNCHANGED <<session, aborted, registered, limited>>

-----------------------------------------------------------------------------
(* The API answers.                                                        *)

\* The codes the API can answer with; the client adds timeout for a request
\* whose time is over and stream_messages_unavailable for whatever it cannot
\* read: another request id, a body that is not JSON or not in the schema.
Codes == {"stream_unavailable", "invalid_cursor", "bad_request", "rate_limited",
          "unauthorized", "stream_messages_unavailable", "timeout"}

DomainRejections == {"stream_unavailable", "invalid_cursor", "bad_request", "rate_limited"}

Results == {"page"} \cup Codes

EventFor(result) ==
    CASE result = "page" -> "synced"
      [] result \in DomainRejections -> "rejected"
      [] OTHER -> "failed"

IsCurrentRequest(r) ==
    /\ Key(r) \in DOMAIN inFlight /\ inFlight[Key(r)] = r
    /\ IsReady(request[r].session)

\* Faulty: whatever entry the target has is removed.
ForgetTarget(r) == inFlight' = Without({Key(r)})

\* finally: only an own entry is removed.
Forget(r) ==
    inFlight' = Without({k \in {Key(r)} \cap DOMAIN inFlight : inFlight[k] = r})

\* A request that was aborted, or is not the current one of its target, ends in
\* silence.  A send that throws ends the run; the error it is mapped to cannot
\* be sent either.
Dropped(r) ==
    /\ request[r].stage = "api"
    /\ r \in aborted \/ ~IsCurrentRequest(r)
    /\ request' = [request EXCEPT ![r] = Over(r)]
    /\ Forget(r)
    /\ UNCHANGED <<session, aborted, sent, registered, limited>>

\* The answer is on its way; the entry stays until the send calls back.
ApiAnswers(r, result) ==
    /\ request[r].stage = "api" /\ r \notin aborted
    /\ IsCurrentRequest(r)
    /\ sent' = Told(r, request[r].session, EventFor(result))
    /\ request' = [request EXCEPT ![r].stage = "sending"]
    /\ UNCHANGED <<session, inFlight, aborted, registered, limited>>

SendReturns(r) ==
    /\ request[r].stage = "sending"
    /\ request' = [request EXCEPT ![r] = Over(r)]
    /\ Forget(r)
    /\ UNCHANGED <<session, aborted, sent, registered, limited>>

RelayNext ==
    \/ \E s \in Sessions : SessionReady(s) \/ SocketCloses(s) \/ SessionCloses(s)
    \/ Unregister
    \/ \E r \in Requests, s \in Sessions, t \in Targets :
         \/ \E form \in Forms : Refused(r, s, t, form)
         \/ Duplicate(r, s, t)
         \/ Receive(r, s, t)
    \/ \E r \in Requests :
         \/ LimiterAnswers(r)
         \/ Dropped(r)
         \/ \E result \in Results : ApiAnswers(r, result)
         \/ SendReturns(r)

RelaySpec == RelayInit /\ [][RelayNext]_relayVars

\* API requests have a timeout, an abort ends them, and a send calls back.
RelayFairSpec ==
    /\ RelaySpec
    /\ \A r \in Requests :
         /\ WF_relayVars(LimiterAnswers(r))
         /\ WF_relayVars(Dropped(r) \/ \E result \in Results : ApiAnswers(r, result))
         /\ WF_relayVars(SendReturns(r))

-----------------------------------------------------------------------------

RelayTypeOK ==
    /\ session \in [Sessions -> {"authenticating", "ready", "closing", "closed"}]
    /\ \A r \in Requests : request[r] /= NotReceived =>
         /\ request[r].session \in Sessions
         /\ request[r].target \in Targets
         /\ request[r].stage \in {"limiting", "api", "sending", "over"}
    /\ DOMAIN inFlight \subseteq Sessions \X Targets
    /\ \A k \in DOMAIN inFlight : inFlight[k] \in Requests
    /\ aborted \subseteq Requests
    /\ \A r \in Requests :
         sent[r] \subseteq {"gateway.not_ready", "synced", "rejected", "failed"}

Running(r) == request[r].stage \in {"api", "sending"} /\ r \notin aborted

\* Without a rate limiter, a session has at most one sync request of a target
\* under way, which is what the package promises about duplicates.
OnePerTarget ==
    ~limited => \A r, q \in Requests :
        Running(r) /\ Running(q) /\ Key(r) = Key(q) => r = q

\* Without a rate limiter, the map holds the requests under way and nothing
\* else: a target that has an entry is turned away, so an entry left behind
\* would refuse it for ever, and a request without an entry could not be
\* aborted with its session.
MapIsExact == ~limited =>
    /\ \A k \in DOMAIN inFlight : Running(inFlight[k]) /\ Key(inFlight[k]) = k
    /\ \A r \in Requests : Running(r) => Key(r) \in DOMAIN inFlight
    /\ \A k \in DOMAIN inFlight : registered /\ IsReady(k[1])

\* The table of requests under way is right at every await of the relay.
RelayIsSound == RelayTypeOK /\ OnePerTarget /\ MapIsExact

\* No request is answered twice, and none after its session has closed.
AnsweredOnce ==
    [][\A r \in Requests : sent'[r] /= sent[r] =>
         sent[r] = {} /\ session[request'[r].session] /= "closed"]_relayVars

\* An entry is taken from the map by its own request, by the end of its session
\* or by another request that takes its place: the end of an older request of
\* the target leaves a newer one alone.
EntriesAreOwn ==
    [][\A k \in DOMAIN inFlight :
         k \notin DOMAIN inFlight' =>
             request'[inFlight[k]].stage = "over" \/ inFlight[k] \in aborted']_relayVars

\* Requests do not disturb each other: an answer is sent once and only to an
\* open session, and an end removes only its own entry.
RequestsKeepApart == AnsweredOnce /\ EntriesAreOwn

\* Without a rate limiter, a request of a session that stays ready is answered,
\* unless the relay is unregistered.
RequestsAnswered ==
    \A r \in Requests, s \in Sessions :
        (~limited /\ request[r].stage = "api" /\ request[r].session = s) ~>
            (sent[r] /= {} \/ session[s] /= "ready" \/ ~registered)

\* Every run of the relay ends and leaves nothing behind.
RunsEnd ==
    \A r \in Requests : request[r] /= NotReceived ~>
        request[r].stage = "over" /\ \A k \in DOMAIN inFlight : inFlight[k] /= r

\* Every request comes to its end, and with an answer if somebody is there.
RequestsEnd == RequestsAnswered /\ RunsEnd
=============================================================================
