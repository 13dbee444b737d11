----------------------- MODULE RealtimeSession_proofs -----------------------
(***************************************************************************)
(* Proofs about the realtime connection, for any number of conversations,  *)
(* requests, retries and sockets.  The argument is that status, attempt    *)
(* and socket never disagree although they change in different turns of    *)
(* the event loop: the status is ready or an attempt awaits its socket     *)
(* exactly when there is one, and a microtask that would reconnect is      *)
(* either needed or finds that disconnect() has come before it.            *)
(***************************************************************************)
EXTENDS RealtimeSession, TLAPS

\* The status agrees with what #connectWithRetries awaits and with the microtask
\* of the close listener.
StageFits ==
    /\ stage \in Awaiting => state = "connecting"
    /\ stage = "delay" => attempt < MaxRetries
    /\ stage = "rejected" => state = "closed"
    /\ stage = "resolved" => state \in {"ready", "closed"}
    /\ state = "connecting" => stage \in Awaiting \/ reconnect
    /\ state = "ready" => ~reconnect
    /\ explicitlyClosed => state = "closed"
    /\ reconnect /\ state = "closed" => explicitlyClosed

\* There is a socket while the connection is ready or waits for gateway.connected.
\* The generation is that of the socket, and a socket is newer than every
\* generation before it.
SocketFits ==
    /\ socket # NoSocket <=> state = "ready" \/ stage = "socket"
    /\ generation = IF state = "ready" THEN socket ELSE NoSocket
    /\ state = "ready" => last = socket
    /\ stage = "socket" => last < socket
    /\ \A s \in Sockets : net[s] = "live" => s = socket

PendingFits == \A r \in Requests : result[r] = "waiting" => state = "ready" /\ asked[r] = socket

Records(n) == [open : BOOLEAN, listens : {"none", "generation", "all"}, waits : BOOLEAN,
               joined : 0..n, notified : 0..n, gone : BOOLEAN, frames : Nat]

\* The join of a channel goes with the generation the transport was told of, so
\* that a generation never gets a second one.
JoinFits(t, x) ==
    /\ x.joined = IF t \in Channels THEN x.notified ELSE NoSocket
    /\ x.frames <= 1

\* What a transport was told when the status is st, the generation gen, and emits
\* whether its socket can carry a join: nothing of a ready generation only if it
\* has not attached or its join has thrown.
Told(t, x, st, gen, emits) ==
    IF st = "ready"
    THEN /\ x.gone = FALSE
         /\ \/ x.notified = gen
            \/ x.notified = NoSocket /\ (x.listens = "none" \/ (t \in Channels /\ ~emits))
    ELSE x.notified # NoSocket => x.gone = TRUE

Informed(t, x, st, gen, emits) ==
    /\ JoinFits(t, x)
    /\ x.open = FALSE => x = NoTransport
    /\ x.open = TRUE => Told(t, x, st, gen, emits)

TransportsFit ==
    \A t \in Transports :
        /\ Informed(t, transport[t], state, generation, CanEmit)
        /\ transport[t].waits = TRUE => stage # "none"

Inv == TypeOK /\ StageFits /\ SocketFits /\ PendingFits /\ TransportsFit

-----------------------------------------------------------------------------
(***************************************************************************)
(* The transports                                                          *)
(***************************************************************************)

\* What becomes of transport x when it hears of a loss, of generation gen, or when
\* its join throws.
Same(x, y) == y.open = x.open /\ y.listens = x.listens /\ y.waits = x.waits

Lost(n, x, y) ==
    /\ y \in Records(n) /\ Same(x, y)
    /\ y.joined = x.joined /\ y.notified = x.notified /\ y.frames = x.frames
    /\ x.notified # NoSocket => y.gone = TRUE

Renewed(n, t, x, y, gen) ==
    /\ y \in Records(n) /\ Same(x, y)
    /\ y.joined = IF t \in Channels THEN gen ELSE NoSocket
    /\ y.notified = gen /\ y.frames <= 1 /\ y.gone = FALSE

Refused(n, x, y) ==
    /\ y \in Records(n) /\ Same(x, y)
    /\ y.joined = x.joined /\ y.notified = x.notified /\ y.frames = x.frames
    /\ y.gone = FALSE

\* A transport that hears of a loss.
LEMMA LossHandled ==
    ASSUME NEW n, NEW x \in Records(n), NEW t, NEW st, st # "ready", NEW gen
    PROVE  Lost(n, x, Handle(t, x, st, gen))
<1>1. PICK y : y = Handle(t, x, st, gen) /\ y = [x EXCEPT !.gone = @ \/ x.notified # NoSocket]
  BY DEF Handle
<1>2. PICK b \in BOOLEAN : y = [x EXCEPT !.gone = b] /\ (x.notified # NoSocket => b = TRUE)
  <2>1. (x.gone \/ x.notified # NoSocket) \in BOOLEAN
        /\ (x.notified # NoSocket => (x.gone \/ x.notified # NoSocket) = TRUE)
    BY Zenon
  <2> QED BY <1>1, <2>1, Zenon
<1>3. Lost(n, x, y)
  BY <1>2 DEF Records, Lost, Same
<1> QED BY <1>1, <1>3

\* A transport that hears of a generation, after its join.
LEMMA GenerationHandled ==
    ASSUME NEW n, NEW x \in Records(n), NEW t, JoinFits(t, x), NEW gen \in 0..n,
           gen # NoSocket, ~JoinThrows(t, x, "ready", gen)
    PROVE  Renewed(n, t, x, Handle(t, x, "ready", gen), gen)
<1>1. CASE t \in Channels /\ gen # x.joined
  <2>1. x.notified # gen
    BY <1>1 DEF JoinFits
  <2>2. Joined(t, x, gen) = [x EXCEPT !.joined = gen, !.frames = 1]
    BY <1>1, <2>1 DEF Joined, MustJoin
  <2>3. PICK y : /\ y = Handle(t, x, "ready", gen)
                 /\ y = [[x EXCEPT !.joined = gen, !.frames = 1]
                            EXCEPT !.gone = FALSE, !.notified = gen]
    BY <2>2 DEF Handle
  <2>4. y = [open |-> x.open, listens |-> x.listens, waits |-> x.waits, joined |-> gen,
             notified |-> gen, gone |-> FALSE, frames |-> 1]
    BY <2>3 DEF Records
  <2>5. /\ x.open \in BOOLEAN /\ x.waits \in BOOLEAN
        /\ x.listens \in {"none", "generation", "all"}
    BY DEF Records
  <2>6. Renewed(n, t, x, y, gen)
    BY <1>1, <2>4, <2>5 DEF Records, Renewed, Same
  <2> QED BY <2>3, <2>6
<1>2. CASE ~(t \in Channels /\ gen # x.joined)
  <2>1. PICK y : /\ y = Handle(t, x, "ready", gen)
                 /\ y = [x EXCEPT !.gone = FALSE, !.notified = gen]
    BY <1>2 DEF Handle, Joined, MustJoin
  <2>2. Renewed(n, t, x, y, gen)
    BY <1>2, <2>1 DEF Records, Renewed, Same, JoinFits
  <2> QED BY <2>1, <2>2
<1> QED BY <1>1, <1>2

\* A transport whose join throws.
LEMMA JoinRefused ==
    ASSUME NEW n, NEW x \in Records(n), NEW t, NEW gen, gen # NoSocket,
           JoinThrows(t, x, "ready", gen)
    PROVE  Refused(n, x, Handle(t, x, "ready", gen)) /\ t \in Channels /\ ~CanEmit
<1>1. PICK y : y = Handle(t, x, "ready", gen) /\ y = [x EXCEPT !.gone = FALSE]
  BY DEF Handle
<1>2. Refused(n, x, y)
  BY <1>1 DEF Records, Refused, Same
<1> QED BY <1>1, <1>2 DEF JoinThrows, MustJoin

\* What becomes of transport x when it handles status st and generation gen.
Handled(n, t, x, y, st, gen) ==
    y \in Records(n) /\ JoinFits(t, y) /\ Told(t, y, st, gen, CanEmit) /\ Same(x, y)

\* handleCurrentGeneration brings a transport up to date, unless its join throws.
LEMMA HandleTells ==
    ASSUME NEW n \in Nat, NEW t, NEW x \in Records(n), JoinFits(t, x),
           NEW st, NEW gen \in 0..n, st = "ready" => gen # NoSocket,
           st = "ready" => CanEmit \/ x.notified \in {gen, NoSocket}
    PROVE  Handled(n, t, x, Handle(t, x, st, gen), st, gen)
<1>1. CASE st # "ready"
  <2>1. PICK y : y = Handle(t, x, st, gen) /\ Lost(n, x, y)
    BY <1>1, LossHandled
  <2>2. Handled(n, t, x, y, st, gen)
    BY <1>1, <2>1, Zenon DEF Lost, JoinFits, Told, Handled
  <2> QED BY <2>1, <2>2
<1>2. CASE st = "ready" /\ ~JoinThrows(t, x, st, gen)
  <2>1. PICK y : y = Handle(t, x, st, gen) /\ Renewed(n, t, x, y, gen)
    BY <1>2, GenerationHandled
  <2>2. Handled(n, t, x, y, st, gen)
    BY <1>2, <2>1, Zenon DEF Renewed, JoinFits, Told, Handled
  <2> QED BY <2>1, <2>2
<1>3. CASE st = "ready" /\ JoinThrows(t, x, st, gen)
  <2>1. PICK y : y = Handle(t, x, st, gen) /\ Refused(n, x, y)
    BY <1>3, JoinRefused
  <2>2. t \in Channels /\ ~CanEmit /\ gen # x.joined
    BY <1>3 DEF JoinThrows, MustJoin
  <2>3. x.notified = NoSocket
    BY <1>3, <2>2 DEF JoinFits
  <2>4. Handled(n, t, x, y, st, gen)
    BY <1>3, <2>1, <2>2, <2>3, Zenon DEF Refused, JoinFits, Told, Handled
  <2> QED BY <2>1, <2>4
<1> QED BY <1>1, <1>2, <1>3

\* TypeOK says of each transport.
LEMMA TransportTypes ==
    ASSUME TypeOK
    PROVE  opened \in Nat /\ transport \in [Transports -> Records(opened)]
BY SizesAssumption DEF TypeOK, Records

LEMMA NoTransportFits ==
    ASSUME NEW n \in Nat, NEW t
    PROVE  NoTransport \in Records(n) /\ JoinFits(t, NoTransport)
BY DEF NoTransport, Records, JoinFits, NoSocket

\* A transport that is told nothing stays as it knows the connection.
LEMMA StaysInformed ==
    ASSUME NEW t, NEW x, NEW st, NEW gen, NEW emits, NEW st2, NEW gen2, NEW emits2,
           Informed(t, x, st, gen, emits),
           st = st2 /\ (st = "ready" => gen = gen2 /\ (emits2 => emits))
    PROVE  Informed(t, x, st2, gen2, emits2)
BY Zenon DEF Informed, Told

\* What the transports are after a step, told or not.
Retold(st, gen) ==
    /\ transport' \in [Transports -> Records(opened)]
    /\ \A t \in Transports : /\ Informed(t, transport'[t], st, gen, CanEmit)
                             /\ transport'[t].waits = transport[t].waits

\* A change of the status reaches every transport that is open.
LEMMA NotifyTells ==
    ASSUME Inv, NEW st, NEW gen \in 0..opened, st = "ready" => gen # NoSocket /\ CanEmit,
           st = state => st # "ready", Notify(st, gen)
    PROVE  Retold(st, gen)
<1>1. /\ opened \in Nat /\ transport \in [Transports -> Records(opened)]
      /\ \A t \in Transports : Informed(t, transport[t], state, generation, CanEmit)
  BY TransportTypes DEF Inv, TransportsFit
<1>2. ASSUME NEW t \in Transports
      PROVE  /\ transport'[t] \in Records(opened)
             /\ Informed(t, transport'[t], st, gen, CanEmit)
             /\ transport'[t].waits = transport[t].waits
  <2>1. transport[t] \in Records(opened) /\ Informed(t, transport[t], state, generation, CanEmit)
    BY <1>1
  <2>2. CASE transport[t].open = TRUE /\ st # state
    <3>1. transport'[t] = Handle(t, transport[t], st, gen)
      BY <2>2 DEF Notify
    <3>2. JoinFits(t, transport[t])
      BY <2>1 DEF Informed
    <3>3. Handled(opened, t, transport[t], transport'[t], st, gen)
      BY <1>1, <2>1, <3>1, <3>2, HandleTells
    <3> QED BY <2>2, <3>3, Zenon DEF Handled, Same, Informed
  <2>3. CASE transport[t].open = FALSE /\ st # state
    <3>1. transport'[t] = transport[t]
      BY <2>3 DEF Notify
    <3>2. Informed(t, transport[t], st, gen, CanEmit)
      BY <2>1, <2>3, Zenon DEF Informed
    <3> QED BY <2>1, <3>1, <3>2
  <2>4. CASE st = state
    <3>1. transport'[t] = transport[t]
      BY <2>4 DEF Notify
    <3>2. Informed(t, transport[t], st, gen, CanEmit)
      BY <2>1, <2>4, StaysInformed
    <3> QED BY <2>1, <3>1, <3>2
  <2>5. transport[t].open \in BOOLEAN
    BY <2>1 DEF Records
  <2> QED BY <2>2, <2>3, <2>4, <2>5
<1>3. transport' = [t \in Transports |-> transport'[t]]
  BY DEF Notify
<1> QED BY <1>2, <1>3 DEF Retold

-----------------------------------------------------------------------------
(***************************************************************************)
(* The connection                                                          *)
(***************************************************************************)
\* The parts of TypeOK that are about the connection, and about its users.
ConnectionTypes ==
    /\ state \in {"closed", "connecting", "ready"}
    /\ explicitlyClosed \in BOOLEAN /\ reconnect \in BOOLEAN
    /\ stage \in {"none"} \cup Awaiting \cup Ended
    /\ attempt \in 0..MaxRetries
    /\ opened \in 0..MaxSockets
    /\ socket \in 0..opened /\ generation \in 0..opened /\ last \in 0..opened
    /\ net \in [Sockets -> {"unused", "live", "closing", "closed"}]

RequestTypes ==
    /\ result \in [Requests -> {"unused", "waiting"} \cup Outcomes]
    /\ asked \in [Requests -> 0..opened]

ConnectionInv == ConnectionTypes /\ StageFits /\ SocketFits
RequestInv    == RequestTypes /\ PendingFits
TransportInv  == transport \in [Transports -> Records(opened)] /\ TransportsFit

LEMMA InvParts == Inv <=> ConnectionInv /\ RequestInv /\ TransportInv
BY DEF Inv, TypeOK, ConnectionInv, ConnectionTypes, RequestInv, RequestTypes, TransportInv, Records

LEMMA PartsNext ==
    ASSUME ConnectionInv', RequestInv', TransportInv'
    PROVE  Inv'
BY DEF Inv, TypeOK, ConnectionInv, ConnectionTypes, RequestInv, RequestTypes, TransportInv, Records

\* Transports that were told of the new status fit it.
LEMMA RetoldFits ==
    ASSUME Inv, Retold(state', generation'), opened' = opened,
           stage # "none" => stage' # "none", state' = "ready" /\ CanEmit' => CanEmit
    PROVE  TransportInv'
<1>1. \A t \in Transports : transport[t].waits = TRUE => stage # "none"
  BY DEF Inv, TransportsFit
<1>2. transport' \in [Transports -> Records(opened)]'
  BY DEF Retold, Records
<1>3. \A t \in Transports : Informed(t, transport'[t], state', generation', CanEmit')
  <2> SUFFICES ASSUME NEW t \in Transports
               PROVE  Informed(t, transport'[t], state', generation', CanEmit')
    OBVIOUS
  <2>1. Informed(t, transport'[t], state', generation', CanEmit)
    BY DEF Retold
  <2> QED BY <2>1, StaysInformed
<1>4. \A t \in Transports : transport'[t].waits = TRUE => stage' # "none"
  BY <1>1, Zenon DEF Retold
<1>5. TransportsFit'
  BY <1>3, <1>4, Zenon DEF TransportsFit
<1> QED BY <1>2, <1>5 DEF TransportInv

\* Transports that were not told anything fit a status that has not changed.
LEMMA UntoldFits ==
    ASSUME Inv, UNCHANGED transport, opened' \in Nat, opened <= opened', state' = state,
           state = "ready" => generation' = generation /\ (CanEmit' => CanEmit),
           stage # "none" => stage' # "none"
    PROVE  TransportInv'
<1>1. transport' \in [Transports -> Records(opened')]
  BY TransportTypes DEF Inv, Records
<1>2. \A t \in Transports : /\ Informed(t, transport[t], state, generation, CanEmit)
                            /\ transport[t].waits = TRUE => stage # "none"
  BY DEF Inv, TransportsFit
<1>3. \A t \in Transports : Informed(t, transport[t], state', generation', CanEmit')
  <2> SUFFICES ASSUME NEW t \in Transports
               PROVE  Informed(t, transport[t], state', generation', CanEmit')
    OBVIOUS
  <2>1. Informed(t, transport[t], state, generation, CanEmit)
    BY <1>2
  <2> QED BY <2>1, StaysInformed
<1>4. TransportsFit'
  BY <1>2, <1>3, Zenon DEF TransportsFit
<1>5. Records(opened') = Records(opened)'
  BY DEF Records
<1> QED BY <1>1, <1>4, <1>5 DEF TransportInv

\* Requests that no step has touched, while the connection stays what it was.
LEMMA RequestsKept ==
    ASSUME Inv, UNCHANGED requests, opened' \in Nat, opened <= opened', 
           state = "ready" => state' = "ready" /\ socket' = socket
    PROVE  RequestInv'
BY DEF Inv, TypeOK, RequestInv, RequestTypes, PendingFits, requests

\* #rejectAllPending leaves no request behind.
LEMMA RequestsRejected ==
    ASSUME Inv, NEW code \in Outcomes, result' = RejectAll(code), asked' = asked,
           opened' = opened
    PROVE  RequestInv'
BY DEF Inv, TypeOK, RequestInv, RequestTypes, PendingFits, RejectAll, Pending, Outcomes

-----------------------------------------------------------------------------
(***************************************************************************)
(* One lemma for each step                                                 *)
(***************************************************************************)
LEMMA InitInv == Init => Inv
<1> SUFFICES ASSUME Init PROVE Inv
  OBVIOUS
<1>1. ConnectionInv
  <2>1. /\ state \in {"closed", "connecting", "ready"}
        /\ stage \in {"none"} \cup Awaiting \cup Ended
        /\ attempt \in 0..MaxRetries /\ opened \in 0..MaxSockets
        /\ socket \in 0..opened /\ generation \in 0..opened /\ last \in 0..opened
    BY SizesAssumption DEF Init, NoSocket
  <2>2. explicitlyClosed \in BOOLEAN /\ reconnect \in BOOLEAN
    BY Zenon DEF Init
  <2>3. net \in [Sockets -> {"unused", "live", "closing", "closed"}]
    BY DEF Init
  <2>4. ConnectionTypes
    BY <2>1, <2>2, <2>3, Zenon DEF ConnectionTypes
  <2>5. StageFits
    BY DEF Init, StageFits, Awaiting, Ended
  <2>6. SocketFits
    BY DEF Init, SocketFits, NoSocket
  <2> QED BY <2>4, <2>5, <2>6 DEF ConnectionInv
<1>2. RequestInv
  BY DEF Init, RequestInv, RequestTypes, PendingFits, Outcomes, NoSocket
<1>3. \A t \in Transports : transport[t] = NoTransport
  BY DEF Init
<1>4. \A t \in Transports : NoTransport \in Records(opened) /\ JoinFits(t, NoTransport)
  BY NoTransportFits DEF Init
<1>5. /\ NoTransport.open = FALSE /\ NoTransport.waits = FALSE
  BY DEF NoTransport
<1>6. TransportInv
  <2>1. transport \in [Transports -> Records(opened)]
    BY <1>4 DEF Init
  <2>2. TransportsFit
    BY <1>3, <1>4, <1>5, Zenon DEF TransportsFit, Informed
  <2> QED BY <2>1, <2>2 DEF TransportInv
<1> QED BY <1>1, <1>2, <1>6, InvParts

\* A step that leaves the connection alone.
LEMMA ConnectionKept ==
    ASSUME Inv, UNCHANGED connection, UNCHANGED last
    PROVE  ConnectionInv'
<1>1. ConnectionInv
  BY InvParts
<1>2. UNCHANGED <<state, explicitlyClosed, stage, attempt, socket, generation, reconnect, opened, net>>
  BY DEF connection
<1> QED BY <1>1, <1>2 DEF ConnectionInv, ConnectionTypes, StageFits, SocketFits

\* The facts about the connection that every lemma below uses.
LEMMA ConnectionFacts ==
    ASSUME Inv
    PROVE  /\ opened \in Nat /\ generation \in 0..opened /\ socket \in 0..opened
           /\ ConnectionTypes /\ StageFits /\ SocketFits
           /\ state = "ready" => generation # NoSocket
BY SizesAssumption, InvParts DEF ConnectionInv, ConnectionTypes, SocketFits

\* A transport that is open and handles the current generation.
LEMMA HandleInforms ==
    ASSUME NEW n \in Nat, NEW t, NEW x \in Records(n), x.open = TRUE, JoinFits(t, x),
           NEW st, NEW gen \in 0..n, st = "ready" => gen # NoSocket,
           st = "ready" => x.notified \in {gen, NoSocket}
    PROVE  /\ Handle(t, x, st, gen) \in Records(n)
           /\ Informed(t, Handle(t, x, st, gen), st, gen, CanEmit)
           /\ Handle(t, x, st, gen).waits = x.waits
<1>1. PICK y : y = Handle(t, x, st, gen)
  OBVIOUS
<1>2. Handled(n, t, x, y, st, gen)
  BY <1>1, HandleTells
<1>3. Informed(t, y, st, gen, CanEmit)
  BY <1>2, Zenon DEF Handled, Same, Informed
<1> QED BY <1>1, <1>2, <1>3, Zenon DEF Handled, Same

\* What an open transport was told of when the connection is ready.
LEMMA NotifiedOnce ==
    ASSUME NEW t, NEW x, x.open = TRUE, NEW st, NEW gen, NEW emits,
           Informed(t, x, st, gen, emits)
    PROVE  st = "ready" => x.notified \in {gen, NoSocket}
BY Zenon DEF Informed, Told

LEMMA FinishStep ==
    ASSUME Inv, Finish
    PROVE  Inv'
<1>1. /\ opened \in Nat /\ generation \in 0..opened
      /\ state = "ready" => generation # NoSocket
      /\ ConnectionTypes /\ StageFits /\ SocketFits
  BY ConnectionFacts
<1>2. ConnectionInv'
  BY <1>1 DEF Finish, ConnectionInv, ConnectionTypes, StageFits, SocketFits, Awaiting, Ended
<1>3. RequestInv'
  BY <1>1, RequestsKept DEF Finish
<1>4. ASSUME NEW t \in Transports
      PROVE  /\ transport'[t] \in Records(opened) /\ Informed(t, transport'[t], state, generation, CanEmit)
             /\ transport'[t].waits = FALSE
  <2>1. PICK x : x = [transport[t] EXCEPT !.waits = FALSE]
    OBVIOUS
  <2>2. transport[t] \in Records(opened) /\ Informed(t, transport[t], state, generation, CanEmit)
    BY TransportTypes DEF Inv, TransportsFit
  <2>3. /\ x \in Records(opened) /\ x.open = transport[t].open /\ x.waits = FALSE
        /\ x.listens = transport[t].listens
        /\ x.joined = transport[t].joined /\ x.notified = transport[t].notified
        /\ x.gone = transport[t].gone /\ x.frames = transport[t].frames
    BY <2>1, <2>2 DEF Records
  <2>4. JoinFits(t, x) /\ Informed(t, x, state, generation, CanEmit)
    <3>1. JoinFits(t, x)
      BY <2>2, <2>3, Zenon DEF JoinFits, Informed
    <3>2. x.open = TRUE => Told(t, x, state, generation, CanEmit)
      BY <2>2, <2>3, Zenon DEF Told, Informed
    <3>3. x.open = FALSE => x = NoTransport
      <4> SUFFICES ASSUME x.open = FALSE PROVE x = NoTransport
        OBVIOUS
      <4>1. transport[t] = NoTransport
        BY <2>2, <2>3, Zenon DEF Informed
      <4>2. [NoTransport EXCEPT !.waits = FALSE] = NoTransport
        <5>1. NoTransport \in Records(opened) /\ NoTransport.waits = FALSE
          BY <1>1, NoTransportFits DEF NoTransport
        <5> QED BY <5>1 DEF Records
      <4> QED BY <2>1, <4>1, <4>2, Zenon
    <3> QED BY <3>1, <3>2, <3>3 DEF Informed
  <2>5. CASE transport[t].waits /\ stage = "resolved"
    <3>1. transport'[t] = Handle(t, x, state, generation)
      BY <2>1, <2>5 DEF Finish
    <3>3. x.open \in BOOLEAN
      BY <2>3 DEF Records
    <3>4. x.open = TRUE
      <4>1. transport[t] # NoTransport
        <5>1. NoTransport.waits = FALSE
          BY DEF NoTransport
        <5> QED BY <2>5, <5>1, Zenon
      <4> QED BY <2>2, <2>3, <3>3, <4>1, Zenon DEF Informed
    <3>5. state = "ready" => x.notified \in {generation, NoSocket}
      BY <2>4, <3>4, NotifiedOnce
    <3>6. /\ transport'[t] \in Records(opened)
          /\ Informed(t, transport'[t], state, generation, CanEmit)
          /\ transport'[t].waits = x.waits
      <4>1. PICK y : y = Handle(t, x, state, generation)
        OBVIOUS
      <4>2. JoinFits(t, x) /\ x \in Records(opened)
        BY <2>3, <2>4
      <4>3. y \in Records(opened) /\ Informed(t, y, state, generation, CanEmit) /\ y.waits = x.waits
        BY <1>1, <3>4, <3>5, <4>1, <4>2, HandleInforms
      <4> QED BY <3>1, <4>1, <4>3
    <3> QED BY <2>3, <3>6
  <2>6. CASE ~(transport[t].waits /\ stage = "resolved")
    <3>1. transport'[t] = x
      BY <2>1, <2>6 DEF Finish
    <3> QED BY <2>3, <2>4, <3>1
  <2> QED BY <2>5, <2>6
<1>5. TransportInv'
  <2>1. transport' = [t \in Transports |-> transport'[t]] /\ UNCHANGED <<state, generation, opened>>
    BY DEF Finish
  <2>2. transport' \in [Transports -> Records(opened)]'
    BY <1>4, <2>1 DEF Records
  <2>3. TransportsFit'
    <3>1. CanEmit' <=> CanEmit
      BY DEF Finish, CanEmit
    <3>2. \A t \in Transports : Informed(t, transport'[t], state', generation', CanEmit')
      <4> SUFFICES ASSUME NEW t \in Transports
                   PROVE  Informed(t, transport'[t], state', generation', CanEmit')
        OBVIOUS
      <4>1. Informed(t, transport'[t], state, generation, CanEmit)
        BY <1>4
      <4> QED BY <2>1, <3>1, <4>1, StaysInformed
    <3> QED BY <1>4, <3>2, Zenon DEF TransportsFit
  <2> QED BY <2>2, <2>3 DEF TransportInv
<1> QED BY <1>2, <1>3, <1>5, PartsNext

\* One transport that changes while the connection stays as it is.
LEMMA OneChanges ==
    ASSUME Inv, UNCHANGED connection, NEW t \in Transports, NEW y \in Records(opened),
           Informed(t, y, state, generation, CanEmit), y.waits = TRUE => stage # "none",
           transport' = [transport EXCEPT ![t] = y]
    PROVE  TransportInv'
<1>1. transport \in [Transports -> Records(opened)]
  BY TransportTypes DEF Inv
<1>2. \A u \in Transports : /\ Informed(u, transport[u], state, generation, CanEmit)
                            /\ transport[u].waits = TRUE => stage # "none"
  BY DEF Inv, TransportsFit
<1>3. UNCHANGED <<state, stage, generation, opened>> /\ (CanEmit' <=> CanEmit)
  BY DEF connection, CanEmit
<1>4. transport' \in [Transports -> Records(opened)]'
  BY <1>1, <1>3 DEF Records
<1>5. \A u \in Transports : transport'[u] = IF u = t THEN y ELSE transport[u]
  BY <1>1
<1>6. TransportsFit'
  <2>1. ASSUME NEW u \in Transports
        PROVE  /\ Informed(u, transport'[u], state', generation', CanEmit')
               /\ transport'[u].waits = TRUE => stage # "none"
    <3>1. /\ Informed(u, transport'[u], state, generation, CanEmit)
          /\ transport'[u].waits = TRUE => stage # "none"
      <4>1. CASE u = t
        BY <1>5, <4>1
      <4>2. CASE u # t
        BY <1>2, <1>5, <4>2
      <4> QED BY <4>1, <4>2
    <3> QED BY <1>3, <3>1, StaysInformed
  <2> QED BY <1>3, <2>1, Zenon DEF TransportsFit
<1> QED BY <1>4, <1>6 DEF TransportInv

\* connect() of a transport that has to wait.
LEMMA WaitsOnly ==
    ASSUME NEW n, NEW t, NEW x \in Records(n), x.open = TRUE, NEW st, NEW gen,
           NEW emits, Informed(t, x, st, gen, emits)
    PROVE  /\ [x EXCEPT !.waits = TRUE] \in Records(n)
           /\ [x EXCEPT !.waits = TRUE].open = TRUE
           /\ [x EXCEPT !.waits = TRUE].waits = TRUE
           /\ Informed(t, [x EXCEPT !.waits = TRUE], st, gen, emits)
<1>1. PICK y : y = [x EXCEPT !.waits = TRUE]
  OBVIOUS
<1>2. /\ y \in Records(n) /\ y.open = TRUE /\ y.waits = TRUE
      /\ y.listens = x.listens /\ y.joined = x.joined /\ y.notified = x.notified
      /\ y.gone = x.gone /\ y.frames = x.frames
  BY <1>1 DEF Records
<1>3. Informed(t, y, st, gen, emits)
  BY <1>2, Zenon DEF Informed, JoinFits, Told
<1> QED BY <1>1, <1>2, <1>3

\* StartAttempts fits whatever called it.
LEMMA AttemptStarts ==
    ASSUME Inv, StartAttempts, state # "ready", stage = "none",
           UNCHANGED <<socket, generation, opened, net, last>>,
           \/ UNCHANGED reconnect
           \/ reconnect' = FALSE
    PROVE  ConnectionInv'
<1>1. ConnectionTypes /\ StageFits /\ SocketFits
  BY ConnectionFacts
<1>2. reconnect' \in BOOLEAN
  BY <1>1, Zenon DEF ConnectionTypes
<1>3. ConnectionTypes'
  <2>1. /\ state' \in {"closed", "connecting", "ready"}
        /\ stage' \in {"none"} \cup Awaiting \cup Ended
        /\ attempt' \in 0..MaxRetries
    BY SizesAssumption DEF StartAttempts, Awaiting
  <2>2. explicitlyClosed' \in BOOLEAN
    BY Zenon DEF StartAttempts
  <2> QED BY <1>1, <1>2, <2>1, <2>2 DEF ConnectionTypes
<1>4. StageFits'
  BY DEF StartAttempts, StageFits, Awaiting
<1>5. SocketFits'
  BY <1>1 DEF StartAttempts, SocketFits, NoSocket
<1> QED BY <1>3, <1>4, <1>5 DEF ConnectionInv

LEMMA ConnectStep ==
    ASSUME Inv, NEW t \in Transports, Connect(t)
    PROVE  Inv'
<1>1. /\ opened \in Nat /\ generation \in 0..opened
      /\ state = "ready" => generation # NoSocket
      /\ ConnectionTypes /\ StageFits /\ SocketFits
  BY ConnectionFacts
<1>2. \A u \in Transports : /\ transport[u] \in Records(opened)
                            /\ Informed(u, transport[u], state, generation, CanEmit)
                            /\ JoinFits(u, transport[u])
  BY TransportTypes DEF Inv, TransportsFit, Informed
<1>3. transport[t].open = TRUE /\ transport[t].waits = FALSE
  <2>1. transport[t] # NoTransport
    <3>1. NoTransport.listens = "none"
      BY DEF NoTransport
    <3> QED BY <3>1, Zenon DEF Connect
  <2> QED BY <1>2, <2>1 DEF Connect, Records, Informed
<1>4. CASE state = "ready" /\ UNCHANGED connection
           /\ transport' = [transport EXCEPT ![t] = Handle(t, @, state, generation)]
  <2>1. ConnectionInv'
    BY <1>4, ConnectionKept DEF Connect
  <2>2. RequestInv'
    BY <1>1, <1>4, RequestsKept DEF Connect, connection
  <2>3. PICK y : y = Handle(t, transport[t], state, generation)
    OBVIOUS
  <2>4. y \in Records(opened) /\ Informed(t, y, state, generation, CanEmit) /\ y.waits = transport[t].waits
    <3>1. PICK x : x = transport[t]
      OBVIOUS
    <3>2. x \in Records(opened) /\ JoinFits(t, x) /\ x.open = TRUE
      BY <1>2, <1>3, <3>1
    <3>3. y = Handle(t, x, state, generation)
      BY <2>3, <3>1
    <3>4. state = "ready" => x.notified \in {generation, NoSocket}
      BY <1>2, <3>1, <3>2, NotifiedOnce
    <3>5. y \in Records(opened) /\ Informed(t, y, state, generation, CanEmit) /\ y.waits = x.waits
      BY <1>1, <3>2, <3>3, <3>4, HandleInforms
    <3> QED BY <3>1, <3>5
  <2>5. TransportInv'
    BY <1>3, <1>4, <2>3, <2>4, OneChanges
  <2> QED BY <2>1, <2>2, <2>5, PartsNext
<1>5. CASE state # "ready" /\ stage # "none" /\ UNCHANGED connection
           /\ transport' = [transport EXCEPT ![t].waits = TRUE]
  <2>1. ConnectionInv'
    BY <1>5, ConnectionKept DEF Connect
  <2>2. RequestInv'
    BY <1>1, <1>5, RequestsKept DEF Connect, connection
  <2>3. PICK y : y = [transport[t] EXCEPT !.waits = TRUE]
    OBVIOUS
  <2>4. y \in Records(opened) /\ Informed(t, y, state, generation, CanEmit)
    BY <1>2, <1>3, <2>3, WaitsOnly
  <2>5. transport' = [transport EXCEPT ![t] = y]
    BY <1>5, <2>3
  <2>6. TransportInv'
    BY <1>5, <2>4, <2>5, OneChanges
  <2> QED BY <2>1, <2>2, <2>6, PartsNext
<1>6. CASE /\ state # "ready" /\ stage = "none" /\ StartAttempts
           /\ transport' = [u \in Transports |->
                 LET x == IF u = t THEN [transport[u] EXCEPT !.waits = TRUE]
                                   ELSE transport[u]
                 IN IF x.open /\ state # "connecting"
                    THEN Handle(u, x, "connecting", generation) ELSE x]
           /\ UNCHANGED <<socket, generation, reconnect, opened, net>>
  <2>1. ConnectionInv'
    BY <1>6, AttemptStarts DEF Connect
  <2>2. RequestInv'
    BY <1>1, <1>6, RequestsKept DEF Connect
  <2>3. ASSUME NEW u \in Transports
        PROVE  transport'[u] \in Records(opened) /\ Informed(u, transport'[u], "connecting", generation, CanEmit)
    <3>1. PICK x : x = IF u = t THEN [transport[u] EXCEPT !.waits = TRUE] ELSE transport[u]
      OBVIOUS
    <3>2. x \in Records(opened) /\ Informed(u, x, state, generation, CanEmit) /\ JoinFits(u, x)
      <4>1. CASE u = t
        <5>1. x = [transport[t] EXCEPT !.waits = TRUE] /\ transport[t] \in Records(opened)
              /\ Informed(t, transport[t], state, generation, CanEmit)
          BY <1>2, <3>1, <4>1
        <5>2. x \in Records(opened) /\ Informed(t, x, state, generation, CanEmit)
          BY <1>3, <5>1, WaitsOnly
        <5> QED BY <4>1, <5>2 DEF Informed
      <4>2. CASE u # t
        BY <1>2, <3>1, <4>2
      <4> QED BY <4>1, <4>2
    <3>3. transport'[u] = IF x.open /\ state # "connecting"
                          THEN Handle(u, x, "connecting", generation) ELSE x
      BY <1>6, <3>1
    <3>4. CASE x.open = TRUE /\ state # "connecting"
      <4>1. transport'[u] = Handle(u, x, "connecting", generation)
        BY <3>3, <3>4
      <4> QED BY <1>1, <3>2, <3>4, <4>1, HandleInforms
    <3>5. CASE x.open = FALSE /\ state # "connecting"
      <4>1. transport'[u] = x
        BY <3>3, <3>5
      <4>2. Informed(u, x, "connecting", generation, CanEmit)
        BY <3>2, <3>5, Zenon DEF Informed
      <4> QED BY <3>2, <4>1, <4>2
    <3>6. CASE state = "connecting"
      BY <3>2, <3>3, <3>6
    <3>7. x.open \in BOOLEAN
      BY <3>2 DEF Records
    <3> QED BY <3>4, <3>5, <3>6, <3>7
  <2>4. /\ state' = "connecting" /\ stage' = "ticket" /\ UNCHANGED <<generation, opened>>
        /\ transport' = [u \in Transports |-> transport'[u]]
    BY <1>6 DEF StartAttempts
  <2>5. transport' \in [Transports -> Records(opened)]'
    BY <2>3, <2>4 DEF Records
  <2>6. TransportsFit'
    <3>1. \A u \in Transports : Informed(u, transport'[u], state', generation', CanEmit')
      <4> SUFFICES ASSUME NEW u \in Transports
                   PROVE  Informed(u, transport'[u], state', generation', CanEmit')
        OBVIOUS
      <4>1. Informed(u, transport'[u], "connecting", generation, CanEmit)
        BY <2>3
      <4> QED BY <2>4, <4>1, StaysInformed
    <3> QED BY <2>4, <3>1 DEF TransportsFit
  <2>7. TransportInv'
    BY <2>5, <2>6 DEF TransportInv
  <2> QED BY <2>1, <2>2, <2>7, PartsNext
<1> QED BY <1>4, <1>5, <1>6 DEF Connect

LEMMA OpenTransportStep ==
    ASSUME Inv, NEW t \in Transports, OpenTransport(t)
    PROVE  Inv'
<1>1. opened \in Nat
  BY ConnectionFacts
<1>2. ConnectionInv' /\ RequestInv'
  BY <1>1, ConnectionKept, RequestsKept DEF OpenTransport, connection
<1>3. PICK y : y = [NoTransport EXCEPT !.open = TRUE]
  OBVIOUS
<1>4. /\ y \in Records(opened) /\ y.open = TRUE /\ y.waits = FALSE /\ JoinFits(t, y)
      /\ y.listens = "none" /\ y.notified = NoSocket /\ y.gone = FALSE
  <2>1. NoTransport \in Records(opened) /\ JoinFits(t, NoTransport)
    BY <1>1, NoTransportFits
  <2>2. /\ y \in Records(opened) /\ y.open = TRUE /\ y.waits = NoTransport.waits
        /\ y.joined = NoTransport.joined /\ y.notified = NoTransport.notified
        /\ y.frames = NoTransport.frames /\ y.listens = NoTransport.listens
        /\ y.gone = NoTransport.gone
    BY <1>3, <2>1 DEF Records
  <2>3. /\ NoTransport.waits = FALSE /\ NoTransport.notified = NoSocket
        /\ NoTransport.listens = "none" /\ NoTransport.gone = FALSE
    BY DEF NoTransport
  <2> QED BY <2>1, <2>2, <2>3, Zenon DEF JoinFits
<1>5. Informed(t, y, state, generation, CanEmit)
  BY <1>4, Zenon DEF Informed, Told
<1>6. TransportInv'
  BY <1>3, <1>4, <1>5, OneChanges DEF OpenTransport
<1> QED BY <1>2, <1>6, PartsNext

LEMMA AttachStep ==
    ASSUME Inv, NEW t \in Transports, Attach(t)
    PROVE  Inv'
<1>1. /\ opened \in Nat /\ generation \in 0..opened
      /\ state = "ready" => generation # NoSocket
  BY ConnectionFacts
<1>2. ConnectionInv' /\ RequestInv'
  BY <1>1, ConnectionKept, RequestsKept DEF Attach, connection
<1>3. /\ transport[t] \in Records(opened) /\ transport[t].open = TRUE
      /\ Informed(t, transport[t], state, generation, CanEmit)
      /\ transport[t].waits = TRUE => stage # "none"
  BY TransportTypes DEF Inv, TransportsFit, Attach, Records
<1>4. PICK l \in {"generation", "all"} :
          transport' = [transport EXCEPT
              ![t] = Handle(t, [transport[t] EXCEPT !.listens = l], state, generation)]
  BY DEF Attach
<1>5. PICK x : x = [transport[t] EXCEPT !.listens = l]
  OBVIOUS
<1>6. /\ x \in Records(opened) /\ x.open = TRUE /\ x.waits = transport[t].waits
      /\ x.joined = transport[t].joined /\ x.notified = transport[t].notified
      /\ x.frames = transport[t].frames
  BY <1>3, <1>5 DEF Records
<1>7. JoinFits(t, x)
  BY <1>3, <1>6, Zenon DEF Informed, JoinFits
<1>8. state = "ready" => x.notified \in {generation, NoSocket}
  BY <1>3, <1>6, NotifiedOnce
<1>9. PICK y : y = Handle(t, x, state, generation)
  OBVIOUS
<1>10. y \in Records(opened) /\ Informed(t, y, state, generation, CanEmit) /\ y.waits = x.waits
  BY <1>1, <1>6, <1>7, <1>8, <1>9, HandleInforms
<1>11. TransportInv'
  BY <1>3, <1>4, <1>5, <1>6, <1>9, <1>10, OneChanges DEF Attach
<1> QED BY <1>2, <1>11, PartsNext

LEMMA CloseTransportStep ==
    ASSUME Inv, NEW t \in Transports, CloseTransport(t)
    PROVE  Inv'
<1>1. /\ opened \in Nat /\ generation \in 0..opened
      /\ state = "ready" => generation # NoSocket
  BY ConnectionFacts
<1>2. ConnectionInv' /\ RequestInv'
  BY <1>1, ConnectionKept, RequestsKept DEF CloseTransport, connection
<1>3. NoTransport \in Records(opened) /\ JoinFits(t, NoTransport)
  BY <1>1, NoTransportFits
<1>4. NoTransport.open = FALSE /\ NoTransport.waits = FALSE
  BY DEF NoTransport
<1>5. Informed(t, NoTransport, state, generation, CanEmit)
  BY <1>3, <1>4, Zenon DEF Informed
<1>6. TransportInv'
  BY <1>3, <1>4, <1>5, OneChanges DEF CloseTransport
<1> QED BY <1>2, <1>6, PartsNext

LEMMA DisconnectStep ==
    ASSUME Inv, Disconnect
    PROVE  Inv'
<1>1. /\ opened \in Nat /\ ConnectionTypes /\ StageFits /\ SocketFits
  BY ConnectionFacts
<1>2. ConnectionTypes'
  <2>1. explicitlyClosed' \in BOOLEAN
    BY Zenon DEF Disconnect
  <2>2. net' \in [Sockets -> {"unused", "live", "closing", "closed"}]
    BY <1>1 DEF Disconnect, Closing, ConnectionTypes
  <2> QED BY <1>1, <2>1, <2>2 DEF Disconnect, ConnectionTypes, NoSocket, Ended
<1>3. StageFits'
  BY <1>1 DEF Disconnect, StageFits, Awaiting
<1>4. SocketFits'
  BY <1>1 DEF Disconnect, SocketFits, NoSocket, Closing, Awaiting, Sockets, ConnectionTypes
<1>5. ConnectionInv'
  BY <1>2, <1>3, <1>4 DEF ConnectionInv
<1>6. RequestInv'
  BY RequestsRejected DEF Disconnect, Outcomes
<1>7. NoSocket \in 0..opened
  BY <1>1 DEF NoSocket
<1>8. Retold("closed", NoSocket)
  BY <1>7, NotifyTells DEF Disconnect
<1>9. state' = "closed" /\ generation' = NoSocket /\ opened' = opened
      /\ (stage # "none" => stage' # "none")
  BY DEF Disconnect, Awaiting
<1>10. TransportInv'
  BY <1>8, <1>9, RetoldFits
<1> QED BY <1>5, <1>6, <1>10, PartsNext

\* A step of the requests alone.
LEMMA RequestsOnly ==
    ASSUME Inv, UNCHANGED <<connection, transport, last>>, RequestInv'
    PROVE  Inv'
<1>1. ConnectionInv'
  BY ConnectionKept
<1>2. UNCHANGED <<state, stage, generation, opened>> /\ opened \in Nat
  BY ConnectionFacts DEF connection
<1>3. CanEmit' <=> CanEmit
  BY DEF connection, CanEmit
<1>4. TransportInv'
  BY <1>2, <1>3, UntoldFits
<1> QED BY <1>1, <1>4, PartsNext

LEMMA RequestStep ==
    ASSUME Inv, NEW r \in Requests, Request(r)
    PROVE  Inv'
<1>1. UNCHANGED <<state, socket, opened>>
  BY DEF Request, connection
<1>2. RequestTypes /\ PendingFits /\ socket \in 0..opened
  BY InvParts, ConnectionFacts DEF RequestInv
<1>3. RequestInv'
  BY <1>1, <1>2 DEF Request, RequestInv, RequestTypes, PendingFits, Outcomes
<1> QED BY <1>3, RequestsOnly DEF Request

LEMMA CancelStep ==
    ASSUME Inv, NEW r \in Requests, Cancel(r)
    PROVE  Inv'
<1>1. UNCHANGED <<state, socket, opened>>
  BY DEF Cancel, connection
<1>2. RequestTypes /\ PendingFits
  BY InvParts DEF RequestInv
<1>3. RequestInv'
  BY <1>1, <1>2 DEF Cancel, Pending, RequestInv, RequestTypes, PendingFits, Outcomes
<1> QED BY <1>3, RequestsOnly DEF Cancel

LEMMA AnswerStep ==
    ASSUME Inv, NEW r \in Requests, Answer(r)
    PROVE  Inv'
<1>1. UNCHANGED <<state, socket, opened>>
  BY DEF Answer, connection
<1>2. RequestTypes /\ PendingFits /\ opened \in Nat
  BY InvParts, ConnectionFacts DEF RequestInv
<1>3. RequestInv'
  BY <1>1, <1>2 DEF Answer, Pending, RequestInv, RequestTypes, PendingFits, Outcomes, NoSocket
<1> QED BY <1>3, RequestsOnly DEF Answer

LEMMA ReconnectStep ==
    ASSUME Inv, Reconnect
    PROVE  Inv'
<1>1. /\ opened \in Nat /\ generation \in 0..opened
      /\ ConnectionTypes /\ StageFits /\ SocketFits
  BY ConnectionFacts
<1>2. CASE /\ ~explicitlyClosed /\ socket = NoSocket /\ state # "ready" /\ stage = "none"
           /\ StartAttempts /\ Notify("connecting", generation)
  <2>1. ConnectionInv'
    BY <1>2, AttemptStarts DEF Reconnect
  <2>2. RequestInv'
    BY <1>1, <1>2, RequestsKept DEF Reconnect
  <2>3. Retold("connecting", generation)
    BY <1>1, <1>2, NotifyTells
  <2>4. state' = "connecting" /\ UNCHANGED <<generation, opened>>
    BY <1>2 DEF Reconnect, StartAttempts
  <2>5. TransportInv'
    BY <1>2, <2>3, <2>4, RetoldFits
  <2> QED BY <2>1, <2>2, <2>5, PartsNext
<1>3. CASE /\ ~(~explicitlyClosed /\ socket = NoSocket /\ state # "ready" /\ stage = "none")
           /\ UNCHANGED <<state, explicitlyClosed, stage, attempt, transport>>
  <2>1. UNCHANGED <<state, explicitlyClosed, stage, attempt, transport, socket, generation,
                    opened, net, requests, last>>
    BY <1>3 DEF Reconnect
  <2>2. reconnect' = FALSE /\ reconnect' \in BOOLEAN
    BY Zenon DEF Reconnect
  <2>3. ConnectionTypes'
    BY <1>1, <2>1, <2>2, Zenon DEF ConnectionTypes
  <2>4. SocketFits'
    BY <1>1, <2>1 DEF SocketFits
  <2>5. StageFits'
    <3>1. state = "connecting" => stage \in Awaiting
      BY <1>1, <1>3 DEF StageFits, SocketFits, ConnectionTypes, Ended, Awaiting
    <3> QED BY <1>1, <2>1, <2>2, <3>1 DEF StageFits
  <2>6. RequestInv'
    BY <1>1, <2>1, RequestsKept
  <2>7. CanEmit' <=> CanEmit
    BY <2>1 DEF CanEmit
  <2>8. TransportInv'
    BY <1>1, <2>1, <2>7, UntoldFits
  <2> QED BY <2>3, <2>4, <2>5, <2>6, <2>8, PartsNext DEF ConnectionInv
<1> QED BY <1>2, <1>3 DEF Reconnect

LEMMA TicketIssuedStep ==
    ASSUME Inv, TicketIssued
    PROVE  Inv'
<1>1. /\ opened \in Nat /\ ConnectionTypes /\ StageFits /\ SocketFits
  BY ConnectionFacts
<1>2. state = "connecting" /\ socket = NoSocket /\ opened' = opened + 1 /\ socket' = opened + 1
  BY <1>1 DEF TicketIssued, StageFits, SocketFits, Awaiting
<1>3. ConnectionTypes'
  <2>1. opened' \in 0..MaxSockets
    BY <1>1, <1>2, SizesAssumption DEF TicketIssued, ConnectionTypes
  <2>2. net' \in [Sockets -> {"unused", "live", "closing", "closed"}]
    BY <1>1 DEF TicketIssued, Opening, ConnectionTypes
  <2>3. stage' \in {"none"} \cup Awaiting \cup Ended
    BY DEF TicketIssued, Awaiting
  <2> QED BY <1>1, <1>2, <2>1, <2>2, <2>3 DEF TicketIssued, ConnectionTypes
<1>4. StageFits'
  BY <1>1, <1>2 DEF TicketIssued, StageFits, Awaiting
<1>5. SocketFits'
  <2>1. \A s \in Sockets : net'[s] = "live" => s = socket'
    BY <1>1, <1>2 DEF TicketIssued, Opening, SocketFits, ConnectionTypes, Sockets, NoSocket
  <2> QED BY <1>1, <1>2, <2>1 DEF TicketIssued, SocketFits, ConnectionTypes, NoSocket
<1>6. ConnectionInv'
  BY <1>3, <1>4, <1>5 DEF ConnectionInv
<1>7. RequestInv'
  BY <1>1, <1>2, RequestsKept DEF TicketIssued
<1>8. TransportInv'
  BY <1>1, <1>2, UntoldFits DEF TicketIssued
<1> QED BY <1>6, <1>7, <1>8, PartsNext

\* The catch of #connectWithRetries, from an attempt that had no socket or lost it.
LEMMA AttemptFailsFits ==
    ASSUME Inv, NEW code, AttemptFails(code), Quiet, stage \in {"ticket", "socket"},
           UNCHANGED <<explicitlyClosed, attempt, reconnect, opened, last>>,
           generation' = NoSocket,
           net' \in [Sockets -> {"unused", "live", "closing", "closed"}],
           \A s \in Sockets : net'[s] = "live" => net[s] = "live" /\ s # socket
    PROVE  ConnectionInv' /\ TransportInv'
<1>1. /\ opened \in Nat /\ ConnectionTypes /\ StageFits /\ SocketFits
      /\ generation \in 0..opened
  BY ConnectionFacts
<1>2. state = "connecting" /\ generation = NoSocket
  BY <1>1 DEF StageFits, SocketFits, Awaiting
<1>3. socket' = NoSocket /\ state' # "ready"
      /\ \/ stage' = "rejected" /\ state' = "closed"
         \/ stage' = "delay" /\ state' = "connecting" /\ attempt # MaxRetries
  BY <1>2 DEF AttemptFails
<1>4. ConnectionTypes'
  BY <1>1, <1>3 DEF ConnectionTypes, NoSocket, Awaiting, Ended
<1>5. StageFits'
  <2>1. explicitlyClosed = FALSE /\ reconnect = FALSE
    <3>1. explicitlyClosed \in BOOLEAN /\ reconnect \in BOOLEAN
      BY <1>1 DEF ConnectionTypes
    <3>2. ~explicitlyClosed /\ ~reconnect
      BY <1>1, <1>2 DEF StageFits, Quiet
    <3> QED BY <3>1, <3>2, Zenon
  <2>2. stage' = "delay" => attempt' < MaxRetries
    BY <1>1, <1>3, SizesAssumption DEF ConnectionTypes
  <2> QED BY <1>3, <2>1, <2>2 DEF StageFits, Awaiting
<1>6. SocketFits'
  BY <1>1, <1>3 DEF SocketFits
<1>7. Retold(state', generation)
  BY <1>1, <1>3, NotifyTells DEF AttemptFails
<1>8. TransportInv'
  BY <1>2, <1>3, <1>7, RetoldFits
<1> QED BY <1>4, <1>5, <1>6, <1>8 DEF ConnectionInv

LEMMA TicketRefusedStep ==
    ASSUME Inv, NEW code, TicketRefused(code)
    PROVE  Inv'
<1>1. /\ opened \in Nat /\ ConnectionTypes /\ StageFits /\ SocketFits
  BY ConnectionFacts
<1>2. state = "connecting" /\ socket = NoSocket /\ generation = NoSocket
  BY <1>1 DEF TicketRefused, StageFits, SocketFits, Awaiting
<1>3. \A s \in Sockets : net'[s] = "live" => net[s] = "live" /\ s # socket
  BY <1>1, <1>2 DEF TicketRefused, SocketFits, Sockets, NoSocket
<1>4. net' \in [Sockets -> {"unused", "live", "closing", "closed"}]
  BY <1>1 DEF TicketRefused, ConnectionTypes
<1>5. ConnectionInv' /\ TransportInv'
  BY <1>2, <1>3, <1>4, AttemptFailsFits DEF TicketRefused
<1>6. RequestInv'
  BY <1>1, <1>2, RequestsKept DEF TicketRefused
<1> QED BY <1>5, <1>6, PartsNext

LEMMA NotConnectedStep ==
    ASSUME Inv, NEW code, NotConnected(code)
    PROVE  Inv'
<1>1. /\ opened \in Nat /\ ConnectionTypes /\ StageFits /\ SocketFits
  BY ConnectionFacts
<1>2. state = "connecting" /\ generation = NoSocket
  BY <1>1 DEF NotConnected, StageFits, SocketFits, Awaiting
<1>3. \A s \in Sockets : net'[s] = "live" => net[s] = "live" /\ s # socket
  BY DEF NotConnected, Closing
<1>4. net' \in [Sockets -> {"unused", "live", "closing", "closed"}]
  BY <1>1 DEF NotConnected, Closing, ConnectionTypes
<1>5. ConnectionInv' /\ TransportInv'
  BY <1>2, <1>3, <1>4, AttemptFailsFits DEF NotConnected
<1>6. RequestInv'
  BY <1>1, <1>2, RequestsKept DEF NotConnected
<1> QED BY <1>5, <1>6, PartsNext

LEMMA DelayEndsStep ==
    ASSUME Inv, DelayEnds
    PROVE  Inv'
<1>1. /\ opened \in Nat /\ ConnectionTypes /\ StageFits /\ SocketFits
  BY ConnectionFacts
<1>2. state = "connecting" /\ attempt < MaxRetries
  BY <1>1 DEF DelayEnds, StageFits, Awaiting
<1>3. ConnectionTypes'
  BY <1>1, <1>2, SizesAssumption DEF DelayEnds, ConnectionTypes, Awaiting
<1>4. StageFits'
  BY <1>1, <1>2 DEF DelayEnds, StageFits, Awaiting
<1>5. SocketFits'
  BY <1>1 DEF DelayEnds, SocketFits
<1>6. RequestInv'
  BY <1>1, RequestsKept DEF DelayEnds
<1>7. CanEmit' <=> CanEmit
  BY DEF DelayEnds, CanEmit
<1>8. TransportInv'
  BY <1>1, <1>7, UntoldFits DEF DelayEnds
<1> QED BY <1>3, <1>4, <1>5, <1>6, <1>8, PartsNext DEF ConnectionInv

LEMMA ConnectedStep ==
    ASSUME Inv, Connected
    PROVE  Inv'
<1>1. /\ opened \in Nat /\ socket \in 0..opened /\ ConnectionTypes /\ StageFits /\ SocketFits
  BY ConnectionFacts
<1>2. state = "connecting" /\ socket # NoSocket /\ generation' = socket /\ last' = socket
      /\ state' = "ready" /\ stage' = "resolved"
  BY <1>1 DEF Connected, StageFits, SocketFits, Awaiting
<1>3. ConnectionTypes'
  BY <1>1, <1>2 DEF Connected, ConnectionTypes, Ended
<1>4. StageFits'
  <2>1. explicitlyClosed' = FALSE /\ reconnect' = FALSE
    <3>1. explicitlyClosed \in BOOLEAN /\ reconnect \in BOOLEAN
      BY <1>1 DEF ConnectionTypes
    <3>2. ~explicitlyClosed /\ ~reconnect
      BY <1>1, <1>2 DEF Connected, StageFits, Quiet
    <3> QED BY <3>1, <3>2, Zenon DEF Connected
  <2> QED BY <1>2, <2>1 DEF StageFits, Awaiting
<1>5. SocketFits'
  BY <1>1, <1>2 DEF Connected, SocketFits
<1>6. RequestInv'
  BY <1>1, <1>2, RequestsKept DEF Connected
<1>7. Retold("ready", socket)
  BY <1>1, <1>2, NotifyTells DEF Connected
<1>8. TransportInv'
  BY <1>2, <1>7, RetoldFits DEF Connected
<1> QED BY <1>3, <1>4, <1>5, <1>6, <1>8, PartsNext DEF ConnectionInv

LEMMA SocketFailsStep ==
    ASSUME Inv, NEW s \in Sockets, SocketFails(s)
    PROVE  Inv'
<1>1. /\ opened \in Nat /\ ConnectionTypes /\ StageFits /\ SocketFits
  BY ConnectionFacts
<1>2. ConnectionTypes'
  BY <1>1 DEF SocketFails, ConnectionTypes
<1>3. StageFits'
  BY <1>1 DEF SocketFails, StageFits
<1>4. SocketFits'
  BY <1>1 DEF SocketFails, SocketFits, ConnectionTypes
<1>5. RequestInv'
  BY <1>1, RequestsKept DEF SocketFails
<1>6. CanEmit' => CanEmit
  <2>1. net \in [Sockets -> {"unused", "live", "closing", "closed"}]
    BY <1>1 DEF ConnectionTypes
  <2>2. \A n \in DOMAIN net : net'[n] = IF n = s THEN "closing" ELSE net[n]
    BY DEF SocketFails
  <2>3. socket # NoSocket => socket \in Sockets
    BY <1>1, SizesAssumption DEF ConnectionTypes, NoSocket, Sockets
  <2> QED BY <2>1, <2>2, <2>3 DEF CanEmit, SocketFails
<1>7. TransportInv'
  BY <1>1, <1>6, UntoldFits DEF SocketFails
<1> QED BY <1>2, <1>3, <1>4, <1>5, <1>7, PartsNext DEF ConnectionInv

LEMMA SocketClosesStep ==
    ASSUME Inv, NEW s \in Sockets, SocketCloses(s)
    PROVE  Inv'
<1>1. /\ opened \in Nat /\ ConnectionTypes /\ StageFits /\ SocketFits
  BY ConnectionFacts
<1>2. /\ net' \in [Sockets -> {"unused", "live", "closing", "closed"}]
      /\ \A n \in Sockets : net'[n] = "live" => net[n] = "live" /\ n # s
  BY <1>1 DEF SocketCloses, ConnectionTypes
<1>3. UNCHANGED <<explicitlyClosed, attempt, opened, asked, last>> /\ Quiet
  BY DEF SocketCloses
<1>4. CASE s # socket /\ UNCHANGED <<state, stage, socket, generation, reconnect, result, transport>>
  <2>1. ConnectionTypes'
    BY <1>1, <1>2, <1>3, <1>4 DEF ConnectionTypes
  <2>2. StageFits'
    BY <1>1, <1>3, <1>4 DEF StageFits
  <2>3. SocketFits'
    BY <1>1, <1>2, <1>3, <1>4 DEF SocketFits
  <2>4. RequestInv'
    BY <1>1, <1>3, <1>4, RequestsKept DEF requests
  <2>5. CanEmit' => CanEmit
    <3>1. socket # NoSocket => socket \in Sockets
      BY <1>1, SizesAssumption DEF ConnectionTypes, NoSocket, Sockets
    <3> QED BY <1>2, <1>4, <3>1 DEF CanEmit
  <2>6. TransportInv'
    BY <1>1, <1>3, <1>4, <2>5, UntoldFits
  <2> QED BY <2>1, <2>2, <2>3, <2>4, <2>6, PartsNext DEF ConnectionInv
<1>5. CASE /\ s = socket /\ stage = "socket" /\ generation' = NoSocket
           /\ result' = RejectAll("socket_closed") /\ AttemptFails("socket_closed")
           /\ UNCHANGED reconnect
  <2>1. ConnectionInv' /\ TransportInv'
    BY <1>2, <1>3, <1>5, AttemptFailsFits
  <2>2. RequestInv'
    BY <1>3, <1>5, RequestsRejected DEF Outcomes
  <2> QED BY <2>1, <2>2, PartsNext
<1>6. CASE /\ s = socket /\ stage # "socket" /\ socket' = NoSocket /\ generation' = NoSocket
           /\ result' = RejectAll("socket_closed") /\ state' = "connecting" /\ reconnect' = TRUE
           /\ Notify("connecting", NoSocket) /\ UNCHANGED stage
  <2>1. state = "ready" /\ stage = "none"
    BY <1>1, <1>3, <1>6 DEF SocketFits, StageFits, Sockets, NoSocket, Quiet, Awaiting, ConnectionTypes
  <2>2. ConnectionTypes'
    <3>1. reconnect' \in BOOLEAN /\ NoSocket \in 0..opened
      BY <1>1, <1>6 DEF NoSocket
    <3> QED BY <1>1, <1>2, <1>3, <1>6, <3>1 DEF ConnectionTypes
  <2>3. StageFits'
    BY <1>1, <1>3, <1>6, <2>1 DEF StageFits, Awaiting
  <2>4. SocketFits'
    BY <1>1, <1>2, <1>6 DEF SocketFits
  <2>5. RequestInv'
    BY <1>3, <1>6, RequestsRejected DEF Outcomes
  <2>6. NoSocket \in 0..opened
    BY <1>1 DEF NoSocket
  <2>7. Retold("connecting", NoSocket)
    BY <1>6, <2>6, NotifyTells
  <2>8. TransportInv'
    BY <1>3, <1>6, <2>7, RetoldFits
  <2> QED BY <2>2, <2>3, <2>4, <2>5, <2>8, PartsNext DEF ConnectionInv
<1> QED BY <1>4, <1>5, <1>6 DEF SocketCloses

-----------------------------------------------------------------------------
(***************************************************************************)
(* The theorems                                                            *)
(***************************************************************************)
LEMMA StepInv ==
    ASSUME Inv, [Next]_vars
    PROVE  Inv'
<1>1. CASE Disconnect
  BY <1>1, DisconnectStep
<1>2. ASSUME NEW t \in Transports, Connect(t) \/ OpenTransport(t) \/ Attach(t) \/ CloseTransport(t)
      PROVE  Inv'
  BY <1>2, ConnectStep, OpenTransportStep, AttachStep, CloseTransportStep
<1>3. ASSUME NEW r \in Requests, Request(r) \/ Cancel(r) \/ Answer(r)
      PROVE  Inv'
  BY <1>3, RequestStep, CancelStep, AnswerStep
<1>4. CASE Microtask
  BY <1>4, FinishStep, ReconnectStep DEF Microtask
<1>5. CASE TicketIssued \/ DelayEnds \/ Connected
  BY <1>5, TicketIssuedStep, DelayEndsStep, ConnectedStep
<1>6. ASSUME NEW code, TicketRefused(code) \/ NotConnected(code)
      PROVE  Inv'
  BY <1>6, TicketRefusedStep, NotConnectedStep
<1>7. ASSUME NEW s \in Sockets, SocketFails(s) \/ SocketCloses(s)
      PROVE  Inv'
  BY <1>7, SocketFailsStep, SocketClosesStep
<1>8. CASE UNCHANGED vars
  <2>1. UNCHANGED <<connection, requests, transport, last>>
    BY <1>8 DEF vars
  <2>2. opened \in Nat /\ UNCHANGED <<state, socket, opened>>
    BY <2>1, ConnectionFacts DEF connection
  <2>3. RequestInv'
    BY <2>1, <2>2, RequestsKept
  <2> QED BY <2>1, <2>3, RequestsOnly
<1> QED BY <1>1, <1>2, <1>3, <1>4, <1>5, <1>6, <1>7, <1>8 DEF Next, Call, Task

\* The invariant of the connection.
THEOREM ConnectionInvariantHolds == Spec => []Inv
<1>1. Inv /\ [Next]_vars => Inv'
  BY StepInv
<1> QED BY <1>1, InitInv, PTL DEF Spec

\* ConnectionIsSound: the status, the attempt, the requests and the sockets never
\* disagree, at whatever turn of the event loop a failure or a disconnect comes.
THEOREM ConnectionStaysSound == Spec => []ConnectionIsSound
<1>1. Inv => ConnectionIsSound
  <2> SUFFICES ASSUME Inv PROVE ConnectionIsSound
    OBVIOUS
  <2>1. ConnectionTypes /\ StageFits /\ SocketFits /\ PendingFits /\ TypeOK
    BY ConnectionFacts DEF Inv
  <2>2. ConnectingHasAttempt
    BY <2>1 DEF ConnectingHasAttempt, StageFits, ConnectionTypes
  <2>3. PendingOnGeneration
    BY <2>1 DEF PendingOnGeneration, Pending, PendingFits, SocketFits
  <2>4. OneLiveSocket
    BY <2>1 DEF OneLiveSocket, SocketFits
  <2> QED BY <2>1, <2>2, <2>3, <2>4 DEF ConnectionIsSound
<1> QED BY <1>1, ConnectionInvariantHolds, PTL

\* ConversationsInformed: each conversation is told of each connection that can
\* carry its join and of its loss, and joins its channel once.
THEOREM ConversationsStayInformed == Spec => []ConversationsInformed
<1>1. Inv => ConversationsInformed
  <2> SUFFICES ASSUME Inv PROVE ConversationsInformed
    OBVIOUS
  <2>1. ASSUME NEW t \in Transports
        PROVE  /\ Informed(t, transport[t], state, generation, CanEmit)
               /\ transport[t] \in Records(opened)
    BY TransportTypes DEF Inv, TransportsFit
  <2>2. TransportsInformed
    <3> SUFFICES ASSUME NEW t \in Transports, NEW x, x = transport[t], x.listens # "none"
                 PROVE  IF state = "ready"
                        THEN \/ /\ x.notified = generation /\ ~x.gone
                                /\ t \in Channels => x.joined = generation
                             \/ t \in Channels /\ x.notified = NoSocket /\ ~CanEmit
                        ELSE x.notified # NoSocket => x.gone
      BY Zenon DEF TransportsInformed
    <3>1. x.open = TRUE
      <4>1. x # NoTransport
        <5>1. NoTransport.listens = "none"
          BY DEF NoTransport
        <5> QED BY <5>1, Zenon
      <4> QED BY <2>1, <4>1 DEF Informed, Records
    <3>2. JoinFits(t, x) /\ Told(t, x, state, generation, CanEmit)
      BY <2>1, <3>1, Zenon DEF Informed
    <3> QED BY <3>2, Zenon DEF JoinFits, Told
  <2>3. JoinsOnce
    BY <2>1 DEF JoinsOnce, Informed, JoinFits
  <2> QED BY <2>2, <2>3 DEF ConversationsInformed
<1> QED BY <1>1, ConnectionInvariantHolds, PTL

-----------------------------------------------------------------------------
(***************************************************************************)
(* The connection implements ChatLink                                      *)
(***************************************************************************)
LinkStep == Link!Next \/ UNCHANGED <<state, last, Pending>>

LEMMA NonePending ==
    ASSUME Inv, state # "ready"
    PROVE  Pending = {}
BY DEF Inv, PendingFits, Pending

LEMMA NonePendingNext ==
    ASSUME Inv', state' # "ready"
    PROVE  Pending' = {}
BY DEF Inv, PendingFits, Pending

LEMMA PendingKept ==
    ASSUME result' = result
    PROVE  Pending' = Pending
BY DEF Pending

\* The steps of one transport: at most they open the connection.
LEMMA TransportRefines ==
    ASSUME Inv, NEW t \in Transports, Connect(t) \/ OpenTransport(t) \/ Attach(t) \/ CloseTransport(t)
    PROVE  LinkStep
<1>1. Pending' = Pending /\ last' = last
  BY PendingKept DEF Connect, OpenTransport, Attach, CloseTransport, requests
<1>2. CASE state' = state
  BY <1>1, <1>2 DEF LinkStep
<1>3. CASE state' # state
  <2>1. state = "closed" /\ state' = "connecting"
    <3>1. state \in {"closed", "connecting", "ready"}
      BY ConnectionFacts DEF ConnectionTypes
    <3> QED BY <1>3, <3>1 DEF Connect, OpenTransport, Attach, CloseTransport, StartAttempts, connection
  <2> QED BY <1>1, <2>1 DEF LinkStep, Link!Next, Link!Open
<1> QED BY <1>2, <1>3

LEMMA DisconnectRefines ==
    ASSUME Inv, Inv', Disconnect
    PROVE  LinkStep
<1>1. state' = "closed" /\ last' = last /\ Pending' = {}
  BY NonePendingNext DEF Disconnect
<1>2. CASE state = "closed"
  BY <1>1, <1>2, NonePending DEF LinkStep
<1>3. CASE state # "closed"
  BY <1>1, <1>3 DEF LinkStep, Link!Next, Link!Close
<1> QED BY <1>2, <1>3

\* The steps of one request: it begins to wait, or it settles.
LEMMA RequestRefines ==
    ASSUME Inv, NEW r \in Requests, Request(r) \/ Cancel(r) \/ Answer(r)
    PROVE  LinkStep
<1>1. UNCHANGED <<state, last>> /\ result \in [Requests -> {"unused", "waiting"} \cup Outcomes]
  BY DEF Request, Cancel, Answer, connection, Inv, TypeOK
<1>2. CASE r \notin Pending /\ Pending' = Pending \cup {r}
  <2>1. state = "ready"
    BY <1>1, <1>2 DEF Request, Cancel, Answer, Pending
  <2> QED BY <1>1, <1>2, <2>1 DEF LinkStep, Link!Next, Link!Ask
<1>3. CASE r \in Pending /\ Pending' = Pending \ {r}
  BY <1>1, <1>3 DEF LinkStep, Link!Next, Link!Settle
<1>4. CASE Pending' = Pending
  BY <1>1, <1>4 DEF LinkStep
<1>5. \/ r \notin Pending /\ Pending' = Pending \cup {r}
      \/ r \in Pending /\ Pending' = Pending \ {r}
      \/ Pending' = Pending
  <2>1. CASE Request(r)
    BY <1>1, <2>1 DEF Request, Pending
  <2>2. CASE Cancel(r)
    BY <1>1, <2>2 DEF Cancel, Pending
  <2>3. CASE Answer(r)
    BY <1>1, <2>3 DEF Answer, Pending
  <2> QED BY <2>1, <2>2, <2>3
<1> QED BY <1>2, <1>3, <1>4, <1>5

\* An attempt that fails goes on, or gives up.
LEMMA AttemptFailsRefines ==
    ASSUME Inv, Inv', NEW code, AttemptFails(code), state = "connecting", last' = last
    PROVE  LinkStep
<1>1. state' \in {"connecting", "closed"}
  BY DEF AttemptFails
<1>2. Pending = {} /\ Pending' = {}
  BY <1>1, NonePending, NonePendingNext
<1> QED BY <1>1, <1>2 DEF LinkStep, Link!Next, Link!GiveUp

LEMMA ReconnectRefines ==
    ASSUME Inv, Reconnect
    PROVE  LinkStep /\ (state = "closed" => state' = "closed")
<1>1. StageFits /\ ConnectionTypes
  BY ConnectionFacts
<1>2. Pending' = Pending /\ last' = last
  BY PendingKept DEF Reconnect, requests
<1>3. CASE state = "closed"
  <2>1. explicitlyClosed
    BY <1>1, <1>3 DEF Reconnect, StageFits
  <2>2. state' = state
    BY <2>1 DEF Reconnect
  <2> QED BY <1>2, <1>3, <2>2 DEF LinkStep
<1>4. CASE state # "closed"
  <2>1. state' = state
    BY <1>1, <1>4 DEF Reconnect, StartAttempts, ConnectionTypes
  <2> QED BY <1>2, <1>4, <2>1 DEF LinkStep
<1> QED BY <1>3, <1>4

\* A generation is new when gateway.connected arrives.
LEMMA ConnectedRefines ==
    ASSUME Inv, Connected
    PROVE  LinkStep /\ state # "closed"
<1>1. StageFits /\ SocketFits /\ socket \in Nat
  BY ConnectionFacts
<1>2. state = "connecting" /\ state' = "ready" /\ last' = socket /\ last < socket
  BY <1>1 DEF Connected, StageFits, SocketFits, Awaiting
<1>3. Pending' = Pending
  BY PendingKept DEF Connected, requests
<1> QED BY <1>1, <1>2, <1>3 DEF LinkStep, Link!Next, Link!Establish

LEMMA SocketClosesRefines ==
    ASSUME Inv, Inv', NEW s \in Sockets, SocketCloses(s)
    PROVE  LinkStep /\ (state = "closed" => state' = "closed")
<1>1. ConnectionTypes /\ StageFits /\ SocketFits
  BY ConnectionFacts
<1>2. last' = last
  BY DEF SocketCloses
<1>3. CASE s # socket /\ UNCHANGED <<state, result>>
  BY <1>2, <1>3, PendingKept DEF LinkStep
<1>4. CASE s = socket /\ stage = "socket" /\ AttemptFails("socket_closed")
  <2>1. state = "connecting"
    BY <1>1, <1>4 DEF StageFits, Awaiting
  <2> QED BY <1>2, <1>4, <2>1, AttemptFailsRefines
<1>5. CASE s = socket /\ stage # "socket" /\ state' = "connecting"
  <2>1. state = "ready"
    BY <1>1, <1>5 DEF SocketFits, Sockets, NoSocket
  <2>2. Pending' = {}
    BY <1>5, NonePendingNext
  <2> QED BY <1>2, <1>5, <2>1, <2>2 DEF LinkStep, Link!Next, Link!Lose
<1> QED BY <1>3, <1>4, <1>5 DEF SocketCloses

LEMMA NextRefines ==
    ASSUME Inv, Inv', [Next]_vars
    PROVE  /\ LinkStep
           /\ state = "closed" /\ state' # "closed" => \E t \in Transports : Connect(t)
<1>1. ConnectionTypes /\ StageFits
  BY ConnectionFacts
<1>2. CASE Disconnect
  BY <1>2, DisconnectRefines DEF Disconnect
<1>3. ASSUME NEW t \in Transports, Connect(t) \/ OpenTransport(t) \/ Attach(t) \/ CloseTransport(t)
      PROVE  /\ LinkStep
             /\ state' # state => Connect(t)
  BY <1>3, TransportRefines DEF OpenTransport, Attach, CloseTransport, connection
<1>4. ASSUME NEW r \in Requests, Request(r) \/ Cancel(r) \/ Answer(r)
      PROVE  LinkStep /\ state' = state
  BY <1>4, RequestRefines DEF Request, Cancel, Answer, connection
<1>5. CASE \/ UNCHANGED vars \/ Finish \/ TicketIssued \/ DelayEnds
           \/ \E s \in Sockets : SocketFails(s)
  <2>1. UNCHANGED <<state, last, result>>
    BY <1>5 DEF vars, connection, requests, Finish, TicketIssued, DelayEnds, SocketFails
  <2> QED BY <2>1, PendingKept DEF LinkStep
<1>6. CASE Reconnect
  BY <1>6, ReconnectRefines
<1>7. CASE Connected
  BY <1>7, ConnectedRefines
<1>8. ASSUME NEW code, TicketRefused(code) \/ NotConnected(code)
      PROVE  LinkStep /\ state # "closed"
  <2>1. state = "connecting" /\ AttemptFails(code) /\ last' = last
    BY <1>1, <1>8 DEF TicketRefused, NotConnected, StageFits, Awaiting
  <2> QED BY <2>1, AttemptFailsRefines
<1>9. ASSUME NEW s \in Sockets, SocketCloses(s)
      PROVE  LinkStep /\ (state = "closed" => state' = "closed")
  BY <1>9, SocketClosesRefines
<1> QED BY <1>2, <1>3, <1>4, <1>5, <1>6, <1>7, <1>8, <1>9 DEF Next, Call, Microtask, Task

\* LinkSpec: the session is what ChatLink promises to the code above it, a new
\* generation for every connection and no request that outlives its own, and
\* nothing but a connect() opens it.
THEOREM ConnectionImplementsLink == Spec => LinkSpec
<1>1. Init => Link!Init
  BY DEF Init, Link!Init, Link!NoGeneration, NoSocket, Pending
<1>2. Inv /\ Inv' /\ [Next]_vars =>
        /\ [Link!Next]_Link!vars
        /\ [state = "closed" /\ state' # "closed" => \E t \in Transports : Connect(t)]_vars
  <2> SUFFICES ASSUME Inv, Inv', [Next]_vars
               PROVE  /\ [Link!Next]_Link!vars
                      /\ [state = "closed" /\ state' # "closed" => \E t \in Transports : Connect(t)]_vars
    OBVIOUS
  <2>1. LinkStep /\ (state = "closed" /\ state' # "closed" => \E t \in Transports : Connect(t))
    BY NextRefines
  <2> QED BY <2>1 DEF LinkStep, Link!vars
<1> QED BY <1>1, <1>2, ConnectionInvariantHolds, PTL
    DEF Spec, LinkSpec, Link!Spec, ClosedUntilConnect

=============================================================================
