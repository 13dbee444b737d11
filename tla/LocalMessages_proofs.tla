------------------------ MODULE LocalMessages_proofs ------------------------
(***************************************************************************)
(* Proofs about the messages a user sends, for any number of messages of   *)
(* the user and of others, pages of any size and any number of retries.    *)
(* The argument is that one number per message, the sequence it was        *)
(* accepted with, tells everything else: whether it is sent, which object  *)
(* shows the server's message, and whether it is still in the local list.  *)
(***************************************************************************)
EXTENDS LocalMessages, Timeline_proofs, SequenceTheorems

\* An answer names a message of the log that is stored under the key it answers.
WireFits ==
    \A id \in Ids, n \in Nat :
        Accepted(id, n) \in wire => n \in DOMAIN log /\ log[n] = id

PageFits ==
    /\ page.after \in DOMAIN log \cup {0, Null, NoPage.after}
    /\ page.through \in DOMAIN log \cup {0}
    /\ page.after \notin {Null, NoPage.after} => page.after <= page.through

\* Sent is what has a sequence; a message that waits for its answer is one that
\* the session hears of, or else it was sent too early.
StatusFits ==
    \A id \in Ids :
        /\ local[id] = "sent" <=> serverId[id] # None
        /\ id \in discarded => local[id] = "failed"
        /\ local[id] = "pending" => disposed = FALSE /\ (attached = TRUE \/ id \in unheard)

\* by gives an object to messages that timeline t knows, and the local objects are
\* those of the messages that were accepted with sid.
ByFits(by, t, sid, lg) ==
    /\ \A n \in DOMAIN by :
          /\ n \in Known(t)
          /\ by[n] # FromServer => by[n] \in Ids /\ sid[by[n]] = n
    /\ \A id \in Ids : sid[id] # None =>
          /\ sid[id] \in DOMAIN by /\ by[sid[id]] = id
          /\ lg[sid[id]] = id

ObjectsFit ==
    /\ tl.visible \subseteq DOMAIN byServerId
    /\ ByFits(byServerId, tl, serverId, log)

\* The local list holds what was not discarded and is not in view in the stream.
OrderFits == localOrder = {id \in Sent \ discarded : serverId[id] \notin tl.visible}

\* The parts of the invariant: the API and the connection, what the session knows
\* of the stream, what became of each message, and the objects that show them.
NetFits ==
    /\ log \in Seq(Ids \cup {Other}) /\ commands \subseteq Command /\ wire \subseteq Event
    /\ up \in BOOLEAN /\ attached \in BOOLEAN /\ disposed \in BOOLEAN
    /\ WireFits

ViewFits ==
    /\ IsTimeline(tl, DOMAIN log) /\ Buffered(tl)
    /\ tl.cursor = Null => tl.visible = {}
    /\ PageFits

SendFits ==
    /\ local \in [Ids -> {"none", "pending", "failed", "sent"}]
    /\ serverId \in [Ids -> DOMAIN log \cup {None}]
    /\ retries \in [Ids -> 0..Retries]
    /\ discarded \cup unheard \subseteq Sent
    /\ StatusFits

NamesFit == ObjectsFit /\ OrderFits

Inv == NetFits /\ ViewFits /\ SendFits /\ NamesFit /\ PendingIsAnswered

-----------------------------------------------------------------------------
(***************************************************************************)
(* Helpers                                                                 *)
(***************************************************************************)
\* The log of the next state goes on from this one.
Extends ==
    /\ log' \in Seq(Ids \cup {Other}) /\ DOMAIN log \subseteq DOMAIN log'
    /\ \A n \in DOMAIN log : log'[n] = log[n]

LEMMA SameLogExtends ==
    ASSUME NetFits, log' = log
    PROVE  Extends
BY DEF NetFits, Extends

LEMMA LogGrows ==
    ASSUME NetFits, NEW e \in Ids \cup {Other}, log' = Append(log, e)
    PROVE  /\ Extends /\ Len(log) \in Nat /\ Len(log) + 1 = Len(log')
           /\ Len(log) + 1 \in DOMAIN log' /\ Len(log) + 1 \notin DOMAIN log
           /\ log'[Len(log) + 1] = e
BY AppendProperties DEF NetFits, Extends

LEMMA TimelineWidens ==
    ASSUME NEW S, NEW T, S \subseteq T, NEW t, IsTimeline(t, S)
    PROVE  IsTimeline(t, T)
BY DEF IsTimeline, IsContentOf

\* What does not touch the session's knowledge of the stream leaves it fit.
LEMMA ViewKept ==
    ASSUME ViewFits, Extends, UNCHANGED <<tl, page>>
    PROVE  ViewFits'
<1>1. IsTimeline(tl, DOMAIN log')
  BY TimelineWidens DEF ViewFits, Extends
<1>2. PageFits'
  BY DEF ViewFits, PageFits, Extends
<1> QED BY <1>1, <1>2 DEF ViewFits

LEMMA SendKept ==
    ASSUME SendFits, Extends,
           UNCHANGED <<local, serverId, discarded, unheard, retries, attached, disposed>>
    PROVE  SendFits'
BY DEF SendFits, StatusFits, Extends, Sent

LEMMA NamesKept ==
    ASSUME SendFits, NamesFit, Extends, Sent' = Sent,
           UNCHANGED <<tl, serverId, discarded, localOrder, byServerId>>
    PROVE  NamesFit'
<1>1. \A id \in Ids : serverId[id] # None => log'[serverId[id]] = log[serverId[id]]
  BY DEF SendFits, Extends
<1>2. ByFits(byServerId, tl, serverId, log')
  BY <1>1 DEF NamesFit, ObjectsFit, ByFits
<1> QED BY <1>2 DEF NamesFit, ObjectsFit, OrderFits

\* #refreshKeys brings the objects and the local list up to date.
LEMMA RefreshFits ==
    ASSUME NEW t, NEW by, NEW order, NEW S, Refresh(t, by, order),
           IsTimeline(t, S), 0 \notin S,
           ByFits(by, t, serverId', log'),
           order \subseteq (Sent \ discarded)',
           \A id \in (Sent \ discarded)' : serverId'[id] \notin t.visible => id \in order
    PROVE  NamesFit'
<1>1. PICK O : O = Objects(t, by)
  OBVIOUS
<1>2. /\ tl' = t /\ byServerId' = O
      /\ localOrder' = order \ {O[n] : n \in t.visible}
  BY <1>1 DEF Refresh, StillLocal
<1>3. /\ DOMAIN O = DOMAIN by \cup t.visible
      /\ \A n \in DOMAIN by : O[n] = by[n]
      /\ \A n \in t.visible \ DOMAIN by : O[n] = FromServer
  BY <1>1 DEF Objects
<1>4. t.visible \subseteq Known(t) /\ 0 \notin t.visible
  BY DEF IsTimeline
<1>5. ByFits(O, t, serverId', log')
  BY <1>3, <1>4 DEF ByFits
<1>6. ASSUME NEW id \in (Sent \ discarded)'
      PROVE  (\E n \in t.visible : O[n] = id) <=> serverId'[id] \in t.visible
  <2>1. id \in Ids /\ id # FromServer
    BY KeysAssumption DEF Sent
  <2> QED BY <1>3, <1>4, <1>5, <2>1 DEF ByFits, None
<1>7. localOrder' = {id \in (Sent \ discarded)' : serverId'[id] \notin t.visible}
  BY <1>2, <1>6
<1> QED BY <1>2, <1>3, <1>5, <1>7 DEF NamesFit, ObjectsFit, OrderFits

\* What fail() leaves of the status of the messages.
LEMMA FailProperties ==
    ASSUME NEW status \in [Ids -> {"none", "pending", "failed", "sent"}], NEW ids
    PROVE  LET f == Fail(status, ids)
           IN  /\ f \in [Ids -> {"none", "pending", "failed", "sent"}]
               /\ \A id \in Ids :
                     /\ f[id] = "none" <=> status[id] = "none"
                     /\ f[id] = "sent" <=> status[id] = "sent"
                     /\ f[id] = "pending" <=> status[id] = "pending" /\ id \notin ids
                     /\ status[id] = "failed" => f[id] = "failed"
BY DEF Fail

\* A step in which messages fail and nothing else becomes of them.
LEMMA FailsFits ==
    ASSUME SendFits, NEW ids, local' = Fail(local, ids), Extends,
           UNCHANGED <<serverId, discarded, unheard, retries, attached>>,
           disposed' = disposed \/ Ids \subseteq ids
    PROVE  SendFits' /\ Sent' = Sent
<1>1. /\ local' \in [Ids -> {"none", "pending", "failed", "sent"}]
      /\ \A id \in Ids :
            /\ local'[id] = "none" <=> local[id] = "none"
            /\ local'[id] = "sent" <=> local[id] = "sent"
            /\ local'[id] = "pending" => local[id] = "pending" /\ id \notin ids
            /\ local[id] = "failed" => local'[id] = "failed"
  BY FailProperties DEF SendFits
<1>2. Sent' = Sent
  BY <1>1 DEF Sent
<1>3. StatusFits'
  BY <1>1 DEF SendFits, StatusFits
<1>4. serverId' \in [Ids -> DOMAIN log' \cup {None}]
  BY DEF SendFits, Extends
<1> QED BY <1>1, <1>2, <1>3, <1>4 DEF SendFits

Answers(e, id) == e.kind \in {"accepted", "rejected"} /\ e.id = id

\* What waited goes on waiting, and its answer is still to come.
LEMMA AnswersKept ==
    ASSUME PendingIsAnswered,
           \A id \in Ids : local'[id] = "pending" /\ id \notin unheard' =>
              /\ local[id] = "pending" /\ id \notin unheard
              /\ [id |-> id, live |-> TRUE] \in commands =>
                    \/ [id |-> id, live |-> TRUE] \in commands'
                    \/ \E e \in wire' : Answers(e, id)
              /\ \A e \in wire : Answers(e, id) => e \in wire'
    PROVE  PendingIsAnswered'
BY DEF PendingIsAnswered, Answers

LEMMA InitInv == Init => Inv
<1> SUFFICES ASSUME Init PROVE Inv
  OBVIOUS
<1>1. log = <<>> /\ log \in Seq(Ids \cup {Other}) /\ DOMAIN log = {}
  BY DEF Init
<1>2. NetFits
  BY <1>1 DEF Init, NetFits, WireFits
<1>3. ViewFits
  <2>1. PageFits
    BY DEF Init, PageFits, NoPage
  <2>2. IsTimeline(tl, DOMAIN log) /\ Buffered(tl) /\ tl.visible = {}
    BY DEF Init, EmptyTimeline, IsTimeline, IsContentOf, Known, Buffered
  <2> QED BY <2>1, <2>2 DEF ViewFits
<1>4. SendFits
  BY BoundsAssumption DEF Init, SendFits, StatusFits
<1>5. NamesFit
  <2>1. Sent = {}
    BY DEF Init, Sent
  <2>2. tl.visible = {}
    BY DEF Init, EmptyTimeline
  <2> QED BY <2>1, <2>2 DEF Init, NamesFit, ObjectsFit, ByFits, OrderFits
<1>6. PendingIsAnswered
  BY DEF Init, PendingIsAnswered
<1> QED BY <1>2, <1>3, <1>4, <1>5, <1>6 DEF Inv

-----------------------------------------------------------------------------
(***************************************************************************)
(* The API and the connection                                              *)
(***************************************************************************)
\* The events are told apart by their kind and by what they name.
LEMMA EventFacts ==
    /\ \A id \in Ids, n \in Nat : Accepted(id, n) \in Event /\ Answers(Accepted(id, n), id)
    /\ \A id \in Ids : Rejected(id) \in Event /\ Answers(Rejected(id), id)
    /\ \A n \in Nat : Created(n) \in Event /\ \A id : ~Answers(Created(n), id)
    /\ \A id, k, n, m : Accepted(id, n) = Accepted(k, m) => id = k /\ n = m
    /\ \A id, k, n, m : Accepted(id, n) # Rejected(k) /\ Accepted(id, n) # Created(m)
    /\ \A id, k, n, e : /\ e = Accepted(k, n) /\ Answers(e, id) => id = k
                        /\ e = Rejected(k) /\ Answers(e, id) => id = k
BY DEF Accepted, Rejected, Created, Event, Answers

\* A command that leaves, with the answer it is owed.
LEMMA CommandLeaves ==
    ASSUME NetFits, NEW c \in commands, commands' = commands \ {c},
           NEW event, Answers(event, c.id), Told(c, event) \subseteq wire'
    PROVE  \A id \in Ids : [id |-> id, live |-> TRUE] \in commands =>
              \/ [id |-> id, live |-> TRUE] \in commands'
              \/ \E e \in wire' : Answers(e, id)
<1> SUFFICES ASSUME NEW id \in Ids, [id |-> id, live |-> TRUE] \in commands,
                    [id |-> id, live |-> TRUE] \notin commands'
             PROVE  \E e \in wire' : Answers(e, id)
  OBVIOUS
<1>1. c = [id |-> id, live |-> TRUE]
  OBVIOUS
<1>2. c.id = id /\ c.live = TRUE
  BY <1>1
<1>3. event \in wire'
  BY <1>2 DEF Told
<1> QED BY <1>2, <1>3

\* Steps of the API that leave the session alone.
LEMMA ApiKept ==
    ASSUME Inv, Extends, NetFits', UNCHANGED <<page, clientVars, retries, unheard, attached, disposed>>,
           \A id \in Ids : [id |-> id, live |-> TRUE] \in commands =>
              \/ [id |-> id, live |-> TRUE] \in commands'
              \/ \E e \in wire' : Answers(e, id),
           wire \subseteq wire'
    PROVE  Inv'
<1>1. UNCHANGED <<page, tl, local, serverId, discarded, localOrder, byServerId, retries, unheard,
                  attached, disposed>>
  BY DEF clientVars
<1>2. Sent' = Sent
  BY <1>1 DEF Sent
<1>3. ViewFits' /\ SendFits' /\ NamesFit'
  BY <1>1, <1>2, ViewKept, SendKept, NamesKept DEF Inv
<1>4. PendingIsAnswered'
  BY <1>1, AnswersKept DEF Inv
<1> QED BY <1>3, <1>4 DEF Inv

LEMMA ApiStoresStep ==
    ASSUME Inv, NEW c \in commands, ApiStores(c)
    PROVE  Inv'
<1>1. NetFits /\ c.id \in Ids /\ c \in Command
  BY DEF Inv, NetFits, Command
<1>2. PICK n : n = Len(log) + 1
  OBVIOUS
<1>3. log' = Append(log, c.id) /\ commands' = commands \ {c}
      /\ UNCHANGED <<up, attached, disposed, page, clientVars, retries, unheard>>
  BY DEF ApiStores
<1>4. /\ Extends /\ n \in Nat /\ n \in DOMAIN log' /\ n \notin DOMAIN log /\ log'[n] = c.id
  BY <1>1, <1>2, <1>3, LogGrows
<1>5. PICK announced \in {{}, {Created(n)}} :
           wire' = wire \cup Told(c, Accepted(c.id, n)) \cup announced
  BY <1>2 DEF ApiStores
<1>6. NetFits'
  <2>1. wire' \subseteq Event
    BY <1>1, <1>4, <1>5, EventFacts DEF NetFits, Told
  <2>2. WireFits'
    <3> SUFFICES ASSUME NEW id \in Ids, NEW m \in Nat, Accepted(id, m) \in wire'
                 PROVE  m \in DOMAIN log' /\ log'[m] = id
      BY DEF WireFits
    <3>1. CASE Accepted(id, m) \in wire
      BY <1>1, <1>4, <3>1 DEF NetFits, WireFits, Extends
    <3>2. CASE Accepted(id, m) = Accepted(c.id, n)
      BY <1>4, <3>2, EventFacts
    <3>3. Accepted(id, m) # Created(n)
      BY EventFacts
    <3> QED BY <1>5, <3>1, <3>2, <3>3 DEF Told
  <2> QED BY <1>1, <1>3, <1>4, <2>1, <2>2 DEF NetFits, Extends
<1>7. \A id \in Ids : [id |-> id, live |-> TRUE] \in commands =>
         \/ [id |-> id, live |-> TRUE] \in commands'
         \/ \E e \in wire' : Answers(e, id)
  BY <1>1, <1>3, <1>4, <1>5, CommandLeaves, EventFacts
<1> QED BY <1>3, <1>4, <1>5, <1>6, <1>7, ApiKept

LEMMA ApiFindsStep ==
    ASSUME Inv, NEW c \in commands, ApiFinds(c)
    PROVE  Inv'
<1>1. NetFits /\ c.id \in Ids /\ c \in Command
  BY DEF Inv, NetFits, Command
<1>2. commands' = commands \ {c}
      /\ UNCHANGED <<log, up, attached, disposed, page, clientVars, retries, unheard>>
  BY DEF ApiFinds
<1>3. PICK n \in DOMAIN log : log[n] = c.id /\ wire' = wire \cup Told(c, Accepted(c.id, n))
  BY DEF ApiFinds, Existing
<1>4. n \in Nat /\ Extends
  BY <1>1, <1>2, SameLogExtends DEF NetFits
<1>5. NetFits'
  <2>1. wire' \subseteq Event
    BY <1>1, <1>3, <1>4, EventFacts DEF NetFits, Told
  <2>2. WireFits'
    <3> SUFFICES ASSUME NEW id \in Ids, NEW m \in Nat, Accepted(id, m) \in wire'
                 PROVE  m \in DOMAIN log /\ log[m] = id
      BY <1>2 DEF WireFits
    <3>1. CASE Accepted(id, m) \in wire
      BY <1>1, <3>1 DEF NetFits, WireFits
    <3>2. CASE Accepted(id, m) = Accepted(c.id, n)
      BY <1>3, <3>2, EventFacts
    <3> QED BY <1>3, <3>1, <3>2 DEF Told
  <2> QED BY <1>1, <1>2, <2>1, <2>2 DEF NetFits
<1>6. \A id \in Ids : [id |-> id, live |-> TRUE] \in commands =>
         \/ [id |-> id, live |-> TRUE] \in commands'
         \/ \E e \in wire' : Answers(e, id)
  BY <1>1, <1>2, <1>3, <1>4, CommandLeaves, EventFacts
<1> QED BY <1>2, <1>3, <1>4, <1>5, <1>6, ApiKept

LEMMA ApiRejectsStep ==
    ASSUME Inv, NEW c \in commands, ApiRejects(c)
    PROVE  Inv'
<1>1. NetFits /\ c.id \in Ids /\ c \in Command
  BY DEF Inv, NetFits, Command
<1>2. commands' = commands \ {c} /\ wire' = wire \cup Told(c, Rejected(c.id))
      /\ UNCHANGED <<log, up, attached, disposed, page, clientVars, retries, unheard>>
  BY DEF ApiRejects
<1>3. Extends
  BY <1>1, <1>2, SameLogExtends
<1>4. NetFits'
  <2>1. wire' \subseteq Event
    BY <1>1, <1>2, EventFacts DEF NetFits, Told
  <2>2. \A id \in Ids, m \in Nat : Accepted(id, m) \in wire' => Accepted(id, m) \in wire
    BY <1>2, EventFacts DEF Told
  <2>3. WireFits'
    BY <1>1, <1>2, <2>2 DEF NetFits, WireFits
  <2> QED BY <1>1, <1>2, <2>1, <2>3 DEF NetFits
<1>5. \A id \in Ids : [id |-> id, live |-> TRUE] \in commands =>
         \/ [id |-> id, live |-> TRUE] \in commands'
         \/ \E e \in wire' : Answers(e, id)
  BY <1>1, <1>2, CommandLeaves, EventFacts
<1> QED BY <1>2, <1>3, <1>4, <1>5, ApiKept

LEMMA OtherSendsStep ==
    ASSUME Inv, OtherSends
    PROVE  Inv'
<1>1. NetFits
  BY DEF Inv
<1>2. log' = Append(log, Other)
      /\ UNCHANGED <<commands, up, attached, disposed, page, clientVars, retries, unheard>>
  BY DEF OtherSends
<1>3. Extends /\ Len(log') \in Nat
  BY <1>1, <1>2, LogGrows
<1>4. PICK announced \in {{}, {Created(Len(log'))}} : wire' = wire \cup announced
  BY DEF OtherSends
<1>5. NetFits'
  <2>1. wire' \subseteq Event
    BY <1>1, <1>3, <1>4, EventFacts DEF NetFits
  <2>2. \A id \in Ids, m \in Nat : Accepted(id, m) \in wire' => Accepted(id, m) \in wire
    BY <1>4, EventFacts
  <2>3. WireFits'
    BY <1>1, <1>3, <2>2 DEF NetFits, WireFits, Extends
  <2> QED BY <1>1, <1>2, <1>3, <2>1, <2>3 DEF NetFits, Extends
<1> QED BY <1>2, <1>3, <1>4, <1>5, ApiKept

LEMMA ConnectStep ==
    ASSUME Inv, Connect
    PROVE  Inv'
<1>1. NetFits /\ Extends
  BY SameLogExtends DEF Inv, Connect
<1>2. NetFits'
  <2>1. up' \in BOOLEAN
    BY Zenon DEF Connect
  <2> QED BY <1>1, <2>1 DEF Connect, NetFits, WireFits
<1> QED BY <1>1, <1>2, ApiKept DEF Connect

\* The end of a connection: every message of the local list fails, and those are
\* all that wait.
LEMMA DisconnectFits ==
    ASSUME Inv, NEW cs \in SUBSET commands, Disconnect(cs)
    PROVE  Inv'
<1>1. NetFits /\ ViewFits /\ SendFits /\ NamesFit /\ Extends
  BY SameLogExtends DEF Inv, Disconnect
<1>2. /\ wire' = {} /\ commands' = Lost(cs)
      /\ UNCHANGED <<log, attached, disposed, page, tl, serverId, discarded, localOrder,
                     byServerId, retries, unheard>>
  BY DEF Disconnect
<1>3. NetFits'
  <2>1. up' \in BOOLEAN
    BY Zenon DEF Disconnect
  <2>2. Lost(cs) \subseteq Command
    BY <1>1 DEF Lost, NetFits, Command
  <2> QED BY <1>1, <1>2, <2>1, <2>2 DEF NetFits, WireFits
<1>4. ViewFits'
  BY <1>1, <1>2, ViewKept
<1>5. PICK ids : /\ local' = Fail(local, ids)
                 /\ attached = TRUE /\ disposed = FALSE => ids = localOrder
  <2>1. CASE attached = TRUE /\ disposed = FALSE
    <3>1. local' = Fail(local, localOrder)
      BY <2>1 DEF Disconnect, AfterDisconnect
    <3> QED BY <3>1
  <2>2. CASE ~(attached = TRUE /\ disposed = FALSE)
    <3>1. attached \in BOOLEAN /\ disposed \in BOOLEAN
      BY <1>1 DEF NetFits
    <3>2. local' = local
      BY <2>2, <3>1 DEF Disconnect
    <3>3. Fail(local, {}) = local
      BY <1>1 DEF Fail, SendFits
    <3> QED BY <2>2, <3>2, <3>3
  <2> QED BY <2>1, <2>2
<1>6. SendFits' /\ Sent' = Sent
  BY <1>1, <1>2, <1>5, FailsFits
<1>7. NamesFit'
  BY <1>1, <1>2, <1>6, NamesKept
<1>8. PendingIsAnswered'
  <2> SUFFICES ASSUME NEW id \in Ids \ unheard, local'[id] = "pending"
               PROVE  FALSE
    BY <1>2 DEF PendingIsAnswered
  <2>1. local[id] = "pending" /\ id \notin ids
    BY <1>1, <1>5, FailProperties DEF SendFits
  <2>2. disposed = FALSE /\ attached = TRUE /\ id \notin discarded /\ serverId[id] = None
    BY <1>1, <2>1 DEF SendFits, StatusFits
  <2>3. 0 \notin tl.visible
    <3>1. 0 \notin DOMAIN log
      BY <1>1 DEF NetFits
    <3> QED BY <1>1, <3>1 DEF ViewFits, IsTimeline
  <2>4. id \in localOrder
    BY <1>1, <2>1, <2>2, <2>3 DEF NamesFit, OrderFits, Sent, None
  <2> QED BY <1>5, <2>1, <2>2, <2>4
<1> QED BY <1>3, <1>4, <1>6, <1>7, <1>8 DEF Inv

LEMMA ApiFailsStep ==
    ASSUME Inv, NEW c \in commands, ApiFails(c)
    PROVE  Inv'
<1>1. NetFits /\ c.live \in BOOLEAN
  BY DEF Inv, NetFits, Command
<1>2. CASE c.live = TRUE
  <2>1. Disconnect(commands \ {c})
    BY <1>2 DEF ApiFails
  <2> QED BY <2>1, DisconnectFits
<1>3. CASE c.live = FALSE
  <2>1. commands' = commands \ {c}
        /\ UNCHANGED <<log, up, wire, attached, disposed, page, clientVars, retries, unheard>>
    BY <1>3 DEF ApiFails
  <2>2. Extends
    BY <1>1, <2>1, SameLogExtends
  <2>3. NetFits'
    BY <1>1, <2>1 DEF NetFits, WireFits
  <2>4. \A id \in Ids : [id |-> id, live |-> TRUE] # c
    BY <1>3
  <2> QED BY <2>1, <2>2, <2>3, <2>4, ApiKept
<1> QED BY <1>1, <1>2, <1>3

-----------------------------------------------------------------------------
(***************************************************************************)
(* The user                                                                *)
(***************************************************************************)
\* What a transmission leaves: it waits for an answer, or it has failed.
Transmitted(id) ==
    /\ local' \in [Ids -> {"none", "pending", "failed", "sent"}]
    /\ \A k \in Ids \ {id} : local'[k] = local[k]
    /\ \/ local'[id] = "pending" /\ commands' = commands \cup {[id |-> id, live |-> TRUE]}
       \/ local'[id] = "failed" /\ commands' = commands

LEMMA TransmitProperties ==
    ASSUME NetFits, SendFits, NEW id \in Ids, Transmit(id, [local EXCEPT ![id] = "pending"])
    PROVE  Transmitted(id)
<1>1. PICK s : s = [local EXCEPT ![id] = "pending"]
  OBVIOUS
<1>2. /\ s \in [Ids -> {"none", "pending", "failed", "sent"}] /\ s[id] = "pending"
      /\ \A k \in Ids \ {id} : s[k] = local[k]
  BY <1>1 DEF SendFits
<1>3. CASE up = TRUE
  BY <1>1, <1>2, <1>3 DEF Transmit, Transmitted
<1>4. CASE up = FALSE
  <2>1. local' = Fail(s, {id}) /\ commands' = commands
    BY <1>1, <1>4 DEF Transmit
  <2> QED BY <1>2, <2>1 DEF Fail, Transmitted
<1> QED BY <1>3, <1>4 DEF NetFits

\* A transmission keeps what it says nothing of; the one message has no sequence
\* and is not discarded, and it counts as unheard while the session does not listen.
LEMMA TransmitFits ==
    ASSUME Inv, NEW id \in Ids, Transmitted(id), disposed = FALSE,
           id \notin discarded, local[id] \in {"none", "failed"},
           unheard' = IF attached THEN unheard \ {id} ELSE unheard \cup {id},
           retries' \in [Ids -> 0..Retries],
           UNCHANGED <<log, up, wire, attached, disposed, page, serverId, discarded>>
    PROVE  /\ NetFits' /\ SendFits' /\ PendingIsAnswered'
           /\ Sent' = Sent \cup {id} /\ serverId[id] = None
<1>1. NetFits /\ SendFits /\ attached \in BOOLEAN
  BY DEF Inv, NetFits
<1>2. serverId[id] = None
  BY <1>1 DEF SendFits, StatusFits
<1>3. Sent' = Sent \cup {id}
  BY DEF Transmitted, Sent
<1>4. NetFits'
  <2>1. commands' \subseteq Command
    <3>1. [id |-> id, live |-> TRUE] \in Command
      BY DEF Command
    <3> QED BY <1>1, <3>1 DEF Transmitted, NetFits
  <2> QED BY <1>1, <2>1 DEF NetFits, WireFits
<1>5. \A k \in Ids \ {id} : k \in unheard' <=> k \in unheard
  OBVIOUS
<1>6. attached = TRUE \/ id \in unheard'
  BY <1>1
<1>7. SendFits'
  <2>1. StatusFits'
    <3> SUFFICES ASSUME NEW k \in Ids
                 PROVE  /\ local'[k] = "sent" <=> serverId[k] # None
                        /\ k \in discarded => local'[k] = "failed"
                        /\ local'[k] = "pending" =>
                              disposed = FALSE /\ (attached = TRUE \/ k \in unheard')
      BY Zenon DEF StatusFits
    <3>1. CASE k = id
      BY <1>2, <1>6, <3>1 DEF Transmitted
    <3>2. CASE k # id
      BY <1>1, <1>5, <3>2 DEF Transmitted, SendFits, StatusFits
    <3> QED BY <3>1, <3>2
  <2>2. discarded' \cup unheard' \subseteq Sent'
    BY <1>1, <1>3, <1>5 DEF SendFits
  <2> QED BY <1>1, <2>1, <2>2 DEF SendFits, Transmitted
<1>8. PendingIsAnswered'
  <2> SUFFICES ASSUME NEW k \in Ids \ unheard', local'[k] = "pending"
               PROVE  \/ [id |-> k, live |-> TRUE] \in commands'
                      \/ \E e \in wire : e.kind \in {"accepted", "rejected"} /\ e.id = k
    BY DEF PendingIsAnswered
  <2>1. CASE k = id
    BY <2>1 DEF Transmitted
  <2>2. CASE k # id
    BY <1>5, <2>2 DEF Inv, PendingIsAnswered, Transmitted
  <2> QED BY <2>1, <2>2
<1> QED BY <1>2, <1>3, <1>4, <1>7, <1>8

\* Nothing is at place 0 of the log.
LEMMA NoneIsNoPlace ==
    ASSUME Inv
    PROVE  0 \notin DOMAIN log /\ 0 \notin tl.visible
<1>1. 0 \notin DOMAIN log
  BY DEF Inv, NetFits
<1> QED BY <1>1 DEF Inv, ViewFits, IsTimeline

LEMMA SendMessageStep ==
    ASSUME Inv, NEW id \in Ids, SendMessage(id)
    PROVE  Inv'
<1>1. /\ NetFits /\ ViewFits /\ SendFits /\ NamesFit /\ Extends
      /\ attached \in BOOLEAN /\ disposed = FALSE
  <2>1. disposed \in BOOLEAN
    BY DEF Inv, NetFits
  <2> QED BY <2>1, SameLogExtends DEF Inv, NetFits, SendMessage
<1>2. id \notin Sent /\ id \notin discarded /\ id \notin unheard
  BY <1>1 DEF SendMessage, SendFits, Sent
<1>3. unheard' = IF attached THEN unheard \ {id} ELSE unheard \cup {id}
  BY <1>1, <1>2 DEF SendMessage
<1>4. Transmitted(id)
  BY <1>1, TransmitProperties DEF SendMessage
<1>5. UNCHANGED <<log, up, wire, attached, disposed, page, serverId, discarded, retries>>
      /\ local[id] = "none" /\ Refresh(tl, byServerId, localOrder \cup {id})
  BY DEF SendMessage
<1>6. retries' \in [Ids -> 0..Retries]
  BY <1>1, <1>5 DEF SendFits
<1>7. /\ NetFits' /\ SendFits' /\ PendingIsAnswered'
      /\ Sent' = Sent \cup {id} /\ serverId[id] = None
  BY <1>1, <1>2, <1>3, <1>4, <1>5, <1>6, TransmitFits
<1>8. ViewFits'
  BY <1>1, <1>5, ViewKept DEF Refresh
<1>9. NamesFit'
  <2>1. localOrder \cup {id} = {k \in (Sent \ discarded)' : serverId'[k] \notin tl.visible}
    BY <1>1, <1>2, <1>5, <1>7, NoneIsNoPlace DEF NamesFit, OrderFits, None, Sent
  <2>2. ByFits(byServerId, tl, serverId', log')
    BY <1>1, <1>5 DEF NamesFit, ObjectsFit
  <2> QED BY <1>1, <1>5, <2>1, <2>2, NoneIsNoPlace, RefreshFits DEF ViewFits
<1> QED BY <1>7, <1>8, <1>9 DEF Inv

LEMMA RetryStep ==
    ASSUME Inv, NEW id \in Ids, Retry(id)
    PROVE  Inv'
<1>1. /\ NetFits /\ ViewFits /\ SendFits /\ NamesFit /\ Extends /\ disposed = FALSE
  <2>1. disposed \in BOOLEAN
    BY DEF Inv, NetFits
  <2> QED BY <2>1, SameLogExtends DEF Inv, Retry, CanRetry
<1>2. Transmitted(id)
  BY <1>1, TransmitProperties DEF Retry
<1>3. retries' \in [Ids -> 0..Retries]
  BY <1>1, BoundsAssumption DEF Retry, SendFits
<1>4. /\ id \notin discarded /\ local[id] = "failed"
      /\ unheard' = IF attached THEN unheard \ {id} ELSE unheard \cup {id}
      /\ UNCHANGED <<log, up, wire, attached, disposed, page, tl, serverId, discarded, localOrder,
                     byServerId>>
  BY DEF Retry, CanRetry
<1>5. NetFits' /\ SendFits' /\ PendingIsAnswered' /\ Sent' = Sent \cup {id}
  BY <1>1, <1>2, <1>3, <1>4, TransmitFits
<1>6. Sent' = Sent
  BY <1>4, <1>5 DEF Sent
<1>7. ViewFits' /\ NamesFit'
  BY <1>1, <1>4, <1>6, ViewKept, NamesKept
<1> QED BY <1>5, <1>7 DEF Inv

LEMMA DiscardedStep ==
    ASSUME Inv, NEW id \in Ids, Discarded(id)
    PROVE  Inv'
<1>1. NetFits /\ ViewFits /\ SendFits /\ NamesFit /\ Extends
  BY SameLogExtends DEF Inv, Discarded
<1>2. /\ local[id] = "failed" /\ discarded' = discarded \cup {id}
      /\ Refresh(tl, byServerId, localOrder \ {id})
      /\ UNCHANGED <<log, commands, up, wire, attached, disposed, page, local, serverId, retries,
                     unheard>>
  BY DEF Discarded, CanRetry
<1>3. NetFits'
  BY <1>1, <1>2 DEF NetFits, WireFits
<1>4. ViewFits'
  BY <1>1, <1>2, ViewKept DEF Refresh
<1>5. SendFits'
  BY <1>1, <1>2 DEF SendFits, StatusFits, Sent
<1>6. NamesFit'
  <2>1. localOrder \ {id} = {k \in (Sent \ discarded)' : serverId'[k] \notin tl.visible}
    BY <1>1, <1>2 DEF NamesFit, OrderFits, Sent
  <2>2. ByFits(byServerId, tl, serverId', log')
    BY <1>1, <1>2 DEF NamesFit, ObjectsFit
  <2> QED BY <1>1, <1>2, <2>1, <2>2, NoneIsNoPlace, RefreshFits DEF ViewFits
<1>7. PendingIsAnswered'
  BY <1>2, AnswersKept DEF Inv
<1> QED BY <1>3, <1>4, <1>5, <1>6, <1>7 DEF Inv

-----------------------------------------------------------------------------
(***************************************************************************)
(* What arrives                                                            *)
(***************************************************************************)
LEMMA AttachStep ==
    ASSUME Inv, Attach
    PROVE  Inv'
<1>1. NetFits /\ ViewFits /\ SendFits /\ NamesFit /\ Extends
  BY SameLogExtends DEF Inv, Attach
<1>2. UNCHANGED <<log, commands, up, wire, disposed, page, tl, local, serverId, discarded, localOrder,
                  byServerId, retries, unheard>>
  BY DEF Attach, clientVars
<1>3. attached' = TRUE /\ attached' \in BOOLEAN
  BY Zenon DEF Attach
<1>4. NetFits'
  BY <1>1, <1>2, <1>3, Zenon DEF NetFits, WireFits
<1>5. Sent' = Sent
  BY <1>2 DEF Sent
<1>6. SendFits'
  BY <1>1, <1>2, <1>3, <1>5 DEF SendFits, StatusFits
<1>7. ViewFits' /\ NamesFit'
  BY <1>1, <1>2, <1>5, ViewKept, NamesKept
<1>8. PendingIsAnswered'
  BY <1>2, AnswersKept DEF Inv
<1> QED BY <1>4, <1>6, <1>7, <1>8 DEF Inv

\* An event that leaves the wire and changes nothing of the session but, perhaps,
\* the timeline and the objects.
LEMMA EventLeaves ==
    ASSUME NetFits, NEW e, wire' = wire \ {e},
           UNCHANGED <<log, commands, up, attached, disposed>>
    PROVE  NetFits'
BY DEF NetFits, WireFits

LEMMA UnheededStep ==
    ASSUME Inv, NEW e \in wire, Unheeded(e)
    PROVE  Inv'
<1>1. NetFits /\ ViewFits /\ SendFits /\ NamesFit /\ Extends
  BY SameLogExtends DEF Inv, Unheeded
<1>2. /\ wire' = wire \ {e} /\ ~Heard
      /\ UNCHANGED <<log, commands, up, attached, disposed, page, tl, local, serverId, discarded,
                     localOrder, byServerId, retries, unheard>>
  BY DEF Unheeded, clientVars
<1>3. NetFits'
  BY <1>1, <1>2, EventLeaves
<1>4. Sent' = Sent
  BY <1>2 DEF Sent
<1>5. ViewFits' /\ SendFits' /\ NamesFit'
  BY <1>1, <1>2, <1>4, ViewKept, SendKept, NamesKept
<1>6. \A id \in Ids \ unheard : local[id] # "pending"
  BY <1>1, <1>2 DEF SendFits, StatusFits, Heard, NetFits
<1>7. PendingIsAnswered'
  BY <1>2, <1>6 DEF PendingIsAnswered
<1> QED BY <1>3, <1>5, <1>7 DEF Inv

LEMMA HearRejectedStep ==
    ASSUME Inv, NEW id \in Ids, HearRejected(id)
    PROVE  Inv'
<1>1. NetFits /\ ViewFits /\ SendFits /\ NamesFit /\ Extends
  BY SameLogExtends DEF Inv, HearRejected
<1>2. /\ wire' = wire \ {Rejected(id)} /\ local' = Fail(local, {id} \ discarded)
      /\ UNCHANGED <<log, commands, up, attached, disposed, page, tl, serverId, discarded,
                     localOrder, byServerId, retries, unheard>>
  BY DEF HearRejected
<1>3. NetFits'
  BY <1>1, <1>2, EventLeaves
<1>4. SendFits' /\ Sent' = Sent
  BY <1>1, <1>2, FailsFits
<1>5. ViewFits' /\ NamesFit'
  BY <1>1, <1>2, <1>4, ViewKept, NamesKept
<1>6. \A k \in Ids : local'[k] = "pending" => local[k] = "pending" /\ k # id
  <2>1. \A k \in Ids : local'[k] = "pending" => local[k] = "pending" /\ k \notin {id} \ discarded
    BY <1>1, <1>2, FailProperties DEF SendFits
  <2>2. local[id] = "pending" => id \notin discarded
    BY <1>1 DEF SendFits, StatusFits
  <2> QED BY <2>1, <2>2
<1>7. \A k \in Ids : k # id => ~Answers(Rejected(id), k)
  BY EventFacts
<1>8. PendingIsAnswered'
  BY <1>2, <1>6, <1>7, AnswersKept DEF Inv
<1> QED BY <1>3, <1>4, <1>5, <1>8 DEF Inv

LEMMA OriginalIsContent == Original \in Content
BY DEF Original, Content

\* What the session knows of the stream after it has heard of message n.
LEMMA LiveFits ==
    ASSUME Inv, NEW n \in DOMAIN log, NEW t,
           t = ApplyLive(tl, n, Original) \/ t = ApplyAccepted(tl, n, Original)
    PROVE  /\ IsTimeline(t, DOMAIN log) /\ Buffered(t)
           /\ t.cursor = Null => t.visible = {}
           /\ Grows(tl, t)
<1>1. PICK N \in Nat : DOMAIN log = 1..N
  BY DEF Inv, NetFits
<1>2. /\ IsTimeline(tl, 1..N) /\ Buffered(tl) /\ IsShaped(tl)
      /\ tl.cursor = Null => tl.visible = {}
  BY <1>1, TimelineIsShaped DEF Inv, ViewFits
<1>3. n \in 1..N /\ Original \in Content
  BY <1>1, OriginalIsContent
<1>4. CASE t = ApplyLive(tl, n, Original)
  <2>1. /\ IsTimeline(t, 1..N) /\ Buffered(t)
        /\ tl.cursor = Null => t.cursor = Null /\ t.visible = tl.visible
        /\ tl.cursor # Null => t.cursor # Null
    BY <1>2, <1>3, <1>4, ApplyLiveProperties
  <2>2. Grows(tl, t)
    BY <1>2, <1>4, ApplyLiveGrows
  <2> QED BY <1>1, <1>2, <2>1, <2>2
<1>5. CASE t = ApplyAccepted(tl, n, Original)
  <2>1. /\ IsTimeline(t, 1..N) /\ Buffered(t)
        /\ tl.cursor = Null => t.cursor = Null /\ t.visible = tl.visible
        /\ tl.cursor # Null => t.cursor # Null
    BY <1>2, <1>3, <1>5, ApplyAcceptedProperties
  <2>2. Grows(tl, t)
    BY <1>2, <1>5, ApplyAcceptedGrows
  <2> QED BY <1>1, <1>2, <2>1, <2>2
<1> QED BY <1>4, <1>5

\* A timeline that has grown keeps the objects that there are.
LEMMA GrownKeepsNames ==
    ASSUME Inv, NEW t, Grows(tl, t), NEW S, IsTimeline(t, S), 0 \notin S,
           Refresh(t, byServerId, localOrder), Sent' = Sent, UNCHANGED <<log, serverId, discarded>>
    PROVE  NamesFit'
<1>1. NamesFit
  BY DEF Inv
<1>2. ByFits(byServerId, t, serverId', log')
  BY <1>1 DEF NamesFit, ObjectsFit, ByFits, Grows
<1>3. localOrder \subseteq (Sent \ discarded)'
  BY <1>1 DEF NamesFit, OrderFits
<1>4. \A id \in (Sent \ discarded)' : serverId'[id] \notin t.visible => id \in localOrder
  BY <1>1 DEF NamesFit, OrderFits, Grows
<1> QED BY <1>2, <1>3, <1>4, RefreshFits

LEMMA HearCreatedStep ==
    ASSUME Inv, NEW n \in DOMAIN log, HearCreated(n)
    PROVE  Inv'
<1>1. NetFits /\ ViewFits /\ SendFits /\ Extends
  BY SameLogExtends DEF Inv, HearCreated
<1>2. PICK t : t = ApplyLive(tl, n, Original)
  OBVIOUS
<1>3. /\ wire' = wire \ {Created(n)} /\ Refresh(t, byServerId, localOrder)
      /\ UNCHANGED <<log, commands, up, attached, disposed, page, local, serverId, discarded,
                     retries, unheard>>
  BY <1>2 DEF HearCreated
<1>4. /\ IsTimeline(t, DOMAIN log) /\ Buffered(t) /\ Grows(tl, t)
      /\ t.cursor = Null => t.visible = {}
  BY <1>2, LiveFits
<1>5. NetFits'
  BY <1>1, <1>3, EventLeaves
<1>6. SendFits' /\ Sent' = Sent
  BY <1>1, <1>3, SendKept DEF Sent
<1>7. ViewFits'
  BY <1>1, <1>3, <1>4 DEF ViewFits, PageFits, Refresh
<1>8. NamesFit'
  BY <1>3, <1>4, <1>6, NoneIsNoPlace, GrownKeepsNames
<1>9. n \in Nat /\ \A k \in Ids : ~Answers(Created(n), k)
  BY <1>1, EventFacts DEF NetFits
<1>10. PendingIsAnswered'
  BY <1>3, <1>9, AnswersKept DEF Inv
<1> QED BY <1>5, <1>6, <1>7, <1>8, <1>10 DEF Inv

LEMMA HearAcceptedStep ==
    ASSUME Inv, NEW id \in Ids, NEW n \in DOMAIN log, HearAccepted(id, n)
    PROVE  Inv'
<1>1. NetFits /\ ViewFits /\ SendFits /\ NamesFit /\ Extends /\ n \in Nat
  BY SameLogExtends DEF Inv, HearAccepted, NetFits
<1>2. PICK t : t = ApplyAccepted(tl, n, Original)
  OBVIOUS
<1>3. /\ IsTimeline(t, DOMAIN log) /\ Buffered(t) /\ Grows(tl, t)
      /\ t.cursor = Null => t.visible = {}
      /\ n \in Known(t)
  <2>1. IsShaped(tl)
    BY <1>1, TimelineIsShaped DEF ViewFits
  <2> QED BY <1>2, <2>1, LiveFits, ApplyAcceptedGrows
<1>4. /\ Accepted(id, n) \in wire /\ ~Conflict(id, n) /\ wire' = wire \ {Accepted(id, n)}
      /\ UNCHANGED <<log, commands, up, attached, disposed, page, discarded, retries, unheard>>
  BY DEF HearAccepted
<1>5. log[n] = id /\ n # 0
  BY <1>1, <1>4, NoneIsNoPlace DEF NetFits, WireFits
<1>6. NetFits'
  BY <1>1, <1>4, EventLeaves
<1>7. tl' = t
  BY <1>2 DEF HearAccepted, Refresh
<1>8. ViewFits'
  BY <1>1, <1>3, <1>4, <1>7 DEF ViewFits, PageFits
<1>9. CASE Listed(id) /\ serverId[id] # n
  <2>1. /\ serverId' = [serverId EXCEPT ![id] = n] /\ local' = [local EXCEPT ![id] = "sent"]
        /\ Refresh(t, TakesPlace(byServerId, id, n), localOrder)
    BY <1>2, <1>9 DEF HearAccepted
  <2>2. local[id] # "none" /\ id \notin discarded /\ serverId[id] = None
    BY <1>4, <1>9 DEF Conflict, Listed
  <2>3. Sent' = Sent
    BY <1>1, <2>1, <2>2 DEF Sent, SendFits
  <2>4. SendFits'
    <3>1. serverId' \in [Ids -> DOMAIN log \cup {None}]
          /\ local' \in [Ids -> {"none", "pending", "failed", "sent"}]
      BY <1>1, <2>1 DEF SendFits
    <3>2. StatusFits'
      BY <1>1, <1>4, <1>5, <2>1, <2>2 DEF SendFits, StatusFits, None
    <3> QED BY <1>1, <1>4, <2>3, <3>1, <3>2 DEF SendFits
  <2>5. PICK by : by = TakesPlace(byServerId, id, n)
    OBVIOUS
  <2>6. /\ DOMAIN by = DOMAIN byServerId \cup {n} /\ by[n] = id
        /\ \A m \in DOMAIN byServerId \ {n} : by[m] = byServerId[m]
    BY <2>5 DEF TakesPlace
  <2>7. ByFits(by, t, serverId', log')
    <3>1. ASSUME NEW m \in DOMAIN by
          PROVE  /\ m \in Known(t)
                 /\ by[m] # FromServer => by[m] \in Ids /\ serverId'[by[m]] = m
      <4>1. CASE m = n
        BY <1>1, <1>3, <2>1, <2>6, <4>1 DEF SendFits
      <4>2. CASE m # n
        <5>1. /\ m \in DOMAIN byServerId /\ by[m] = byServerId[m] /\ m \in Known(tl)
              /\ by[m] # FromServer => by[m] \in Ids /\ serverId[by[m]] = m
          BY <1>1, <2>6, <4>2 DEF NamesFit, ObjectsFit, ByFits
        <5>2. m # None
          BY <1>1, <5>1, NoneIsNoPlace DEF ViewFits, IsTimeline, IsContentOf, Known, None
        <5> QED BY <1>1, <1>3, <2>1, <2>2, <5>1, <5>2 DEF SendFits, Grows
      <4> QED BY <4>1, <4>2
    <3>2. ASSUME NEW k \in Ids, serverId'[k] # None
          PROVE  /\ serverId'[k] \in DOMAIN by /\ by[serverId'[k]] = k
                 /\ log'[serverId'[k]] = k
      <4>1. CASE k = id
        BY <1>1, <1>4, <1>5, <2>1, <2>6, <4>1 DEF SendFits
      <4>2. CASE k # id
        <5>1. serverId'[k] = serverId[k] /\ serverId[k] \in DOMAIN byServerId
              /\ byServerId[serverId[k]] = k /\ log[serverId[k]] = k
          BY <1>1, <2>1, <3>2, <4>2 DEF SendFits, NamesFit, ObjectsFit, ByFits
        <5> QED BY <1>4, <1>5, <2>6, <4>2, <5>1
      <4> QED BY <4>1, <4>2
    <3> QED BY <3>1, <3>2 DEF ByFits
  <2>8. localOrder \subseteq (Sent \ discarded)'
    BY <1>1, <1>4, <2>3 DEF NamesFit, OrderFits
  <2>9. \A k \in (Sent \ discarded)' : serverId'[k] \notin t.visible => k \in localOrder
    <3> SUFFICES ASSUME NEW k \in Sent \ discarded, serverId'[k] \notin t.visible
                 PROVE  serverId[k] \notin tl.visible
      BY <1>1, <1>4, <2>3 DEF NamesFit, OrderFits
    <3>1. CASE k = id
      BY <2>2, <3>1, NoneIsNoPlace DEF None
    <3>2. CASE k # id
      BY <1>1, <1>3, <2>1, <3>2 DEF SendFits, Grows, Sent
    <3> QED BY <3>1, <3>2
  <2>10. NamesFit'
    BY <1>3, <2>1, <2>5, <2>7, <2>8, <2>9, NoneIsNoPlace, RefreshFits
  <2>11. \A k \in Ids : local'[k] = "pending" => local[k] = "pending" /\ k # id
    BY <1>1, <2>1 DEF SendFits
  <2>12. PendingIsAnswered'
    BY <1>4, <2>11, EventFacts, AnswersKept DEF Inv
  <2> QED BY <1>6, <1>8, <2>4, <2>10, <2>12 DEF Inv
<1>10. CASE ~(Listed(id) /\ serverId[id] # n)
  <2>1. UNCHANGED <<serverId, local>> /\ Refresh(t, byServerId, localOrder)
    BY <1>2, <1>10 DEF HearAccepted
  <2>2. SendFits' /\ Sent' = Sent
    BY <1>1, <1>4, <2>1, SendKept DEF Sent
  <2>3. NamesFit'
    BY <1>3, <1>4, <2>1, <2>2, NoneIsNoPlace, GrownKeepsNames
  <2>4. local[id] # "pending"
    BY <1>1, <1>5, <1>10 DEF Listed, SendFits, StatusFits, None
  <2>5. PendingIsAnswered'
    BY <1>4, <2>1, <2>4, EventFacts, AnswersKept DEF Inv
  <2> QED BY <1>6, <1>8, <2>2, <2>3, <2>5 DEF Inv
<1> QED BY <1>9, <1>10

-----------------------------------------------------------------------------
(***************************************************************************)
(* Recovery and the end of the session                                     *)
(***************************************************************************)
LEMMA ReadPageStep ==
    ASSUME Inv, ReadPage
    PROVE  Inv'
<1>1. NetFits /\ ViewFits /\ SendFits /\ NamesFit /\ Extends
  BY SameLogExtends DEF Inv, ReadPage
<1>2. /\ page' = [after |-> tl.cursor, through |-> Len(log)]
      /\ UNCHANGED <<log, commands, up, wire, attached, disposed, tl, local, serverId, discarded,
                     localOrder, byServerId, retries, unheard>>
  BY DEF ReadPage, clientVars
<1>3. NetFits'
  BY <1>1, <1>2 DEF NetFits, WireFits
<1>4. SendFits' /\ Sent' = Sent
  BY <1>1, <1>2, SendKept DEF Sent
<1>5. ViewFits'
  <2>1. PICK N \in Nat : DOMAIN log = 1..N /\ Len(log) = N
    BY <1>1 DEF NetFits
  <2>2. tl.cursor \in 0..N \cup {Null}
    BY <1>1, <2>1 DEF ViewFits, IsTimeline
  <2>3. PageFits'
    BY <1>2, <2>1, <2>2 DEF PageFits, Null
  <2> QED BY <1>1, <1>2, <2>3 DEF ViewFits
<1>6. NamesFit'
  BY <1>1, <1>2, <1>4, NamesKept
<1>7. PendingIsAnswered'
  BY <1>2, AnswersKept DEF Inv
<1> QED BY <1>3, <1>4, <1>5, <1>6, <1>7 DEF Inv

LEMMA PageFromProperties ==
    ASSUME NEW N \in Nat, page.through \in 0..N, NEW first \in Int, NEW next,
           NEW p, p = PageFrom(first, next)
    PROVE  /\ IsContentOf(p.content, 1..N) /\ p.through = page.through /\ p.next = next
           /\ \A i : i \in DOMAIN p.content <=> i \in 1..page.through /\ i >= first
BY OriginalIsContent DEF PageFrom, IsContentOf

\* A read that is applied leaves a timeline that fits the log and has forgotten
\* nothing, although the log has gone on since.
LEMMA RecoveredFits ==
    ASSUME Inv, NEW t, t = Recovered
    PROVE  /\ IsTimeline(t, DOMAIN log) /\ Buffered(t) /\ Grows(tl, t)
           /\ t.cursor = Null => t.visible = {}
<1>1. PICK N \in Nat : DOMAIN log = 1..N
  BY DEF Inv, NetFits
<1>2. /\ IsTimeline(tl, 1..N) /\ Buffered(tl) /\ IsShaped(tl)
      /\ tl.cursor = Null => tl.visible = {}
      /\ page.after \in 0..N \cup {Null, NoPage.after} /\ page.through \in 0..N
      /\ page.after \notin {Null, NoPage.after} => page.after <= page.through
  BY <1>1, TimelineIsShaped DEF Inv, ViewFits, PageFits
<1>4. CASE page.after = Null
  <2>1. PICK first, p : first = page.through - Window + 1 /\ p = PageFrom(first, Null)
    OBVIOUS
  <2>2. first \in Int
    BY <1>2, <2>1, BoundsAssumption
  <2>3. /\ IsContentOf(p.content, 1..N) /\ p.through \in 0..N
        /\ p.next \in (1..N) \cup {Null} /\ p.more \in BOOLEAN
    <3>1. /\ IsContentOf(p.content, 1..N) /\ p.through = page.through /\ p.next = Null
      <4>1. page.through \in 0..N
        BY <1>2
      <4>2. p = PageFrom(first, Null)
        BY <2>1
      <4> QED BY <2>2, <4>1, <4>2, PageFromProperties
    <3>2. p.more \in BOOLEAN
      BY <2>1 DEF PageFrom
    <3> QED BY <1>2, <3>1, <3>2
  <2>4. t = ApplyLatest(tl, p)
    BY <1>4, <2>1 DEF Recovered
  <2>5. IsTimeline(t, 1..N) /\ Buffered(t) /\ t.cursor \in p.through..N
    BY <1>2, <2>3, <2>4, ApplyLatestProperties
  <2>6. t.cursor # Null
    BY <2>3, <2>5 DEF Null
  <2>7. Grows(tl, t)
    BY <1>2, <2>4, ApplyLatestGrows
  <2> QED BY <1>1, <2>5, <2>6, <2>7
<1>5. CASE page.after # Null /\ tl.cursor # page.after
  <2>1. t = tl
    BY <1>5 DEF Recovered, SyncCursorMismatch
  <2> QED BY <1>1, <1>2, <2>1 DEF Grows
<1>6. CASE page.after # Null /\ tl.cursor = page.after
  <2>1. /\ page.after \in 0..N /\ page.after <= page.through
        /\ tl.cursor \in 0..N
    <3>1. tl.cursor # NoPage.after
      BY <1>2 DEF IsTimeline, NoPage, Null
    <3> QED BY <1>2, <1>6, <3>1
  <2>2. PICK first, p : first = page.after + 1 /\ p = PageFrom(first, page.through)
    OBVIOUS
  <2>3. first \in Int
    BY <2>1, <2>2
  <2>4. /\ IsContentOf(p.content, 1..N) /\ p.next = page.through
        /\ \A i : i \in DOMAIN p.content <=> i \in 1..page.through /\ i >= page.after + 1
    <3>1. /\ IsContentOf(p.content, 1..N) /\ p.next = page.through
          /\ \A i : i \in DOMAIN p.content <=> i \in 1..page.through /\ i >= first
      <4>1. page.through \in 0..N
        BY <1>2
      <4>2. p = PageFrom(first, page.through)
        BY <2>2
      <4> QED BY <2>3, <4>1, <4>2, PageFromProperties
    <3> QED BY <2>2, <3>1
  <2>5. DOMAIN p.content = (tl.cursor + 1)..p.next /\ p.next \in tl.cursor..N
    <3>1. p.next = page.through /\ page.through \in 0..N /\ tl.cursor = page.after
      BY <1>2, <1>6, <2>4
    <3>2. DOMAIN p.content \subseteq (tl.cursor + 1)..p.next
      BY <2>1, <2>4, <3>1
    <3>3. (tl.cursor + 1)..p.next \subseteq DOMAIN p.content
      BY <2>1, <2>4, <3>1
    <3>4. DOMAIN p.content = (tl.cursor + 1)..p.next
      BY <3>2, <3>3, Zenon
    <3>5. p.next \in tl.cursor..N
      BY <2>1, <3>1
    <3> QED BY <3>4, <3>5
  <2>6. t = ApplySync(tl, p)
    BY <1>6, <2>2 DEF Recovered, SyncCursorMismatch
  <2>7. IsTimeline(t, 1..N) /\ Buffered(t) /\ t.cursor >= p.next
    BY <1>2, <1>6, <2>4, <2>5, <2>6, ApplySyncProperties
  <2>8. t.cursor # Null
    BY <1>2, <2>4, <2>7 DEF Null
  <2>9. Grows(tl, t)
    BY <1>2, <2>6, ApplySyncGrows
  <2> QED BY <1>1, <2>7, <2>8, <2>9
<1> QED BY <1>4, <1>5, <1>6

LEMMA ApplyPageStep ==
    ASSUME Inv, ApplyPage
    PROVE  Inv'
<1>1. NetFits /\ ViewFits /\ SendFits /\ Extends
  BY SameLogExtends DEF Inv, ApplyPage
<1>2. PICK t : t = Recovered
  OBVIOUS
<1>3. /\ page' = NoPage /\ Refresh(t, byServerId, localOrder)
      /\ UNCHANGED <<log, commands, up, wire, attached, disposed, local, serverId, discarded,
                     retries, unheard>>
  BY <1>2 DEF ApplyPage
<1>4. /\ IsTimeline(t, DOMAIN log) /\ Buffered(t) /\ Grows(tl, t)
      /\ t.cursor = Null => t.visible = {}
  BY <1>2, RecoveredFits
<1>5. NetFits'
  BY <1>1, <1>3 DEF NetFits, WireFits
<1>6. SendFits' /\ Sent' = Sent
  BY <1>1, <1>3, SendKept DEF Sent
<1>7. ViewFits'
  <2>1. PageFits'
    BY <1>3 DEF PageFits, NoPage
  <2> QED BY <1>3, <1>4, <2>1 DEF ViewFits, Refresh
<1>8. NamesFit'
  BY <1>3, <1>4, <1>6, NoneIsNoPlace, GrownKeepsNames
<1>9. PendingIsAnswered'
  BY <1>3, AnswersKept DEF Inv
<1> QED BY <1>5, <1>6, <1>7, <1>8, <1>9 DEF Inv

LEMMA DisposeStep ==
    ASSUME Inv, Dispose
    PROVE  Inv'
<1>1. NetFits /\ ViewFits /\ SendFits /\ NamesFit /\ Extends
  BY SameLogExtends DEF Inv, Dispose
<1>2. /\ local' = Fail(local, Ids) /\ page' = NoPage
      /\ UNCHANGED <<log, commands, up, wire, attached, tl, serverId, discarded, localOrder,
                     byServerId, retries, unheard>>
  BY DEF Dispose
<1>3. NetFits'
  <2>1. disposed' \in BOOLEAN
    BY Zenon DEF Dispose
  <2> QED BY <1>1, <1>2, <2>1 DEF NetFits, WireFits
<1>4. SendFits' /\ Sent' = Sent
  BY <1>1, <1>2, FailsFits
<1>5. ViewFits'
  <2>1. PageFits'
    BY <1>2 DEF PageFits, NoPage
  <2> QED BY <1>1, <1>2, <2>1 DEF ViewFits
<1>6. NamesFit'
  BY <1>1, <1>2, <1>4, NamesKept
<1>7. \A id \in Ids : local'[id] # "pending"
  BY <1>1, <1>2, FailProperties DEF SendFits
<1>8. PendingIsAnswered'
  BY <1>7 DEF PendingIsAnswered
<1> QED BY <1>3, <1>4, <1>5, <1>6, <1>8 DEF Inv

-----------------------------------------------------------------------------
(***************************************************************************)
(* The theorems                                                            *)
(***************************************************************************)
LEMMA StepInv ==
    ASSUME Inv, [Next]_vars
    PROVE  Inv'
<1>1. CASE Attach \/ Connect \/ OtherSends \/ ReadPage \/ ApplyPage \/ Dispose
  BY <1>1, AttachStep, ConnectStep, OtherSendsStep, ReadPageStep, ApplyPageStep, DisposeStep
<1>2. CASE Drop
  BY <1>2, DisconnectFits DEF Drop
<1>3. CASE Hear
  BY <1>3, UnheededStep, HearRejectedStep, HearAcceptedStep, HearCreatedStep DEF Hear
<1>4. ASSUME NEW id \in Ids, User(id)
      PROVE  Inv'
  BY <1>4, SendMessageStep, RetryStep, DiscardedStep DEF User
<1>5. ASSUME NEW c \in commands, Api(c)
      PROVE  Inv'
  BY <1>5, ApiStoresStep, ApiFindsStep, ApiRejectsStep, ApiFailsStep DEF Api
<1>6. CASE UNCHANGED vars
  <2>1. /\ NetFits' /\ Extends
        /\ UNCHANGED <<page, clientVars, retries, unheard, attached, disposed, commands, wire>>
    BY <1>6, SameLogExtends DEF vars, clientVars, Inv, NetFits, WireFits
  <2> QED BY <2>1, ApiKept
<1> QED BY <1>1, <1>2, <1>3, <1>4, <1>5, <1>6 DEF Next

\* The invariant of the messages that are sent here.
THEOREM LocalInvariantHolds == Spec => []Inv
<1>1. Inv /\ [Next]_vars => Inv'
  BY StepInv
<1> QED BY <1>1, InitInv, PTL DEF Spec

\* LocalIsSound: the local list, the records and the connection agree on every
\* message of the user, in whatever order answers, announcements, pages and
\* retries come.
THEOREM LocalStaysSound == Spec => []LocalIsSound
<1>1. Inv => LocalIsSound
  <2> SUFFICES ASSUME Inv PROVE LocalIsSound
    OBVIOUS
  <2>1. NetFits /\ ViewFits /\ SendFits /\ NamesFit
    BY DEF Inv
  <2>2. /\ \A n \in DOMAIN byServerId :
              /\ n \in Known(tl) /\ n \in DOMAIN log /\ n # None
              /\ byServerId[n] # FromServer =>
                    byServerId[n] \in Ids /\ serverId[byServerId[n]] = n
    BY <2>1, NoneIsNoPlace
       DEF NamesFit, ObjectsFit, ByFits, ViewFits, IsTimeline, IsContentOf, Known, None
  <2>3. \A id \in Ids : serverId[id] # None =>
           /\ serverId[id] \in DOMAIN byServerId /\ byServerId[serverId[id]] = id
           /\ log[serverId[id]] = id /\ local[id] = "sent"
    BY <2>1 DEF NamesFit, ObjectsFit, ByFits, SendFits, StatusFits
  <2>4. TypeOK
    <3>1. \A n \in DOMAIN byServerId : byServerId[n] \in Sent \cup {FromServer}
      BY <2>2, <2>3 DEF Sent
    <3>2. discarded \cup localOrder \cup unheard \subseteq Sent
      BY <2>1 DEF NamesFit, OrderFits, SendFits
    <3> QED BY <2>1, <2>2, <3>1, <3>2 DEF TypeOK, NetFits, ViewFits, PageFits, SendFits
  <2>5. ContentReadable
    BY <2>2, <2>3 DEF ContentReadable
  <2>6. OneObjectPerMessage
    <3> SUFFICES ASSUME NEW id \in Ids, serverId[id] # None
                 PROVE  /\ log[serverId[id]] = id
                        /\ {n \in DOMAIN byServerId : byServerId[n] = id} = {serverId[id]}
      BY DEF OneObjectPerMessage
    <3>1. id # FromServer
      BY KeysAssumption
    <3> QED BY <2>2, <2>3, <3>1
  <2> QED BY <2>4, <2>5, <2>6 DEF LocalIsSound, Inv
<1> QED BY <1>1, LocalInvariantHolds, PTL

\* A key is stored once: the API looks for it before it stores a message.
StoredOnce == \A m, n \in DOMAIN log : log[m] \in Ids /\ log[m] = log[n] => m = n

LEMMA KeysAreStoredOnce == Spec => []StoredOnce
<1>1. Init => StoredOnce
  BY DEF Init, StoredOnce
<1>2. Inv /\ StoredOnce /\ [Next]_vars => StoredOnce'
  <2> SUFFICES ASSUME Inv, StoredOnce, [Next]_vars
               PROVE  StoredOnce'
    OBVIOUS
  <2>1. NetFits
    BY DEF Inv
  <2>2. CASE UNCHANGED log
    BY <2>2 DEF StoredOnce
  <2>3. ASSUME NEW c \in commands, ApiStores(c)
        PROVE  StoredOnce'
    <3>1. /\ c.id \in Ids /\ log' = Append(log, c.id)
          /\ \A n \in DOMAIN log : log[n] # c.id
      BY <2>1, <2>3 DEF ApiStores, Existing, NetFits, Command
    <3>2. DOMAIN log' = DOMAIN log \cup {Len(log) + 1}
      BY <2>1, <3>1, AppendProperties DEF NetFits
    <3>3. Extends /\ log'[Len(log) + 1] = c.id
      BY <2>1, <3>1, LogGrows
    <3> QED BY <3>1, <3>2, <3>3 DEF StoredOnce, Extends
  <2>4. CASE OtherSends
    <3>1. log' = Append(log, Other) /\ Other \notin Ids
      BY <2>4, KeysAssumption DEF OtherSends
    <3>2. DOMAIN log' = DOMAIN log \cup {Len(log) + 1}
      BY <2>1, <3>1, AppendProperties DEF NetFits
    <3>3. Extends /\ log'[Len(log) + 1] = Other
      BY <2>1, <3>1, LogGrows
    <3> QED BY <3>1, <3>2, <3>3 DEF StoredOnce, Extends
  <2>5. ASSUME NEW c \in commands, Api(c)
        PROVE  StoredOnce'
    BY <2>2, <2>3, <2>5 DEF Api, ApiFinds, ApiRejects, ApiFails, Disconnect
  <2>6. ASSUME NEW id \in Ids, User(id)
        PROVE  StoredOnce'
    BY <2>2, <2>6 DEF User, SendMessage, Retry, Discarded
  <2>7. CASE Attach \/ Connect \/ Drop \/ ReadPage \/ ApplyPage \/ Dispose
    BY <2>2, <2>7 DEF Attach, Connect, Drop, Disconnect, ReadPage, ApplyPage, Dispose
  <2>8. CASE Hear
    BY <2>2, <2>8 DEF Hear, Unheeded, HearRejected, HearAccepted, HearCreated
  <2>9. CASE UNCHANGED vars
    BY <2>2, <2>9 DEF vars
  <2> QED BY <2>4, <2>5, <2>6, <2>7, <2>8, <2>9 DEF Next
<1> QED BY <1>1, <1>2, LocalInvariantHolds, PTL DEF Spec

\* ShownOnce: a message that was sent and not discarded is in the local list until
\* its acceptance is heard, and from then on either there or in view at its place in
\* the stream, not in both.
THEOREM EachIsShownOnce == Spec => []ShownOnce
<1>1. Inv /\ StoredOnce => ShownOnce
  <2> SUFFICES ASSUME Inv, StoredOnce, NEW id \in Sent \ discarded
               PROVE  IF serverId[id] = None THEN InList(id) ELSE InList(id) # InStream(id)
    BY DEF ShownOnce
  <2>1. id \in localOrder <=> serverId[id] \notin tl.visible
    BY DEF Inv, NamesFit, OrderFits
  <2>2. id \in Ids /\ None \notin tl.visible /\ tl.visible \subseteq DOMAIN log
    BY NoneIsNoPlace DEF Sent, None, Inv, ViewFits, IsTimeline, IsContentOf, Known
  <2>3. CASE serverId[id] = None
    BY <2>1, <2>2, <2>3 DEF InList
  <2>4. CASE serverId[id] # None
    <3>1. serverId[id] \in DOMAIN log /\ log[serverId[id]] = id
      BY <2>2, <2>4 DEF Inv, NamesFit, ObjectsFit, ByFits, SendFits
    <3>2. InStream(id) <=> serverId[id] \in tl.visible
      BY <2>2, <3>1 DEF InStream, StoredOnce
    <3> QED BY <2>1, <2>4, <3>2 DEF InList
  <2> QED BY <2>3, <2>4
<1> QED BY <1>1, LocalInvariantHolds, KeysAreStoredOnce, PTL

\* SentIsFinal: what was accepted stays accepted, under the same sequence.
THEOREM SentStaysFinal == Spec => SentIsFinal
<1>1. Inv /\ [Next]_vars =>
        [\A id \in Ids : local[id] = "sent" =>
            local'[id] = "sent" /\ serverId'[id] = serverId[id]]_vars
  <2> SUFFICES ASSUME Inv, Next, NEW id \in Ids, local[id] = "sent"
               PROVE  local'[id] = "sent" /\ serverId'[id] = serverId[id]
    OBVIOUS
  <2>1. NetFits /\ SendFits /\ serverId[id] # None
    BY DEF Inv, SendFits, StatusFits
  <2>2. ASSUME NEW ids, local' = Fail(local, ids), UNCHANGED serverId
        PROVE  local'[id] = "sent" /\ serverId'[id] = serverId[id]
    BY <2>1, <2>2, FailProperties DEF SendFits
  <2>3. CASE UNCHANGED <<local, serverId>>
    BY <2>3
  <2>4. ASSUME NEW cs, Disconnect(cs)
        PROVE  local'[id] = "sent" /\ serverId'[id] = serverId[id]
    BY <2>2, <2>4 DEF Disconnect, AfterDisconnect
  <2>5. CASE HearRejected(id) \/ Dispose \/ \E k \in Ids : HearRejected(k)
    BY <2>2, <2>5 DEF HearRejected, Dispose
  <2>6. ASSUME NEW k \in Ids, SendMessage(k) \/ Retry(k)
        PROVE  local'[id] = "sent" /\ serverId'[id] = serverId[id]
    <3>1. Transmitted(k) /\ local[k] # "sent" /\ UNCHANGED serverId
      BY <2>1, <2>6, TransmitProperties DEF SendMessage, Retry, CanRetry
    <3> QED BY <3>1 DEF Transmitted
  <2>7. ASSUME NEW k \in Ids, NEW n \in DOMAIN log, HearAccepted(k, n)
        PROVE  local'[id] = "sent" /\ serverId'[id] = serverId[id]
    <3>1. CASE k = id /\ serverId[id] # n
      BY <2>1, <2>7, <3>1 DEF HearAccepted, Conflict
    <3>2. CASE k # id
      BY <2>1, <2>7, <3>2 DEF HearAccepted, SendFits
    <3>3. CASE k = id /\ serverId[id] = n
      BY <2>7, <3>3 DEF HearAccepted
    <3> QED BY <3>1, <3>2, <3>3
  <2>8. ASSUME NEW c \in commands, Api(c)
        PROVE  local'[id] = "sent" /\ serverId'[id] = serverId[id]
    BY <2>3, <2>4, <2>8
       DEF Api, ApiStores, ApiFinds, ApiRejects, ApiFails, clientVars
  <2>9. CASE Attach \/ Connect \/ OtherSends \/ ReadPage \/ ApplyPage
             \/ (\E e \in wire : Unheeded(e)) \/ (\E n \in DOMAIN log : HearCreated(n))
             \/ (\E k \in Ids : Discarded(k))
    BY <2>3, <2>9 DEF Attach, Connect, OtherSends, ReadPage, ApplyPage, Unheeded, HearCreated,
                      Discarded, clientVars
  <2> QED BY <2>4, <2>5, <2>6, <2>7, <2>8, <2>9 DEF Next, User, Hear, Drop
<1> QED BY <1>1, LocalInvariantHolds, PTL DEF Spec, SentIsFinal

=============================================================================
