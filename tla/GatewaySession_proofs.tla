----------------------- MODULE GatewaySession_proofs -----------------------
(***************************************************************************)
(* Proofs about the gateway process and its tickets.  A ticket has a row   *)
(* exactly from its issue on, who was admitted with it is written in the   *)
(* row, and a session is made only from an admission.                      *)
(***************************************************************************)
EXTENDS GatewaySession, SequenceTheorems, TLAPS

Asks == Sockets \cup Elsewhere

Issued == [stage : {"saving", "issued", "failed"}, actor : Actors, gateway : Gateways,
           times : [issuedAt : Nat, expiresAt : Nat]]

Rows == [actor : Actors, gateway : Gateways, expiresAt : Nat, consumedBy : SUBSET Asks]

Asked == [stage : {"hashing", "consumed", "rejected", "failed"}, ticket : Api!Presented,
          gateway : Gateways, now : Nat]

TicketTypes ==
    /\ clock \in 0..MaxTime
    /\ issue \in [Tickets -> {Api!NotIssued} \cup Issued]
    /\ row \in [Tickets -> {Api!NoRow} \cup Rows]
    /\ ask \in [Asks -> {Api!NoAsk} \cup Asked]

\* The row of a ticket: there is none before the insert, and it holds what the
\* issue call decided.
RowsFit ==
    \A t \in Tickets :
        /\ issue[t] = Api!NotIssued \/ issue[t].stage = "saving" => row[t] = Api!NoRow
        /\ issue[t] # Api!NotIssued =>
             /\ issue[t].times.issuedAt <= clock
             /\ issue[t].times.expiresAt = issue[t].times.issuedAt + Ttl
        /\ issue[t] # Api!NotIssued /\ issue[t].stage = "issued" =>
             /\ row[t] # Api!NoRow
             /\ row[t].gateway = issue[t].gateway
             /\ row[t].actor = issue[t].actor
             /\ row[t].expiresAt = issue[t].times.expiresAt

IsIssued(t) == t \in Tickets /\ issue[t] # Api!NotIssued /\ issue[t].stage = "issued"

\* A call presents a ticket after it was issued, and what it was answered
\* follows from the row.
AsksFit ==
    \A a \in Asks : ask[a] # Api!NoAsk =>
        /\ ask[a].ticket \in Tickets =>
             IsIssued(ask[a].ticket) /\ issue[ask[a].ticket].times.issuedAt <= ask[a].now
        /\ ask[a].stage = "consumed" =>
             /\ ask[a].ticket \in Tickets
             /\ ask[a].gateway = issue[ask[a].ticket].gateway
             /\ ask[a].now < issue[ask[a].ticket].times.expiresAt
        /\ ask[a].stage = "rejected" /\ ask[a].ticket \in Tickets =>
             \/ ask[a].gateway # issue[ask[a].ticket].gateway
             \/ ask[a].now >= issue[ask[a].ticket].times.expiresAt
             \/ row[ask[a].ticket].consumedBy \ {a} # {}

Won(a, t) == ask[a] # Api!NoAsk /\ ask[a].stage = "consumed" /\ ask[a].ticket = t

\* The row records whom it admitted, which is nobody or one call.
WinnersFit ==
    \A t \in Tickets : row[t] # Api!NoRow =>
        /\ \A a \in Asks : a \in row[t].consumedBy <=> Won(a, t)
        /\ \A a, b \in Asks : Won(a, t) /\ Won(b, t) => a = b

TicketInv == TicketTypes /\ RowsFit /\ AsksFit /\ WinnersFit

\* The records that stand for "none" are none of the others.
LEMMA NoneIsNone ==
    /\ Api!NotIssued \notin Issued
    /\ Api!NoRow \notin Rows
    /\ Api!NoAsk \notin Asked
BY DEF Api!NotIssued, Api!NoRow, Api!NoAsk, Issued, Rows, Asked

LEMMA TicketsInitially == Api!TicketsInit => TicketInv
BY NoneIsNone, TimeAssumption DEF Api!TicketsInit, TicketInv, TicketTypes, RowsFit, AsksFit, WinnersFit, Asks

LEMMA TickKeeps == TicketInv /\ Api!Tick => TicketInv'
BY NoneIsNone, TimeAssumption DEF Api!Tick, TicketInv, TicketTypes, RowsFit, AsksFit, WinnersFit, IsIssued, Won, Issued

LEMMA IssueTicketKeeps ==
    ASSUME TicketInv, NEW t \in Tickets, NEW x \in Actors, NEW g \in Gateways,
           Api!IssueTicket(t, x, g)
    PROVE  TicketInv'
<1> DEFINE new == [stage |-> "saving", actor |-> x, gateway |-> g,
                   times |-> Api!Timestamps(clock)]
<1> USE DEF TicketInv
<1>1. new \in Issued
  BY TimeAssumption, PolicyAssumption DEF TicketTypes, Issued, Api!Timestamps
<1>2. issue' = [issue EXCEPT ![t] = new] /\ UNCHANGED <<clock, row, ask>> /\ issue[t] = Api!NotIssued
  BY DEF Api!IssueTicket
<1>3. TicketTypes'
  BY <1>1, <1>2 DEF TicketTypes
<1>4. issue'[t] = new /\ \A u \in Tickets : u # t => issue'[u] = issue[u]
  BY <1>2 DEF TicketTypes
<1>5. RowsFit'
  <2>1. new.stage = "saving" /\ new.times.issuedAt = clock /\ new.times.expiresAt = clock + Ttl
    BY DEF Api!Timestamps
  <2>2. row[t] = Api!NoRow /\ clock <= clock
    BY <1>2, TimeAssumption DEF RowsFit, TicketTypes
  <2> HIDE DEF new
  <2> QED
    BY <1>1, <1>2, <1>4, <2>1, <2>2 DEF RowsFit
<1>6. AsksFit'
  <2>1. \A u \in Tickets : IsIssued(u) => u # t
    BY <1>2 DEF IsIssued
  <2>2. \A u \in Tickets : IsIssued(u) => IsIssued(u)' /\ issue'[u] = issue[u]
    BY <2>1, <1>4 DEF IsIssued
  <2> QED
    BY <1>2, <2>2 DEF AsksFit
<1>7. WinnersFit'
  BY <1>2 DEF WinnersFit, Won
<1> QED
  BY <1>3, <1>5, <1>6, <1>7

\* The row that an issue call inserts.
Inserted(t) == [actor |-> issue[t].actor, gateway |-> issue[t].gateway,
                expiresAt |-> issue[t].times.expiresAt, consumedBy |-> {}]

\* The end of an issue call, with its row or without it.
LEMMA IssueEndKeeps ==
    ASSUME TicketInv, NEW t \in Tickets, NEW end \in {"issued", "failed"},
           issue[t].stage = "saving",
           issue' = [issue EXCEPT ![t].stage = end],
           \/ row' = [row EXCEPT ![t] = Inserted(t)]
           \/ end = "failed" /\ row' = row,
           UNCHANGED <<clock, ask>>
    PROVE  TicketInv'
<1> USE DEF TicketInv
<1>1. issue[t] \in Issued /\ issue[t] # Api!NotIssued
  BY NoneIsNone DEF TicketTypes, Api!NotIssued
<1>2. PICK i : i = issue'[t] /\ i \in Issued /\ i.stage = end /\ i.actor = issue[t].actor
                /\ i.gateway = issue[t].gateway /\ i.times = issue[t].times
  BY <1>1 DEF TicketTypes, Issued
<1>3. \A u \in Tickets : u # t => issue'[u] = issue[u] /\ row'[u] = row[u]
  BY DEF TicketTypes
<1>4. Inserted(t) \in Rows /\ Inserted(t).consumedBy = {}
  BY <1>1 DEF Inserted, Rows, Issued
<1>5. row[t] = Api!NoRow
  BY <1>1 DEF RowsFit
<1>6. row'[t] = Inserted(t) \/ row'[t] = Api!NoRow
  BY <1>5 DEF TicketTypes
<1>7. TicketTypes'
  <2>1. issue' = [issue EXCEPT ![t] = i]
    BY <1>2 DEF TicketTypes
  <2>2. row' \in [Tickets -> {Api!NoRow} \cup Rows]
    BY <1>4 DEF TicketTypes
  <2> QED BY <1>2, <2>1, <2>2 DEF TicketTypes
<1>8. i # Api!NotIssued
  BY <1>2, NoneIsNone
<1>9. RowsFit'
  <2>1. end = "issued" => row'[t] = Inserted(t)
    BY DEF TicketTypes
  <2>2. end = "issued" => row'[t] # Api!NoRow /\ row'[t].gateway = i.gateway
             /\ row'[t].actor = i.actor /\ row'[t].expiresAt = i.times.expiresAt
    BY <1>2, <1>4, <2>1, NoneIsNone DEF Inserted
  <2> QED BY <1>1, <1>2, <1>3, <1>8, <2>2 DEF RowsFit
<1>10. \A u \in Tickets : IsIssued(u) => u # t /\ IsIssued(u)' /\ issue'[u] = issue[u]
             /\ row'[u] = row[u]
  BY <1>3 DEF IsIssued
<1>11. AsksFit'
  BY <1>10 DEF AsksFit
<1>12. \A a \in Asks : ~Won(a, t)
  BY DEF Won, AsksFit, IsIssued
<1>13. WinnersFit'
  BY <1>3, <1>4, <1>6, <1>12 DEF WinnersFit, Won
<1> QED
  BY <1>7, <1>9, <1>11, <1>13

LEMMA SaveKeeps ==
    ASSUME TicketInv, NEW t \in Tickets, Api!SaveIssuedTicket(t)
    PROVE  TicketInv'
BY IssueEndKeeps DEF Api!SaveIssuedTicket, Inserted

LEMMA IssueFailsKeeps ==
    ASSUME TicketInv, NEW t \in Tickets, Api!IssueFails(t)
    PROVE  TicketInv'
BY IssueEndKeeps DEF Api!IssueFails, Inserted

LEMMA AskKeeps ==
    ASSUME TicketInv, NEW a \in Asks, NEW t \in Api!Presented, NEW g \in Gateways,
           Api!AskToConsume(a, t, g)
    PROVE  TicketInv'
<1> DEFINE new == [stage |-> IF t = Api!Blank THEN "rejected" ELSE "hashing",
                   ticket |-> t, gateway |-> g, now |-> clock]
<1> USE DEF TicketInv
<1>1. new \in Asked /\ new # Api!NoAsk
  BY TimeAssumption, NoneIsNone DEF TicketTypes, Asked
<1>2. ask' = [ask EXCEPT ![a] = new] /\ UNCHANGED <<clock, issue, row>> /\ ask[a] = Api!NoAsk
      /\ Api!CanPresent(t)
  BY DEF Api!AskToConsume
<1>3. TicketTypes'
  BY <1>1, <1>2 DEF TicketTypes
<1>4. ask'[a] = new /\ \A b \in Asks : b # a => ask'[b] = ask[b]
  BY <1>2 DEF TicketTypes
<1>5. new.ticket = t /\ new.stage # "consumed" /\ new.now = clock
      /\ (new.stage = "rejected" => t = Api!Blank)
  OBVIOUS
<1>6. t \in Tickets => IsIssued(t) /\ issue[t].times.issuedAt <= clock
  BY <1>2 DEF Api!CanPresent, IsIssued, RowsFit, Api!NotIssued
<1> HIDE DEF new
<1>7. RowsFit'
  BY <1>2 DEF RowsFit
<1>8. AsksFit'
  BY <1>1, <1>2, <1>4, <1>5, <1>6, BlankIsNoTicket DEF AsksFit, IsIssued
<1>9. WinnersFit'
  BY <1>2, <1>4, <1>5 DEF WinnersFit, Won
<1> QED
  BY <1>3, <1>7, <1>8, <1>9

\* The end of a consumption call: one conditional update of its row.
LEMMA ConsumeKeeps ==
    ASSUME TicketInv, NEW a \in Asks, Api!ConsumeIssuedTicket(a)
    PROVE  TicketInv'
<1> DEFINE t == ask[a].ticket
<1> USE DEF TicketInv
<1>1. ask[a] \in Asked /\ ask[a] # Api!NoAsk /\ ask[a].stage = "hashing"
  BY NoneIsNone DEF Api!ConsumeIssuedTicket, TicketTypes, Api!NoAsk
<1>2. UNCHANGED <<clock, issue>>
  BY DEF Api!ConsumeIssuedTicket
<1>3. CASE Api!Consumable(t, ask[a].gateway, ask[a].now)
  <2>1. t \in Tickets /\ row[t] \in Rows /\ row[t] # Api!NoRow /\ row[t].gateway = ask[a].gateway
        /\ row[t].consumedBy = {} /\ row[t].expiresAt > ask[a].now
    BY <1>3 DEF Api!Consumable, TicketTypes
  <2>2. row' = [row EXCEPT ![t].consumedBy = @ \cup {a}] /\ ask' = [ask EXCEPT ![a].stage = "consumed"]
    BY <1>3 DEF Api!ConsumeIssuedTicket
  <2>3. PICK r : r = row'[t] /\ r \in Rows /\ r.actor = row[t].actor /\ r.gateway = row[t].gateway
                  /\ r.expiresAt = row[t].expiresAt /\ r.consumedBy = {a}
    BY <2>1, <2>2 DEF TicketTypes, Rows
  <2>4. PICK c : c = ask'[a] /\ c \in Asked /\ c.stage = "consumed" /\ c.ticket = t
                  /\ c.gateway = ask[a].gateway /\ c.now = ask[a].now
    BY <1>1, <2>2 DEF TicketTypes, Asked
  <2>5. \A u \in Tickets : u # t => row'[u] = row[u]
    BY <2>2 DEF TicketTypes
  <2>6. \A b \in Asks : b # a => ask'[b] = ask[b]
    BY <2>2 DEF TicketTypes
  <2>7. r # Api!NoRow /\ c # Api!NoAsk
    BY <2>3, <2>4, NoneIsNone
  <2>8. TicketTypes'
    <3>1. row' = [row EXCEPT ![t] = r] /\ ask' = [ask EXCEPT ![a] = c]
      BY <2>2, <2>3, <2>4, <2>1 DEF TicketTypes
    <3> QED BY <3>1, <1>2, <2>1, <2>3, <2>4 DEF TicketTypes
  <2>9. IsIssued(t) /\ issue[t].times.issuedAt <= ask[a].now
    BY <1>1, <2>1 DEF AsksFit
  <2>10. issue[t].gateway = row[t].gateway /\ issue[t].times.expiresAt = row[t].expiresAt
    BY <2>1, <2>9 DEF IsIssued, RowsFit
  <2>11. RowsFit'
    BY <1>2, <2>1, <2>3, <2>5, <2>7, <2>9 DEF RowsFit, IsIssued
  <2>12. \A b \in Asks : ~Won(b, t)
    BY <2>1 DEF WinnersFit
  <2>13. AsksFit'
    <3> SUFFICES ASSUME NEW b \in Asks, ask'[b] # Api!NoAsk PROVE AsksFit!(b)'
      BY DEF AsksFit
    <3>1. CASE b = a
      BY <3>1, <1>2, <2>1, <2>4, <2>9, <2>10 DEF AsksFit, IsIssued, TicketTypes, Rows, Asked
    <3>2. CASE b # a
      <4>1. ask'[b] = ask[b] BY <3>2, <2>6
      <4>2. ask[b].ticket = t => row'[t].consumedBy \ {b} # {}
        BY <3>2, <2>3
      <4> QED BY <4>1, <4>2, <1>2, <2>5 DEF AsksFit, IsIssued
    <3> QED BY <3>1, <3>2
  <2>14. WinnersFit'
    BY <2>1, <2>3, <2>4, <2>5, <2>6, <2>7, <2>12, <1>1 DEF WinnersFit, Won
  <2> QED BY <2>8, <2>11, <2>13, <2>14
<1>4. CASE ~Api!Consumable(t, ask[a].gateway, ask[a].now)
  <2>1. row' = row /\ ask' = [ask EXCEPT ![a].stage = "rejected"]
    BY <1>4 DEF Api!ConsumeIssuedTicket
  <2>2. PICK c : c = ask'[a] /\ c \in Asked /\ c.stage = "rejected" /\ c.ticket = t
                  /\ c.gateway = ask[a].gateway /\ c.now = ask[a].now
    BY <1>1, <2>1 DEF TicketTypes, Asked
  <2>3. \A b \in Asks : b # a => ask'[b] = ask[b]
    BY <2>1 DEF TicketTypes
  <2>4. TicketTypes'
    <3>1. ask' = [ask EXCEPT ![a] = c]
      BY <2>1, <2>2 DEF TicketTypes
    <3> QED BY <3>1, <1>2, <2>1, <2>2 DEF TicketTypes
  <2>5. c # Api!NoAsk
    BY <2>2, NoneIsNone
  <2>6. t \in Tickets => IsIssued(t) /\ issue[t].times.issuedAt <= ask[a].now
    BY <1>1 DEF AsksFit
  <2>7. t \in Tickets => row[t] \in Rows /\ row[t] # Api!NoRow /\ row[t].gateway = issue[t].gateway
                          /\ row[t].expiresAt = issue[t].times.expiresAt
    BY <2>6 DEF RowsFit, IsIssued, TicketTypes
  <2>8. t \in Tickets /\ row[t].consumedBy # {} => row[t].consumedBy \ {a} # {}
    BY <1>1, <2>7 DEF WinnersFit, Won, Rows
  <2>9. t \in Tickets => \/ ask[a].gateway # issue[t].gateway
                         \/ ask[a].now >= issue[t].times.expiresAt
                         \/ row[t].consumedBy \ {a} # {}
    BY <1>1, <1>4, <2>7, <2>8 DEF Api!Consumable, Rows, Asked
  <2>10. RowsFit'
    BY <1>2, <2>1 DEF RowsFit
  <2>11. AsksFit'
    BY <1>2, <2>1, <2>2, <2>3, <2>6, <2>9 DEF AsksFit, IsIssued
  <2>12. WinnersFit'
    BY <1>1, <2>1, <2>2, <2>3 DEF WinnersFit, Won
  <2> QED BY <2>4, <2>10, <2>11, <2>12
<1> QED
  BY <1>3, <1>4

LEMMA AskFailsKeeps ==
    ASSUME TicketInv, NEW a \in Asks, Api!AskFails(a)
    PROVE  TicketInv'
<1> USE DEF TicketInv
<1>1. ask[a] \in Asked /\ ask[a] # Api!NoAsk /\ ask[a].stage = "hashing"
  BY NoneIsNone DEF Api!AskFails, TicketTypes, Api!NoAsk
<1>2. UNCHANGED <<clock, issue, row>> /\ ask' = [ask EXCEPT ![a].stage = "failed"]
  BY DEF Api!AskFails
<1>3. PICK c : c = ask'[a] /\ c \in Asked /\ c.stage = "failed" /\ c.ticket = ask[a].ticket
                /\ c.gateway = ask[a].gateway /\ c.now = ask[a].now
  BY <1>1, <1>2 DEF TicketTypes, Asked
<1>4. \A b \in Asks : b # a => ask'[b] = ask[b]
  BY <1>2 DEF TicketTypes
<1>5. ask' = [ask EXCEPT ![a] = c]
  BY <1>2, <1>3 DEF TicketTypes
<1>6. TicketTypes'
  BY <1>2, <1>3, <1>5 DEF TicketTypes
<1>7. RowsFit'
  BY <1>2 DEF RowsFit
<1>8. AsksFit'
  BY <1>1, <1>2, <1>3, <1>4 DEF AsksFit, IsIssued
<1>9. WinnersFit'
  BY <1>1, <1>2, <1>3, <1>4 DEF WinnersFit, Won
<1> QED
  BY <1>6, <1>7, <1>8, <1>9

LEMMA TicketsKeptStill == TicketInv /\ UNCHANGED api => TicketInv'
BY DEF TicketInv, TicketTypes, RowsFit, AsksFit, WinnersFit, IsIssued, Won, api

\* Every step of the gateway process and of the tickets keeps the invariant.
LEMMA TicketsKeep == TicketInv /\ [Next]_vars => TicketInv'
<1> SUFFICES ASSUME TicketInv, [Next]_vars PROVE TicketInv'
  OBVIOUS
<1>1. CASE \E s \in Sockets : \E t \in Api!Presented : ApiIsAsked(s, t)
  BY <1>1, AskKeeps, SelfAssumption DEF ApiIsAsked, Asks
<1>2. CASE OtherSteps
  <2>1. CASE Api!TicketsStep
    BY <2>1, TickKeeps, SaveKeeps, IssueFailsKeeps, IssueTicketKeeps, ConsumeKeeps, AskFailsKeeps
    DEF Api!TicketsStep, Asks
  <2>2. CASE \E a \in Elsewhere, t \in Tickets, g \in Gateways \ {Self} : Api!AskToConsume(a, t, g)
    BY <2>2, AskKeeps DEF Asks, Api!Presented
  <2> QED BY <1>2, <2>1, <2>2 DEF OtherSteps
<1>3. CASE UNCHANGED vars
  BY <1>3, TicketsKeptStill DEF vars, api
<1>4. CASE \E s \in Sockets : SocketStep(s) /\ ~\E t \in Api!Presented : ApiIsAsked(s, t)
  <2>1. UNCHANGED api
    BY <1>4, ZenonT(60) DEF SocketStep, Connect, ConnectionEnds, TooEarly, Upgrade, Authenticated,
       AuthenticationFails, Greeted, GreetingFails,
       BadFrame, Join, Mutate, SendMessage, PeerCloses, Closed
  <2> QED BY <2>1, TicketsKeptStill
<1>5. CASE (\E c \in Calls : CallStep(c)) \/ Close \/ ForceClose \/ ServersClosed
  <2>1. UNCHANGED api
    BY <1>5 DEF CallStep, ApiAnswers, Relayed, RelayFails, Close, ForceClose, ServersClosed
  <2> QED BY <2>1, TicketsKeptStill
<1> QED
  BY <1>1, <1>2, <1>3, <1>4, <1>5 DEF Next

\* The invariant of the tickets.
THEOREM TicketInvariantHolds == Spec => []TicketInv
<1>1. Init => TicketInv
  BY TicketsInitially DEF Init
<1> QED
  BY <1>1, TicketsKeep, PTL DEF Spec

-----------------------------------------------------------------------------
(* What the tickets promise.                                               *)

LEMMA TicketInvImpliesSound == TicketInv => TicketsAreSound
<1> SUFFICES ASSUME TicketInv PROVE TicketsAreSound
  OBVIOUS
<1> USE DEF TicketInv
<1>1. Api!TicketsTypeOK
  <2>1. \A t \in Tickets : issue[t].stage \in {"none", "saving", "issued", "failed"}
    BY DEF TicketTypes, Issued, Api!NotIssued
  <2>2. \A t \in Tickets : row[t] # Api!NoRow => /\ row[t].actor \in Actors
                                                /\ row[t].gateway \in Gateways
                                                /\ row[t].consumedBy \subseteq Asks
    BY DEF TicketTypes, Rows
  <2>3. \A a \in Asks : ask[a].stage \in {"none", "hashing", "consumed", "rejected", "failed"}
    BY DEF TicketTypes, Asked, Api!NoAsk
  <2> QED BY <2>1, <2>2, <2>3 DEF Api!TicketsTypeOK, TicketTypes, Asks
<1>2. \A a \in Asks : ask[a].stage = "consumed" => ask[a] # Api!NoAsk
  BY DEF Api!NoAsk
<1>3. Api!ConsumedOnce
  <2> SUFFICES ASSUME NEW t \in Tickets
               PROVE  LET W == {a \in Asks : ask[a].stage = "consumed" /\ ask[a].ticket = t}
                      IN /\ \A a, b \in W : a = b
                         /\ row[t] # Api!NoRow => row[t].consumedBy = W
    BY DEF Api!ConsumedOnce, Asks
  <2> DEFINE W == {a \in Asks : ask[a].stage = "consumed" /\ ask[a].ticket = t}
  <2>1. \A a \in Asks : a \in W <=> Won(a, t)
    BY <1>2 DEF Won
  <2>2. \A a \in Asks : Won(a, t) => row[t] # Api!NoRow
    BY DEF Won, AsksFit, IsIssued, RowsFit
  <2>3. \A a, b \in W : a = b
    BY <2>1, <2>2 DEF WinnersFit
  <2>4. row[t] # Api!NoRow => row[t].consumedBy = W
    <3> SUFFICES ASSUME row[t] # Api!NoRow PROVE row[t].consumedBy = W
      OBVIOUS
    <3>1. row[t].consumedBy \subseteq Asks
      BY DEF TicketTypes, Rows
    <3>2. \A a \in Asks : a \in row[t].consumedBy <=> a \in W
      BY <2>1 DEF WinnersFit
    <3> QED BY <3>1, <3>2
  <2> QED BY <2>3, <2>4
<1>4. Api!AdmittedAsIssued
  <2> SUFFICES ASSUME NEW a \in Asks, ask[a].stage = "consumed"
               PROVE  LET c == ask[a] IN
                      /\ c.ticket \in Tickets /\ issue[c.ticket].stage = "issued"
                      /\ c.gateway = issue[c.ticket].gateway
                      /\ c.now \in issue[c.ticket].times.issuedAt..(issue[c.ticket].times.issuedAt + Ttl - 1)
    BY DEF Api!AdmittedAsIssued, Asks
  <2>1. ask[a] \in Asked
    BY <1>2 DEF TicketTypes
  <2>2. ask[a].ticket \in Tickets /\ IsIssued(ask[a].ticket)
    BY <1>2 DEF AsksFit
  <2>3. issue[ask[a].ticket] \in Issued
    BY <2>2 DEF IsIssued, TicketTypes
  <2>4. issue[ask[a].ticket].times.expiresAt = issue[ask[a].ticket].times.issuedAt + Ttl
    BY <2>2 DEF IsIssued, RowsFit
  <2>5. /\ ask[a].gateway = issue[ask[a].ticket].gateway
        /\ issue[ask[a].ticket].times.issuedAt <= ask[a].now
        /\ ask[a].now < issue[ask[a].ticket].times.expiresAt
    BY <1>2, <2>2 DEF AsksFit
  <2>6. ask[a].now \in Nat /\ issue[ask[a].ticket].times.issuedAt \in Nat
    BY <2>1, <2>3 DEF Asked, Issued
  <2> QED BY <2>2, <2>4, <2>5, <2>6, PolicyAssumption DEF IsIssued
<1> QED
  BY <1>1, <1>3, <1>4 DEF TicketsAreSound

\* For any number of tickets, gateways and calls, and in every order of their
\* statements: one call at most consumes a ticket, the row says which, and it
\* presented an issued ticket in time and on the gateway it was issued for.
THEOREM TicketsStaySound == Spec => []TicketsAreSound
BY TicketInvariantHolds, TicketInvImpliesSound, PTL

LEMMA TicketInvImpliesFirst == TicketInv => FirstComerAdmitted
<1> SUFFICES ASSUME TicketInv, NEW a \in Asks, ask[a].stage = "rejected", ask[a].ticket \in Tickets
             PROVE  LET c == ask[a] IN
                    \/ c.gateway # issue[c.ticket].gateway
                    \/ c.now >= issue[c.ticket].times.issuedAt + Ttl
                    \/ row[c.ticket].consumedBy \ {a} # {}
  BY DEF FirstComerAdmitted, Api!FirstComerAdmitted, Asks
<1> USE DEF TicketInv
<1>1. ask[a] # Api!NoAsk
  BY DEF Api!NoAsk
<1>2. IsIssued(ask[a].ticket)
  BY <1>1 DEF AsksFit
<1>3. issue[ask[a].ticket].times.expiresAt = issue[ask[a].ticket].times.issuedAt + Ttl
  BY <1>2 DEF IsIssued, RowsFit
<1> QED
  BY <1>1, <1>3 DEF AsksFit

\* A valid ticket is refused only to a call on another gateway, too late, or
\* behind another call that the row names.
THEOREM FirstComerIsAdmitted == Spec => []FirstComerAdmitted
BY TicketInvariantHolds, TicketInvImpliesFirst, PTL

-----------------------------------------------------------------------------
(* The sessions of the process.                                            *)

SocketStates == {"absent", "http", "refused", "open", "closing", "terminated", "closed"}
AuthStates == {"none", "consuming", "greeting", "over"}

LocalSessions == [state : {"authenticating", "ready", "closed"}, connectedEventSent : BOOLEAN,
                  actor : Actors, channels : SUBSET Channels]

SessionTypes ==
    /\ socket \in [Sockets -> SocketStates]
    /\ auth \in [Sockets -> AuthStates]
    /\ session \in [Sockets -> {NoSession} \cup LocalSessions]
    /\ sessions \subseteq Sockets
    /\ told \in [Sockets -> Nat]
    /\ shutdown \in {"serving", "closing", "forced", "closed"}

\* A connection that is no WebSocket.
NotUpgraded == {"absent", "http", "refused"}

\* A session is made once, after the ticket was consumed, and is in the maps
\* only while its socket is there.
SessionsFit ==
    \A s \in Sockets :
        /\ auth[s] \in {"none", "consuming"} => session[s] = NoSession
        /\ auth[s] = "greeting" => session[s] # NoSession
        /\ socket[s] \in NotUpgraded => auth[s] = "none"
        /\ s \in sessions => session[s] # NoSession /\ Present(s)
        /\ told[s] = IF session[s] # NoSession /\ s \notin sessions THEN 1 ELSE 0

\* A session belongs to the actor of the ticket its socket consumed here.
AdmissionsFit ==
    \A s \in Sockets :
        /\ ask[s] # Api!NoAsk => ask[s].gateway = Self
        /\ session[s] # NoSession =>
             /\ ask[s] # Api!NoAsk /\ ask[s].stage = "consumed"
             /\ session[s].actor = issue[ask[s].ticket].actor

\* A closing process has no open socket, and a closed one has none at all.
ClosingFit ==
    /\ IsClosing => \A s \in Sockets : socket[s] # "open"
    /\ shutdown = "closed" => \A s \in Sockets : ~Present(s)

Commands == [from : Sockets, key : Keys, target : Targets \cup {Mutation},
             stage : {"api", "rejected", "existing", "created", "over"}]

StoreFits ==
    /\ call \in [Calls -> {NoCall} \cup Commands]
    /\ DOMAIN stored \subseteq Keys

SessionParts == SessionTypes /\ SessionsFit /\ AdmissionsFit /\ ClosingFit

LEMMA NoSessionIsNone == NoSession \notin LocalSessions /\ NoCall \notin Commands
BY DEF NoSession, LocalSessions, NoCall, Commands

LEMMA SessionsInitially == Init => SessionParts /\ StoreFits
<1> SUFFICES ASSUME Init PROVE SessionParts /\ StoreFits
  OBVIOUS
<1>1. SessionTypes
  BY DEF Init, SessionTypes, SocketStates, AuthStates
<1>2. SessionsFit
  BY DEF Init, SessionsFit
<1>3. AdmissionsFit
  BY DEF Init, AdmissionsFit, Api!TicketsInit
<1>4. ClosingFit
  BY DEF Init, ClosingFit, IsClosing
<1>5. StoreFits
  BY DEF Init, StoreFits
<1> QED
  BY <1>1, <1>2, <1>3, <1>4, <1>5 DEF SessionParts

\* What was admitted or issued stays as it is.
LEMMA TicketsStayDecided ==
    ASSUME TicketInv, Api!TicketsStep
    PROVE  /\ \A a \in Asks :
                ask'[a] # Api!NoAsk => ask[a] # Api!NoAsk /\ ask'[a].gateway = ask[a].gateway
           /\ \A a \in Asks :
                ask[a] # Api!NoAsk /\ ask[a].stage = "consumed" => ask'[a] = ask[a]
           /\ \A t \in Tickets : IsIssued(t) => issue'[t] = issue[t]
<1> USE DEF TicketInv
<1>1. CASE \E a \in Asks : Api!ConsumeIssuedTicket(a) \/ Api!AskFails(a)
  <2>1. PICK a \in Asks : Api!ConsumeIssuedTicket(a) \/ Api!AskFails(a)
    BY <1>1
  <2>2. ask[a] \in Asked /\ ask[a] # Api!NoAsk /\ ask[a].stage = "hashing"
    BY <2>1, NoneIsNone DEF Api!ConsumeIssuedTicket, Api!AskFails, TicketTypes, Api!NoAsk
  <2>3. PICK e : ask' = [ask EXCEPT ![a].stage = e]
    BY <2>1 DEF Api!ConsumeIssuedTicket, Api!AskFails
  <2>4. ask'[a].gateway = ask[a].gateway /\ \A b \in Asks : b # a => ask'[b] = ask[b]
    BY <2>2, <2>3 DEF TicketTypes, Asked
  <2>5. issue' = issue
    BY <2>1 DEF Api!ConsumeIssuedTicket, Api!AskFails
  <2> QED BY <2>2, <2>4, <2>5
<1>2. CASE Api!Tick
  BY <1>2 DEF Api!Tick
<1>3. CASE \E t \in Tickets : \/ Api!SaveIssuedTicket(t) \/ Api!IssueFails(t)
                             \/ \E x \in Actors, g \in Gateways : Api!IssueTicket(t, x, g)
  <2>1. PICK t \in Tickets : \/ Api!SaveIssuedTicket(t) \/ Api!IssueFails(t)
                            \/ \E x \in Actors, g \in Gateways : Api!IssueTicket(t, x, g)
    BY <1>3
  <2>2. ~IsIssued(t)
    BY <2>1 DEF Api!SaveIssuedTicket, Api!IssueFails, Api!IssueTicket, IsIssued
  <2>3. ask' = ask
    BY <2>1 DEF Api!SaveIssuedTicket, Api!IssueFails, Api!IssueTicket
  <2>4. \A u \in Tickets : u # t => issue'[u] = issue[u]
    BY <2>1 DEF Api!SaveIssuedTicket, Api!IssueFails, Api!IssueTicket, TicketTypes
  <2> QED BY <2>2, <2>3, <2>4
<1> QED
  BY <1>1, <1>2, <1>3 DEF Api!TicketsStep, Asks

processVars == <<socket, auth, session, sessions, told, shutdown>>

LEMMA TicketStepKeepsSessions ==
    ASSUME TicketInv, SessionParts, Api!TicketsStep, UNCHANGED processVars
    PROVE  SessionParts'
<1> USE DEF SessionParts
<1>1. SessionTypes' /\ SessionsFit' /\ ClosingFit'
  BY DEF processVars, SessionTypes, SessionsFit, ClosingFit, Present, IsClosing
<1>2. AdmissionsFit'
  <2> SUFFICES ASSUME NEW s \in Sockets
               PROVE  /\ ask'[s] # Api!NoAsk => ask'[s].gateway = Self
                      /\ session[s] # NoSession =>
                           /\ ask'[s] # Api!NoAsk /\ ask'[s].stage = "consumed"
                           /\ session[s].actor = issue'[ask'[s].ticket].actor
    BY DEF AdmissionsFit, processVars
  <2>1. /\ ask'[s] # Api!NoAsk => ask[s] # Api!NoAsk /\ ask'[s].gateway = ask[s].gateway
        /\ ask[s] # Api!NoAsk /\ ask[s].stage = "consumed" => ask'[s] = ask[s]
        /\ \A t \in Tickets : IsIssued(t) => issue'[t] = issue[t]
    BY TicketsStayDecided DEF Asks
  <2>2. ask'[s] # Api!NoAsk => ask'[s].gateway = Self
    BY <2>1 DEF AdmissionsFit
  <2>3. session[s] # NoSession => /\ ask'[s] = ask[s]
                                 /\ ask[s].ticket \in Tickets /\ IsIssued(ask[s].ticket)
    BY <2>1 DEF AdmissionsFit, TicketInv, AsksFit, Asks
  <2> QED BY <2>1, <2>2, <2>3 DEF AdmissionsFit
<1> QED
  BY <1>1, <1>2

LEMMA AskStepKeepsSessions ==
    ASSUME TicketInv, SessionParts, UNCHANGED processVars,
           NEW a \in Asks, NEW t \in Api!Presented, NEW g \in Gateways,
           Api!AskToConsume(a, t, g), a \in Sockets => g = Self
    PROVE  SessionParts'
<1> USE DEF SessionParts
<1>1. SessionTypes' /\ SessionsFit' /\ ClosingFit'
  BY DEF processVars, SessionTypes, SessionsFit, ClosingFit, Present, IsClosing
<1> DEFINE c == [stage |-> IF t = Api!Blank THEN "rejected" ELSE "hashing",
                 ticket |-> t, gateway |-> g, now |-> clock]
<1>2. ask' = [ask EXCEPT ![a] = c] /\ c.gateway = g
  BY DEF Api!AskToConsume
<1>3. ask[a] = Api!NoAsk /\ issue' = issue
  BY DEF Api!AskToConsume
<1>4. ask'[a] = c /\ \A b \in Asks : b # a => ask'[b] = ask[b]
  BY <1>2 DEF TicketInv, TicketTypes
<1> HIDE DEF c
<1>5. AdmissionsFit'
  BY <1>2, <1>3, <1>4 DEF AdmissionsFit, Asks, processVars
<1> QED
  BY <1>1, <1>5

\* A socket goes towards its close, or a connection comes or ends before its
\* upgrade.
Moves(s) ==
    \/ socket'[s] = socket[s]
    \/ Present(s) /\ socket'[s] \in {"closing", "terminated"}
    \/ socket[s] \in NotUpgraded /\ socket'[s] \in {"http", "closed"}

\* A step that moves sockets, and nothing else of theirs.
LEMMA SocketsMoveKeeps ==
    ASSUME SessionParts, UNCHANGED <<api, auth, session, sessions, told>>,
           socket' \in [Sockets -> SocketStates],
           shutdown' \in {"serving", "closing", "forced", "closed"},
           \A s \in Sockets : Moves(s),
           ClosingFit'
    PROVE  SessionParts'
<1> USE DEF SessionParts
<1>1. SessionTypes'
  BY DEF SessionTypes
<1>2. SessionsFit'
  BY DEF SessionsFit, Present, Moves, NotUpgraded
<1>3. AdmissionsFit'
  BY DEF AdmissionsFit, api
<1> QED
  BY <1>1, <1>2, <1>3

\* closeIfOpen moves sockets towards their close.
LEMMA ClosedIfOpenMoves ==
    ASSUME SessionTypes, NEW S
    PROVE  /\ ClosedIfOpen(S) \in [Sockets -> SocketStates]
           /\ \A s \in Sockets : \/ ClosedIfOpen(S)[s] = socket[s]
                                 \/ Present(s) /\ ClosedIfOpen(S)[s] = "closing"
BY DEF SessionTypes, ClosedIfOpen, SocketStates, Present

\* The steps in which one socket, several or none begin to close.
LEMMA ClosingStepsKeep ==
    ASSUME SessionParts, UNCHANGED <<api, auth, session, sessions, told, shutdown>>,
           NEW S, socket' \in {socket, ClosedIfOpen(S)}
    PROVE  SessionParts'
<1> USE DEF SessionParts
<1>1. socket' \in [Sockets -> SocketStates] /\ \A s \in Sockets : Moves(s)
  BY ClosedIfOpenMoves DEF SessionTypes, Moves
<1>2. ClosingFit'
  BY ClosedIfOpenMoves DEF ClosingFit, IsClosing, Present, SessionTypes
<1>3. UNCHANGED <<api, auth, session, sessions, told>>
      /\ shutdown' \in {"serving", "closing", "forced", "closed"}
  BY DEF SessionTypes
<1> HIDE DEF SessionParts
<1> QED
  BY <1>1, <1>2, <1>3, SocketsMoveKeeps DEF api

LEMMA UpgradeKeeps ==
    ASSUME SessionParts, NEW s \in Sockets, NEW r \in Requests, NEW h \in BOOLEAN, Upgrade(s, r, h)
    PROVE  SessionParts'
<1> USE DEF SessionParts
<1>1. auth[s] = "none" /\ session[s] = NoSession /\ s \notin sessions /\ socket[s] = "http"
  BY DEF Upgrade, SessionsFit, Present, NotUpgraded
<1>2. UNCHANGED <<api, session, sessions, told, shutdown>>
  BY DEF Upgrade, KeepSessions
<1>3. PICK x \in {"refused", "open", "closing"}, y \in {"none", "consuming"} :
        /\ socket' = [socket EXCEPT ![s] = x]
        /\ auth' = [auth EXCEPT ![s] = y]
        /\ x = "refused" => y = "none"
        /\ x # "refused" => ~IsClosing
  <2>1. CASE UpgradeStatus(r) # 101
    <3>1. socket' = [socket EXCEPT ![s] = "refused"] /\ auth' = auth
      BY <2>1 DEF Upgrade
    <3>2. auth' = [auth EXCEPT ![s] = "none"]
      BY <1>1, <3>1 DEF SessionTypes
    <3> QED BY <3>1, <3>2
  <2>2. CASE UpgradeStatus(r) = 101
    <3>1. ~IsClosing
      BY <2>2 DEF UpgradeStatus, Requests
    <3>2. /\ socket' = [socket EXCEPT ![s] = IF h THEN "open" ELSE "closing"]
          /\ auth' = [auth EXCEPT ![s] = IF h THEN "consuming" ELSE "none"]
      BY <2>2 DEF Upgrade
    <3>3. CASE h
      BY <3>1, <3>2, <3>3
    <3>4. CASE ~h
      BY <3>1, <3>2, <3>4
    <3> QED BY <3>3, <3>4
  <2> QED BY <2>1, <2>2
<1>4. SessionTypes'
  BY <1>2, <1>3 DEF SessionTypes, SocketStates, AuthStates
<1>5. socket'[s] = x /\ auth'[s] = y
      /\ \A u \in Sockets : u # s => socket'[u] = socket[u] /\ auth'[u] = auth[u]
  BY <1>3 DEF SessionTypes
<1>6. SessionsFit'
  BY <1>1, <1>2, <1>3, <1>5 DEF SessionsFit, Present, NotUpgraded
<1>7. AdmissionsFit'
  BY <1>2 DEF AdmissionsFit, api
<1>8. ClosingFit'
  <2>1. IsClosing => x = "refused"
    BY <1>3
  <2> QED BY <1>2, <1>5, <2>1 DEF ClosingFit, IsClosing, Present
<1> QED
  BY <1>4, <1>6, <1>7, <1>8

LEMMA AuthenticatedKeeps ==
    ASSUME TicketInv, SessionParts, NEW s \in Sockets, Authenticated(s)
    PROVE  SessionParts'
<1> USE DEF SessionParts
<1>1. auth[s] = "consuming" /\ session[s] = NoSession /\ s \notin sessions /\ told[s] = 0
      /\ socket[s] \notin NotUpgraded
  BY DEF Authenticated, SessionsFit
<1>2. UNCHANGED <<api, told, shutdown>>
  BY DEF Authenticated, KeepSessions
<1>3. CASE ask[s].stage = "rejected" \/ socket[s] # "open"
  <2>1. auth' = [auth EXCEPT ![s] = "over"] /\ UNCHANGED <<session, sessions>>
        /\ socket' \in {socket, ClosedIfOpen({s})}
    BY <1>3 DEF Authenticated, KeepSessions
  <2>2. /\ socket' \in [Sockets -> SocketStates]
        /\ \A u \in Sockets : \/ socket'[u] = socket[u]
                              \/ Present(u) /\ socket'[u] = "closing"
    BY <2>1, ClosedIfOpenMoves DEF SessionTypes
  <2>3. SessionTypes'
    BY <1>2, <2>1, <2>2 DEF SessionTypes, AuthStates
  <2>4. auth'[s] = "over" /\ \A u \in Sockets : u # s => auth'[u] = auth[u]
    BY <2>1 DEF SessionTypes
  <2>5. SessionsFit'
    BY <1>1, <1>2, <2>1, <2>2, <2>4 DEF SessionsFit, Present, NotUpgraded
  <2>6. AdmissionsFit'
    BY <1>2, <2>1 DEF AdmissionsFit, api
  <2>7. ClosingFit'
    BY <1>2, <2>2 DEF ClosingFit, IsClosing, Present
  <2> QED BY <2>3, <2>5, <2>6, <2>7
<1>4. CASE ask[s].stage # "rejected" /\ socket[s] = "open"
  <2> DEFINE new == [state |-> "authenticating", connectedEventSent |-> FALSE,
                     actor |-> row[ask[s].ticket].actor, channels |-> {}]
  <2>1. /\ auth' = [auth EXCEPT ![s] = "greeting"]
        /\ session' = [session EXCEPT ![s] = new]
        /\ sessions' = sessions \cup {s}
        /\ socket' = socket
        /\ ask[s].stage = "consumed"
    BY <1>4 DEF Authenticated
  <2>2. ask[s] # Api!NoAsk /\ s \in Asks
    BY <2>1 DEF Api!NoAsk, Asks
  <2>3. ask[s].ticket \in Tickets /\ IsIssued(ask[s].ticket)
    BY <2>1, <2>2 DEF TicketInv, AsksFit
  <2>4. row[ask[s].ticket] \in Rows /\ row[ask[s].ticket].actor = issue[ask[s].ticket].actor
    BY <2>3 DEF TicketInv, TicketTypes, RowsFit, IsIssued
  <2>5. new \in LocalSessions /\ new.actor = issue[ask[s].ticket].actor
    BY <2>4 DEF LocalSessions, Rows
  <2>6. new # NoSession
    BY <2>5, NoSessionIsNone
  <2> HIDE DEF new
  <2>7. SessionTypes'
    BY <1>2, <2>1, <2>5 DEF SessionTypes, AuthStates
  <2>8. /\ session'[s] = new /\ auth'[s] = "greeting"
        /\ \A u \in Sockets : u # s => session'[u] = session[u] /\ auth'[u] = auth[u]
    BY <2>1 DEF SessionTypes
  <2>9. SessionsFit'
    BY <1>1, <1>2, <1>4, <2>1, <2>6, <2>8 DEF SessionsFit, Present
  <2>10. AdmissionsFit'
    BY <1>2, <2>1, <2>2, <2>5, <2>8 DEF AdmissionsFit, api
  <2>11. ClosingFit'
    BY <1>2, <2>1 DEF ClosingFit, IsClosing, Present
  <2> QED BY <2>7, <2>9, <2>10, <2>11
<1> QED
  BY <1>3, <1>4

LEMMA AuthenticationFailsKeeps ==
    ASSUME SessionParts, NEW s \in Sockets, AuthenticationFails(s)
    PROVE  SessionParts'
<1> USE DEF SessionParts
<1>1. auth[s] = "consuming" /\ session[s] = NoSession
      /\ socket[s] \notin NotUpgraded
  BY DEF AuthenticationFails, SessionsFit
<1>2. UNCHANGED <<api, session, sessions, told, shutdown>> /\ auth' = [auth EXCEPT ![s] = "over"]
  BY DEF AuthenticationFails, KeepSessions
<1>3. /\ socket' \in [Sockets -> SocketStates]
      /\ \A u \in Sockets : \/ socket'[u] = socket[u]
                            \/ Present(u) /\ socket'[u] = "closing"
  BY ClosedIfOpenMoves DEF AuthenticationFails
<1>4. SessionTypes'
  BY <1>2, <1>3 DEF SessionTypes, AuthStates
<1>5. auth'[s] = "over" /\ \A u \in Sockets : u # s => auth'[u] = auth[u]
  BY <1>2 DEF SessionTypes
<1>6. SessionsFit'
  BY <1>1, <1>2, <1>3, <1>5 DEF SessionsFit, Present, NotUpgraded
<1>7. AdmissionsFit'
  BY <1>2 DEF AdmissionsFit, api
<1>8. ClosingFit'
  BY <1>2, <1>3 DEF ClosingFit, IsClosing, Present
<1> QED
  BY <1>4, <1>6, <1>7, <1>8

\* A session whose flags or channels change stays the same actor's.
LEMMA SessionChangesKeep ==
    ASSUME SessionParts, NEW s \in Sockets, session[s] # NoSession,
           NEW new \in LocalSessions, new.actor = session[s].actor,
           session' = [session EXCEPT ![s] = new],
           \/ auth' = auth
           \/ auth' = [auth EXCEPT ![s] = "over"],
           UNCHANGED <<api, socket, sessions, told, shutdown>>
    PROVE  SessionParts'
<1> USE DEF SessionParts
<1>1. session'[s] = new /\ new # NoSession /\ \A u \in Sockets : u # s => session'[u] = session[u]
  BY NoSessionIsNone DEF SessionTypes
<1>2. SessionTypes'
  BY DEF SessionTypes, AuthStates
<1>3. auth'[s] \in {auth[s], "over"} /\ \A u \in Sockets : u # s => auth'[u] = auth[u]
  BY DEF SessionTypes
<1>4. socket[s] \notin NotUpgraded /\ auth[s] \notin {"none", "consuming"}
  BY DEF SessionsFit
<1>5. SessionsFit'
  BY <1>1, <1>3, <1>4 DEF SessionsFit, Present
<1>6. AdmissionsFit'
  BY <1>1 DEF AdmissionsFit, api
<1>7. ClosingFit'
  BY DEF ClosingFit, IsClosing, Present
<1> QED
  BY <1>2, <1>5, <1>6, <1>7

LEMMA GreetedKeeps ==
    ASSUME SessionParts, NEW s \in Sockets, Greeted(s)
    PROVE  SessionParts'
<1>1. session[s] # NoSession /\ session[s] \in LocalSessions
  BY DEF Greeted, SessionParts, SessionsFit, SessionTypes
<1> DEFINE new == [session[s] EXCEPT !.state = "ready", !.connectedEventSent = TRUE]
<1>2. new \in LocalSessions /\ new.actor = session[s].actor
  BY <1>1 DEF LocalSessions
<1>3. session' = [session EXCEPT ![s] = new]
  BY DEF Greeted
<1> HIDE DEF new
<1> QED
  BY <1>1, <1>2, <1>3, SessionChangesKeep DEF Greeted

LEMMA JoinKeeps ==
    ASSUME SessionParts, NEW s \in Sockets, NEW channel \in Channels, Join(s, channel)
    PROVE  SessionParts'
<1>1. session[s] # NoSession /\ session[s] \in LocalSessions
  BY DEF Join, Ready, SessionParts, SessionsFit, SessionTypes
<1> DEFINE new == [session[s] EXCEPT !.channels = @ \cup {channel}]
<1>2. new \in LocalSessions /\ new.actor = session[s].actor
  BY <1>1 DEF LocalSessions
<1>3. session' = [session EXCEPT ![s] = new]
  BY DEF Join
<1> HIDE DEF new
<1> QED
  BY <1>1, <1>2, <1>3, SessionChangesKeep DEF Join

\* The end of a session, if the socket has one that has not ended.
LEMMA RemovalKeeps ==
    ASSUME SessionParts, NEW s \in Sockets, RemoveSessions({s}),
           socket' \in [Sockets -> SocketStates],
           \A u \in Sockets : u # s => socket'[u] = socket[u],
           socket[s] \in NotUpgraded <=> socket'[s] \in NotUpgraded,
           \/ auth' = auth
           \/ auth' = [auth EXCEPT ![s] = "over"] /\ auth[s] = "greeting",
           UNCHANGED <<api, shutdown>>,
           ClosingFit'
    PROVE  SessionParts'
<1> USE DEF SessionParts
<1>1. sessions' = sessions \ {s}
  BY DEF RemoveSessions
<1>2. auth' \in [Sockets -> AuthStates] /\ auth'[s] \in {auth[s], "over"}
      /\ (auth'[s] # auth[s] => auth[s] = "greeting")
      /\ \A u \in Sockets : u # s => auth'[u] = auth[u]
  BY DEF SessionTypes, AuthStates
<1>3. CASE s \in sessions
  <2>1. session[s] # NoSession /\ session[s] \in LocalSessions /\ told[s] = 0
    BY <1>3 DEF SessionTypes, SessionsFit
  <2> DEFINE new == [session[s] EXCEPT !.state = "closed"]
  <2>2. new \in LocalSessions /\ new.actor = session[s].actor
    BY <2>1 DEF LocalSessions
  <2>3. new # NoSession
    BY <2>2, NoSessionIsNone
  <2>4. session' = [u \in Sockets |-> IF u = s THEN new ELSE session[u]]
    BY <1>3 DEF RemoveSessions
  <2>5. told' = [u \in Sockets |-> IF u = s THEN told[u] + 1 ELSE told[u]]
    BY <1>3 DEF RemoveSessions
  <2> HIDE DEF new
  <2>6. SessionTypes'
    BY <1>1, <1>2, <2>2, <2>4, <2>5 DEF SessionTypes
  <2>7. SessionsFit'
    BY <1>1, <1>2, <2>1, <2>3, <2>4, <2>5 DEF SessionsFit, Present, SessionTypes
  <2>8. AdmissionsFit'
    BY <2>1, <2>2, <2>4 DEF AdmissionsFit, api
  <2> QED BY <2>6, <2>7, <2>8
<1>4. CASE s \notin sessions
  <2>1. sessions' = sessions
    BY <1>1, <1>4
  <2>2. session' = session
    BY <1>4 DEF RemoveSessions, SessionTypes
  <2>3. told' = told
    BY <1>4 DEF RemoveSessions, SessionTypes
  <2>4. SessionTypes'
    BY <1>2, <2>1, <2>2, <2>3 DEF SessionTypes
  <2>5. SessionsFit'
    BY <1>2, <1>4, <2>1, <2>2, <2>3 DEF SessionsFit, Present
  <2>6. AdmissionsFit'
    BY <2>2 DEF AdmissionsFit, api
  <2> QED BY <2>4, <2>5, <2>6
<1> QED
  BY <1>3, <1>4

LEMMA GreetingFailsKeeps ==
    ASSUME SessionParts, NEW s \in Sockets, GreetingFails(s)
    PROVE  SessionParts'
<1>1. ClosingFit'
  BY DEF GreetingFails, SessionParts, ClosingFit, IsClosing, Present
<1>2. socket' = socket /\ socket \in [Sockets -> SocketStates]
  BY DEF GreetingFails, SessionParts, SessionTypes
<1>3. RemoveSessions({s}) /\ UNCHANGED <<api, shutdown>> /\ auth[s] = "greeting"
      /\ auth' = [auth EXCEPT ![s] = "over"]
  BY DEF GreetingFails
<1> QED
  BY <1>1, <1>2, <1>3, RemovalKeeps

LEMMA ClosedKeeps ==
    ASSUME SessionParts, NEW s \in Sockets, Closed(s)
    PROVE  SessionParts'
<1>1. socket' = [socket EXCEPT ![s] = "closed"] /\ socket \in [Sockets -> SocketStates]
  BY DEF Closed, SessionParts, SessionTypes
<1>2. socket' \in [Sockets -> SocketStates] /\ socket'[s] = "closed"
      /\ "closed" \notin NotUpgraded
      /\ \A u \in Sockets : u # s => socket'[u] = socket[u]
  BY <1>1 DEF SocketStates, NotUpgraded
<1>3. RemoveSessions({s}) /\ UNCHANGED <<api, auth, shutdown>>
      /\ socket[s] \notin NotUpgraded
  BY DEF Closed, Present, NotUpgraded
<1>4. ClosingFit'
  BY <1>2, <1>3 DEF SessionParts, ClosingFit, IsClosing, Present
<1> QED
  BY <1>2, <1>3, <1>4, RemovalKeeps

\* The steps of the shutdown.
LEMMA ShutdownKeeps ==
    ASSUME SessionParts, Close \/ ForceClose \/ ServersClosed
    PROVE  SessionParts'
<1>1. UNCHANGED <<api, auth, session, sessions, told>>
  BY DEF Close, ForceClose, ServersClosed, KeepSessions
<1>2. shutdown' \in {"serving", "closing", "forced", "closed"}
  BY DEF Close, ForceClose, ServersClosed
<1>3. CASE Close
  <2>0. PICK idle \in SUBSET {s \in Sockets : socket[s] = "http"} :
          socket' = [s \in Sockets |->
              IF s \in idle THEN "closed" ELSE ClosedIfOpen(Sockets)[s]]
    BY <1>3 DEF Close
  <2>1. socket' \in [Sockets -> SocketStates]
    BY <2>0, ClosedIfOpenMoves DEF SessionParts, SocketStates
  <2>2. \A s \in Sockets : Moves(s)
    BY <2>0, ClosedIfOpenMoves DEF SessionParts, Moves, NotUpgraded
  <2>3. shutdown' = "closing" /\ \A s \in Sockets : socket'[s] # "open"
    BY <1>3, <2>0 DEF Close, ClosedIfOpen
  <2>4. ClosingFit'
    BY <2>3 DEF ClosingFit
  <2> QED BY <1>1, <1>2, <2>1, <2>2, <2>4, SocketsMoveKeeps
<1>4. CASE ForceClose
  <2>0. \A s \in Sockets :
          socket'[s] = IF Present(s) THEN "terminated"
                       ELSE IF socket[s] = "http" THEN "closed" ELSE socket[s]
    BY <1>4 DEF ForceClose, Present
  <2>1. socket' \in [Sockets -> SocketStates]
    <3>1. DOMAIN socket' = Sockets /\ socket' = [s \in Sockets |-> socket'[s]]
      BY <1>4 DEF ForceClose
    <3>2. \A s \in Sockets : socket'[s] \in SocketStates
      BY <2>0 DEF SessionParts, SessionTypes, SocketStates
    <3> QED BY <3>1, <3>2
  <2>2. \A s \in Sockets : Moves(s)
    BY <2>0 DEF Moves, Present, NotUpgraded
  <2>3. shutdown' = "forced" /\ \A s \in Sockets : socket'[s] # "open"
    BY <1>4, <2>0 DEF ForceClose, Present
  <2>4. ClosingFit'
    BY <2>3 DEF ClosingFit
  <2> QED BY <1>1, <1>2, <2>1, <2>2, <2>4, SocketsMoveKeeps
<1>5. CASE ServersClosed
  <2>1. socket' \in [Sockets -> SocketStates] /\ socket' = socket
    BY <1>5 DEF ServersClosed, SessionParts, SessionTypes
  <2>2. ClosingFit'
    BY <1>5 DEF ServersClosed, ClosingFit, Present
  <2>3. \A s \in Sockets : Moves(s)
    BY <2>1 DEF Moves
  <2> QED BY <1>1, <1>2, <2>1, <2>2, <2>3, SocketsMoveKeeps
<1> QED
  BY <1>3, <1>4, <1>5

\* Connections that come or end without an upgrade.
LEMMA ConnectionKeeps ==
    ASSUME SessionParts, NEW s \in Sockets, Connect(s) \/ ConnectionEnds(s)
    PROVE  SessionParts'
<1>1. UNCHANGED <<api, auth, session, sessions, told, shutdown>>
  BY DEF Connect, ConnectionEnds, KeepSessions
<1>2. PICK x \in {"http", "closed"} : socket' = [socket EXCEPT ![s] = x]
  BY DEF Connect, ConnectionEnds
<1>3. socket' \in [Sockets -> SocketStates] /\ shutdown' \in {"serving", "closing", "forced", "closed"}
  BY <1>1, <1>2 DEF SessionParts, SessionTypes, SocketStates
<1>4. socket[s] \in NotUpgraded
  BY DEF Connect, ConnectionEnds, NotUpgraded
<1>5. \A u \in Sockets : Moves(u)
  BY <1>2, <1>4 DEF Moves, SessionParts, SessionTypes
<1>6. ClosingFit'
  BY <1>1, <1>2 DEF SessionParts, SessionTypes, ClosingFit, IsClosing, Present
<1> QED
  BY <1>1, <1>3, <1>5, <1>6, SocketsMoveKeeps

LEMMA SocketStepKeepsSessions ==
    ASSUME TicketInv, SessionParts, NEW s \in Sockets, SocketStep(s)
    PROVE  SessionParts'
<1>1. CASE \E r \in Requests, h \in BOOLEAN : Upgrade(s, r, h)
  BY <1>1, UpgradeKeeps
<1>2. CASE \E t \in Api!Presented : ApiIsAsked(s, t)
  <2>1. PICK t \in Api!Presented : ApiIsAsked(s, t)
    BY <1>2
  <2>2. Api!AskToConsume(s, t, Self) /\ UNCHANGED processVars /\ s \in Asks
    BY <2>1 DEF ApiIsAsked, processVars, Asks
  <2> QED BY <2>2, SelfAssumption, AskStepKeepsSessions
<1>3. CASE Authenticated(s)
  BY <1>3, AuthenticatedKeeps
<1>4. CASE AuthenticationFails(s)
  BY <1>4, AuthenticationFailsKeeps
<1>5. CASE Greeted(s) \/ GreetingFails(s)
  BY <1>5, GreetedKeeps, GreetingFailsKeeps
<1>6. CASE PeerCloses(s)
  <2>1. /\ socket' = [socket EXCEPT ![s] = "closing"] /\ socket[s] = "open"
        /\ UNCHANGED <<api, auth, session, sessions, told, shutdown>>
    BY <1>6 DEF PeerCloses, KeepSessions
  <2>2. socket' = ClosedIfOpen({s})
    BY <2>1 DEF ClosedIfOpen, SessionParts, SessionTypes
  <2> QED BY <2>1, <2>2, ClosingStepsKeep
<1>7. CASE \E fault \in FrameFaults : BadFrame(s, fault)
  BY <1>7, ClosingStepsKeep DEF BadFrame, KeepSessions
<1>8. CASE \E channel \in Channels : Join(s, channel)
  BY <1>8, JoinKeeps
<1>9. CASE \/ \E c \in Calls, k \in Keys : Mutate(s, c, k)
           \/ \E c \in Calls, k \in Keys, t \in Targets : SendMessage(s, c, k, t)
           \/ TooEarly(s)
  <2>1. UNCHANGED <<api, socket, auth, session, sessions, told, shutdown>>
    BY <1>9 DEF Mutate, SendMessage, TooEarly, KeepSessions
  <2> QED BY <2>1, ClosingStepsKeep
<1>10. CASE Closed(s)
  BY <1>10, ClosedKeeps
<1>11. CASE Connect(s) \/ ConnectionEnds(s)
  BY <1>11, ConnectionKeeps
<1> QED
  BY <1>1, <1>2, <1>3, <1>4, <1>5, <1>6, <1>7, <1>8, <1>9, <1>10, <1>11 DEF SocketStep

LEMMA CallStepKeepsSessions ==
    ASSUME SessionParts, NEW c \in Calls, CallStep(c)
    PROVE  SessionParts'
<1>1. UNCHANGED <<api, auth, session, sessions, told, shutdown>>
  BY DEF CallStep, ApiAnswers, Relayed, RelayFails, KeepSessions
<1>2. socket' \in {socket, ClosedIfOpen({call[c].from})}
  BY DEF CallStep, ApiAnswers, Relayed, RelayFails
<1> QED
  BY <1>1, <1>2, ClosingStepsKeep

LEMMA SessionsKeep == TicketInv /\ SessionParts /\ [Next]_vars => SessionParts'
<1> SUFFICES ASSUME TicketInv, SessionParts, [Next]_vars PROVE SessionParts'
  OBVIOUS
<1>1. CASE \E s \in Sockets : SocketStep(s)
  BY <1>1, SocketStepKeepsSessions
<1>2. CASE \E c \in Calls : CallStep(c)
  BY <1>2, CallStepKeepsSessions
<1>3. CASE Close \/ ForceClose \/ ServersClosed
  BY <1>3, ShutdownKeeps
<1>4. CASE OtherSteps
  <2>1. UNCHANGED processVars
    BY <1>4 DEF OtherSteps, processVars
  <2>2. CASE Api!TicketsStep
    BY <2>1, <2>2, TicketStepKeepsSessions
  <2>3. CASE \E a \in Elsewhere, t \in Tickets, g \in Gateways \ {Self} : Api!AskToConsume(a, t, g)
    <3>1. PICK a \in Elsewhere, t \in Tickets, g \in Gateways : Api!AskToConsume(a, t, g)
      BY <2>3
    <3>2. a \in Asks /\ a \notin Sockets /\ t \in Api!Presented
      BY ElsewhereAssumption DEF Asks, Api!Presented
    <3> QED BY <2>1, <3>1, <3>2, AskStepKeepsSessions
  <2> QED BY <1>4, <2>2, <2>3 DEF OtherSteps
<1>5. CASE UNCHANGED vars
  <2>1. UNCHANGED <<api, socket, auth, session, sessions, told, shutdown>>
    BY <1>5 DEF vars
  <2> QED BY <2>1, ClosingStepsKeep
<1> QED
  BY <1>1, <1>2, <1>3, <1>4, <1>5 DEF Next

\* A command keeps its key, and the API stores under keys that commands carry.
LEMMA StoreKeeps == StoreFits /\ [Next]_vars => StoreFits'
<1> SUFFICES ASSUME StoreFits, [Next]_vars PROVE StoreFits'
  OBVIOUS
<1>1. CASE \E s \in Sockets, c \in Calls, k \in Keys :
             Mutate(s, c, k) \/ \E t \in Targets : SendMessage(s, c, k, t)
  <2>1. PICK s \in Sockets, c \in Calls, k \in Keys, t \in Targets \cup {Mutation},
             x \in {"api", "over"} :
             call' = [call EXCEPT ![c] = [from |-> s, key |-> k, target |-> t, stage |-> x]]
    BY <1>1 DEF Mutate, SendMessage
  <2>2. [from |-> s, key |-> k, target |-> t, stage |-> x] \in Commands
    BY DEF Commands
  <2>3. stored' = stored
    BY <1>1 DEF Mutate, SendMessage
  <2> QED BY <2>1, <2>2, <2>3 DEF StoreFits
<1>2. CASE \E c \in Calls : CallStep(c)
  <2>1. PICK c \in Calls : CallStep(c)
    BY <1>2
  <2>2. PICK x \in {"rejected", "existing", "created", "over"} : call' = [call EXCEPT ![c].stage = x]
    BY <2>1 DEF CallStep, ApiAnswers, Relayed, RelayFails
  <2>3. call[c] \in Commands
    BY <2>1 DEF CallStep, ApiAnswers, Relayed, RelayFails, Answered, StoreFits, NoCall
  <2>4. [call[c] EXCEPT !.stage = x] \in Commands
    BY <2>3 DEF Commands
  <2>5. call' \in [Calls -> {NoCall} \cup Commands]
    BY <2>2, <2>4 DEF StoreFits
  <2>6. DOMAIN stored' \subseteq DOMAIN stored \cup {call[c].key}
    BY <2>1 DEF CallStep, ApiAnswers, Relayed, RelayFails
  <2>7. call[c].key \in Keys
    BY <2>3 DEF Commands
  <2> QED BY <2>5, <2>6, <2>7 DEF StoreFits
<1>3. CASE UNCHANGED <<call, stored>>
  BY <1>3 DEF StoreFits
<1>4. CASE \E s \in Sockets :
             /\ SocketStep(s)
             /\ ~\E c \in Calls, k \in Keys :
                   Mutate(s, c, k) \/ \E t \in Targets : SendMessage(s, c, k, t)
  <2>1. UNCHANGED <<call, stored>>
    BY <1>4 DEF SocketStep, Connect, ConnectionEnds, TooEarly, Upgrade, ApiIsAsked, Authenticated,
       AuthenticationFails, Greeted,
       GreetingFails, BadFrame, Join, PeerCloses, Closed
  <2> QED BY <2>1, <1>3
<1>5. CASE Close \/ ForceClose \/ ServersClosed \/ OtherSteps
  BY <1>3, <1>5 DEF Close, ForceClose, ServersClosed, OtherSteps
<1> QED
  BY <1>1, <1>2, <1>3, <1>4, <1>5 DEF Next, vars

\* The invariant of the process and its tickets.
SessionInv == TicketInv /\ SessionParts /\ StoreFits

\* Sockets, sessions, calls and tickets fit together in every reachable state.
THEOREM SessionInvariantHolds == Spec => []SessionInv
<1>1. Init => SessionInv
  BY TicketsInitially, SessionsInitially DEF Init, SessionInv
<1>2. SessionInv /\ [Next]_vars => SessionInv'
  BY TicketsKeep, SessionsKeep, StoreKeeps DEF SessionInv
<1> QED
  BY <1>1, <1>2, PTL DEF Spec

LEMMA SessionInvImpliesSound == SessionInv => SessionsAreSound
<1> SUFFICES ASSUME SessionInv PROVE SessionsAreSound
  OBVIOUS
<1> USE DEF SessionInv, SessionParts
<1>1. TypeOK
  <2>1. \A s \in Sockets : session[s] # NoSession =>
             /\ session[s].state \in {"authenticating", "ready", "closed"}
             /\ session[s].actor \in Actors
             /\ session[s].channels \subseteq Channels
    BY DEF SessionTypes, LocalSessions
  <2>2. sessions \subseteq {s \in Sockets : session[s] # NoSession}
    BY DEF SessionTypes, SessionsFit
  <2>3. \A s \in Sockets : socket[s] \in SocketStates /\ auth[s] \in AuthStates
    BY DEF SessionTypes
  <2> QED BY <2>1, <2>2, <2>3 DEF TypeOK, SocketStates, AuthStates, SessionTypes, StoreFits
<1>2. SessionEndsOnce
  BY DEF SessionEndsOnce, SessionsFit
<1>3. SessionFromOwnTicket
  <2> SUFFICES ASSUME NEW s \in Sockets, session[s] # NoSession
               PROVE  LET t == ask[s].ticket IN
                      /\ issue[t].stage = "issued"
                      /\ issue[t].gateway = Self
                      /\ issue[t].actor = session[s].actor
                      /\ row[t].consumedBy = {s}
    BY DEF SessionFromOwnTicket
  <2> DEFINE t == ask[s].ticket
  <2>1. s \in Asks /\ ask[s] # Api!NoAsk /\ ask[s].stage = "consumed" /\ ask[s].gateway = Self
    BY DEF Asks, AdmissionsFit
  <2>2. IsIssued(t) /\ issue[t].gateway = Self
    BY <2>1 DEF TicketInv, AsksFit
  <2>3. t \in Tickets /\ row[t] \in Rows /\ row[t] # Api!NoRow
    BY <2>2 DEF IsIssued, TicketInv, RowsFit, TicketTypes
  <2>4. \A a \in Asks : a \in row[t].consumedBy <=> a = s
    <3>1. Won(s, t)
      BY <2>1 DEF Won
    <3> QED BY <2>1, <2>3, <3>1 DEF TicketInv, WinnersFit
  <2>5. row[t].consumedBy \subseteq Asks
    BY <2>3 DEF Rows
  <2>6. row[t].consumedBy = {s}
    BY <2>1, <2>4, <2>5
  <2> QED BY <2>2, <2>6 DEF IsIssued, AdmissionsFit
<1> QED
  BY <1>1, <1>2, <1>3 DEF SessionsAreSound

\* For any number of sockets, tickets and gateways: a session belongs to the
\* actor whom the API issued its ticket for, on this gateway, no other socket
\* was admitted with that ticket, and the session ends once, with its socket.
THEOREM SessionsStaySound == Spec => []SessionsAreSound
BY SessionInvariantHolds, SessionInvImpliesSound, PTL

LEMMA ClosingTakesNoSession ==
    ASSUME SessionInv, SessionInv', [Next]_vars
    PROVE  /\ IsClosing => sessions' \subseteq sessions
           /\ shutdown' = "closed" => sessions' = {}
<1> USE DEF SessionInv, SessionParts
<1>1. shutdown' = "closed" => sessions' = {}
  BY DEF ClosingFit, SessionsFit, SessionTypes
<1>2. ASSUME IsClosing PROVE sessions' \subseteq sessions
  <2>1. \A s \in Sockets : socket[s] # "open"
    BY <1>2 DEF ClosingFit
  <2>2. CASE \E s \in Sockets : SocketStep(s)
    <3>1. PICK s \in Sockets : SocketStep(s)
      BY <2>2
    <3>2. \/ sessions' = sessions
          \/ sessions' = sessions \ {s}
          \/ Authenticated(s)
      BY <3>1 DEF SocketStep, Connect, ConnectionEnds, TooEarly, Upgrade, ApiIsAsked,
         AuthenticationFails, Greeted, GreetingFails,
         BadFrame, Join, Mutate, SendMessage, PeerCloses, Closed, KeepSessions, RemoveSessions
    <3>3. Authenticated(s) => sessions' = sessions
      BY <2>1 DEF Authenticated, KeepSessions
    <3> QED BY <3>2, <3>3
  <2>3. CASE ~\E s \in Sockets : SocketStep(s)
    <3>1. sessions' = sessions
      BY <2>3 DEF Next, vars, CallStep, ApiAnswers, Relayed, RelayFails, Close, ForceClose,
         ServersClosed, OtherSteps, KeepSessions
    <3> QED BY <3>1
  <2> QED BY <2>2, <2>3
<1> QED
  BY <1>1, <1>2

\* A closing process takes no new session, and none is left when it has closed,
\* whatever authentications the shutdown overtook.
THEOREM ClosingStaysClosed == Spec => NoSessionOnceClosing
<1>1. SessionInv /\ SessionInv' /\ [Next]_vars =>
        [/\ IsClosing => sessions' \subseteq sessions
         /\ shutdown' = "closed" => sessions' = {}]_vars
  BY ClosingTakesNoSession
<1> QED
  BY <1>1, SessionInvariantHolds, PTL DEF Spec, NoSessionOnceClosing

-----------------------------------------------------------------------------
(***************************************************************************)
(* Proofs about what a gateway process sends: the greeting comes once on a *)
(* socket, before everything but the answers not_ready, and a new message  *)
(* is announced at most once on each, to those who joined its channel.  A  *)
(* session is made with its greeting, and only sockets with a session hear *)
(* an answer or an announcement.  A key is new to the API once, so one     *)
(* command at most carries the answer "created" for it, and that command   *)
(* is over when the announcement has been sent.                            *)
(***************************************************************************)

Events == {Connected, NotReady} \cup {Accepted(c) : c \in Calls} \cup {Rejected(c) : c \in Calls}
            \cup {Created(k) : k \in Keys}

Heard(w, k) == \E i \in 1..Len(w) : w[i] = Created(k)

Welcomed(w) == \E i \in 1..Len(w) : w[i] = Connected

\* The greeting comes once, and before every event but not_ready.
InOrder(w) ==
    \A i \in 1..Len(w) : w[i] # NotReady =>
        ((\E j \in 1..(i - 1) : w[j] = Connected) <=> w[i] # Connected)

OnceEach(w) ==
    \A k \in Keys, i, j \in 1..Len(w) : w[i] = Created(k) /\ w[j] = Created(k) => i = j

\* A command the API answered "created" for key k, and that was not relayed yet.
Pending(c, k) == call[c] # NoCall /\ call[c].stage = "created" /\ call[c].key = k

\* What is announced on a socket is stored in a channel its session joined, and
\* no command is left to announce it again.
AnnouncedFits(s, k) ==
    /\ k \in DOMAIN stored
    /\ stored[k] \in session[s].channels
    /\ \A c \in Calls : ~Pending(c, k)

SocketFits(s) ==
    /\ wire[s] \in Seq(Events)
    /\ InOrder(wire[s])
    /\ session[s] = NoSession => \A i \in 1..Len(wire[s]) : wire[s][i] = NotReady
    /\ session[s] # NoSession => Welcomed(wire[s])
    /\ OnceEach(wire[s])
    /\ \A k \in Keys : Heard(wire[s], k) => AnnouncedFits(s, k)

\* A command comes from a session that may write its target, and the answer
\* "created" goes to one command for each key.
CallFits(c) ==
    call[c] # NoCall =>
      /\ session[call[c].from] # NoSession
      /\ call[c].stage # "over" /\ call[c].target \in Channels /\ call[c].target # Mutation =>
           call[c].target \in session[call[c].from].channels
      /\ \A k \in Keys : Pending(c, k) =>
           /\ k \in DOMAIN stored /\ stored[k] = call[c].target
           /\ \A d \in Calls : Pending(d, k) => d = c

StoredFits(k) ==
    stored[k] \in Channels =>
      \E s \in Sockets : session[s] # NoSession /\ stored[k] \in session[s].channels

WireFits ==
    /\ wire \in [Sockets -> Seq(Events)]
    /\ \A s \in Sockets : SocketFits(s)
    /\ \A c \in Calls : CallFits(c)
    /\ \A k \in DOMAIN stored : StoredFits(k)

FanoutInv == SessionInv /\ WireFits

-----------------------------------------------------------------------------
(* Sequences of events.                                                    *)

LEMMA EventsDiffer ==
    /\ \A k : Created(k) # Connected /\ Created(k) # NotReady
    /\ \A c : Accepted(c) # Connected /\ Rejected(c) # Connected
    /\ Connected # NotReady
    /\ \A k, c : Created(k) # Accepted(c) /\ Created(k) # Rejected(c)
    /\ \A k, j : Created(k) = Created(j) => k = j
BY DEF Created, Connected, Accepted, Rejected, NotReady

\* Appending events that announce other messages keeps the order and the
\* announcements apart.
LEMMA ConcatFits ==
    ASSUME NEW w \in Seq(Events), NEW x \in Seq(Events), OnceEach(w), OnceEach(x),
           \A k \in Keys : Heard(x, k) => ~Heard(w, k)
    PROVE  /\ w \o x \in Seq(Events)
           /\ OnceEach(w \o x)
           /\ \A k \in Keys : Heard(w \o x, k) => Heard(w, k) \/ Heard(x, k)
           /\ InOrder(w) /\ (\A i \in 1..Len(x) : x[i] # Connected)
                /\ (Welcomed(w) \/ \A i \in 1..Len(x) : x[i] = NotReady) => InOrder(w \o x)
           /\ Welcomed(w \o x) <=> Welcomed(w) \/ Welcomed(x)
<1> DEFINE v == w \o x
<1>1. /\ v \in Seq(Events)
      /\ Len(v) = Len(w) + Len(x)
      /\ Len(w) \in Nat /\ Len(x) \in Nat
      /\ \A i \in 1..Len(v) : v[i] = IF i <= Len(w) THEN w[i] ELSE x[i - Len(w)]
  BY ConcatProperties
<1> HIDE DEF v
<1>2. \A i \in 1..Len(v) : \/ i \in 1..Len(w) /\ v[i] = w[i]
                           \/ i - Len(w) \in 1..Len(x) /\ v[i] = x[i - Len(w)]
  BY <1>1
<1>3. OnceEach(v)
  <2> SUFFICES ASSUME NEW k \in Keys, NEW i \in 1..Len(v), NEW j \in 1..Len(v),
                      v[i] = Created(k), v[j] = Created(k)
               PROVE  i = j
    BY DEF OnceEach
  <2>1. CASE i \in 1..Len(w) /\ v[i] = w[i] /\ j \in 1..Len(w) /\ v[j] = w[j]
    BY <2>1 DEF OnceEach
  <2>2. CASE i - Len(w) \in 1..Len(x) /\ v[i] = x[i - Len(w)]
             /\ j - Len(w) \in 1..Len(x) /\ v[j] = x[j - Len(w)]
    <3>1. i - Len(w) = j - Len(w)
      BY <2>2 DEF OnceEach
    <3> QED BY <3>1, <1>1
  <2>3. CASE i \in 1..Len(w) /\ v[i] = w[i] /\ j - Len(w) \in 1..Len(x) /\ v[j] = x[j - Len(w)]
    BY <2>3 DEF Heard
  <2>4. CASE j \in 1..Len(w) /\ v[j] = w[j] /\ i - Len(w) \in 1..Len(x) /\ v[i] = x[i - Len(w)]
    BY <2>4 DEF Heard
  <2> QED BY <1>2, <2>1, <2>2, <2>3, <2>4
<1>4. \A k \in Keys : Heard(v, k) => Heard(w, k) \/ Heard(x, k)
  BY <1>2 DEF Heard
<1>5. ASSUME InOrder(w), \A i \in 1..Len(x) : x[i] # Connected,
             Welcomed(w) \/ \A i \in 1..Len(x) : x[i] = NotReady
      PROVE  InOrder(v)
  <2> SUFFICES ASSUME NEW i \in 1..Len(v), v[i] # NotReady
               PROVE  (\E j \in 1..(i - 1) : v[j] = Connected) <=> v[i] # Connected
    BY DEF InOrder
  <2>1. CASE i \in 1..Len(w) /\ v[i] = w[i]
    <3>1. \A j \in 1..(i - 1) : v[j] = w[j]
      BY <1>1, <2>1
    <3> QED BY <1>5, <2>1, <3>1 DEF InOrder
  <2>2. CASE i - Len(w) \in 1..Len(x) /\ v[i] = x[i - Len(w)]
    <3>1. v[i] # Connected /\ Welcomed(w)
      BY <1>5, <2>2
    <3>2. PICK j \in 1..Len(w) : w[j] = Connected
      BY <3>1 DEF Welcomed
    <3>3. j \in 1..(i - 1) /\ v[j] = w[j]
      BY <1>1, <2>2
    <3> QED BY <3>1, <3>2, <3>3
  <2> QED BY <1>2, <2>1, <2>2
<1>6. Welcomed(v) <=> Welcomed(w) \/ Welcomed(x)
  <2>1. Welcomed(v) => Welcomed(w) \/ Welcomed(x)
    BY <1>2 DEF Welcomed
  <2>2. Welcomed(w) => Welcomed(v)
    <3> SUFFICES ASSUME NEW i \in 1..Len(w), w[i] = Connected PROVE Welcomed(v)
      BY DEF Welcomed
    <3>1. i \in 1..Len(v) /\ v[i] = w[i]
      BY <1>1
    <3> QED BY <3>1 DEF Welcomed
  <2>3. Welcomed(x) => Welcomed(v)
    <3> SUFFICES ASSUME NEW i \in 1..Len(x), x[i] = Connected PROVE Welcomed(v)
      BY DEF Welcomed
    <3> DEFINE j == i + Len(w)
    <3>1. j \in 1..Len(v) /\ j > Len(w) /\ j - Len(w) = i
      BY <1>1
    <3>2. v[j] = x[i]
      BY <1>1, <3>1
    <3> HIDE DEF j
    <3> QED BY <3>1, <3>2 DEF Welcomed
  <2> QED BY <2>1, <2>2, <2>3
<1> QED
  BY <1>1, <1>3, <1>4, <1>5, <1>6 DEF v

\* The events of one relayed command on one socket: a reply, an announcement,
\* both or neither.
FewOf(e, k) == {<<>>, <<e>>, <<Created(k)>>, <<e>> \o <<Created(k)>>}

LEMMA FewEvents ==
    ASSUME NEW e \in Events, NEW k \in Keys, \A j \in Keys : e # Created(j), e # Connected,
           NEW x \in FewOf(e, k)
    PROVE  /\ x \in Seq(Events) /\ OnceEach(x) /\ ~Welcomed(x)
           /\ \A j \in Keys : Heard(x, j) => j = k
           /\ x \in {<<>>, <<e>>} => \A j \in Keys : ~Heard(x, j)
<1>1. Created(k) \in Events
  BY DEF Events
<1>2. /\ Len(<<>>) = 0 /\ Len(<<e>>) = 1 /\ Len(<<Created(k)>>) = 1
      /\ <<e>>[1] = e /\ <<Created(k)>>[1] = Created(k)
  OBVIOUS
<1>3. (\A j \in Keys : Created(k) = Created(j) => j = k) /\ Created(k) # Connected
  BY EventsDiffer
<1>4. CASE x = <<>>
  BY <1>4, <1>2 DEF OnceEach, Heard, Welcomed
<1>5. CASE x = <<e>>
  <2>1. x \in Seq(Events)
    BY <1>5
  <2>2. \A i \in 1..Len(x) : i = 1
    BY <1>2, <1>5
  <2>3. x[1] = e
    BY <1>2, <1>5
  <2> QED BY <2>1, <2>2, <2>3 DEF OnceEach, Heard, Welcomed
<1>6. CASE x = <<Created(k)>>
  <2>1. x \in Seq(Events)
    BY <1>6, <1>1
  <2>2. \A i \in 1..Len(x) : i = 1
    BY <1>2, <1>6
  <2>3. x[1] = Created(k)
    BY <1>2, <1>6
  <2>4. x \notin {<<>>, <<e>>}
    BY <1>2, <1>6, <2>3
  <2> QED BY <2>1, <2>2, <2>3, <2>4, <1>3 DEF OnceEach, Heard, Welcomed
<1>7. CASE x = <<e>> \o <<Created(k)>>
  <2>1. <<e>> \in Seq(Events) /\ <<Created(k)>> \in Seq(Events)
    BY <1>1
  <2>2. /\ x \in Seq(Events)
        /\ Len(x) = 2
        /\ \A i \in 1..2 : x[i] = IF i <= 1 THEN <<e>>[i] ELSE <<Created(k)>>[i - 1]
    BY <1>2, <1>7, <2>1, ConcatProperties
  <2>3. x[1] = e /\ x[2] = Created(k)
    BY <1>2, <2>2
  <2>4. x # <<>> /\ x # <<e>>
    <3>1. Len(x) # Len(<<>>) /\ Len(x) # Len(<<e>>)
      BY <1>2, <2>2
    <3> QED BY <3>1
  <2>5. \A j \in Keys, i \in 1..Len(x) : x[i] = Created(j) => i = 2 /\ j = k
    BY <2>2, <2>3, <1>3
  <2>6. ~Welcomed(x)
    BY <2>2, <2>3, <1>3 DEF Welcomed
  <2> QED BY <2>2, <2>4, <2>5, <2>6 DEF OnceEach, Heard
<1> QED
  BY <1>4, <1>5, <1>6, <1>7 DEF FewOf

-----------------------------------------------------------------------------
(* Steps.                                                                  *)

\* Sessions do not vanish, and leave no channel they joined.
SessionsGrow ==
    \A s \in Sockets : session[s] # NoSession =>
        session'[s] # NoSession /\ session[s].channels \subseteq session'[s].channels

LEMMA SessionsOnlyGrow == SessionInv /\ [Next]_vars => SessionsGrow
<1> SUFFICES ASSUME SessionInv, [Next]_vars, NEW s \in Sockets, session[s] # NoSession
             PROVE  session'[s] # NoSession /\ session[s].channels \subseteq session'[s].channels
  BY DEF SessionsGrow
<1>0. session \in [Sockets -> {NoSession} \cup LocalSessions] /\ session[s] \in LocalSessions
  BY DEF SessionInv, SessionParts, SessionTypes
<1>1. CASE UNCHANGED session
  BY <1>1
<1>2. CASE \E u \in Sockets : Authenticated(u)
  <2>1. PICK u \in Sockets : Authenticated(u)
    BY <1>2
  <2>2. u # s
    BY <2>1 DEF Authenticated, SessionInv, SessionParts, SessionsFit
  <2>3. session'[s] = session[s]
    BY <1>0, <2>1, <2>2 DEF Authenticated, KeepSessions
  <2> QED BY <2>3
<1>3. CASE \E u \in Sockets : Greeted(u) \/ \E channel \in Channels : Join(u, channel)
  <2>1. PICK u \in Sockets : Greeted(u) \/ \E channel \in Channels : Join(u, channel)
    BY <1>3
  <2>2. CASE u = s
    <3> DEFINE greeted == [session[s] EXCEPT !.state = "ready", !.connectedEventSent = TRUE]
               joined(channel) == [session[s] EXCEPT !.channels = @ \cup {channel}]
    <3>1. greeted \in LocalSessions /\ greeted.channels = session[s].channels
      BY <1>0 DEF LocalSessions
    <3>2. \A channel \in Channels : joined(channel) \in LocalSessions
            /\ session[s].channels \subseteq joined(channel).channels
      BY <1>0 DEF LocalSessions
    <3>3. session'[s] = greeted \/ \E channel \in Channels : session'[s] = joined(channel)
      BY <1>0, <2>1, <2>2 DEF Greeted, Join
    <3> HIDE DEF greeted, joined
    <3> QED BY <3>1, <3>2, <3>3, NoSessionIsNone
  <2>3. CASE u # s
    <3>1. session'[s] = session[s]
      BY <1>0, <2>1, <2>3 DEF Greeted, Join
    <3> QED BY <3>1
  <2> QED BY <2>2, <2>3
<1>4. CASE \E u \in Sockets : GreetingFails(u) \/ Closed(u)
  <2>1. PICK u \in Sockets : RemoveSessions({u})
    BY <1>4 DEF GreetingFails, Closed
  <2> DEFINE closed == [session[s] EXCEPT !.state = "closed"]
  <2>2. closed \in LocalSessions /\ closed.channels = session[s].channels
    BY <1>0 DEF LocalSessions
  <2>3. session'[s] = session[s] \/ session'[s] = closed
    BY <2>1 DEF RemoveSessions
  <2> HIDE DEF closed
  <2> QED BY <2>2, <2>3, NoSessionIsNone
<1>5. CASE \E u \in Sockets : SocketStep(u)
  <2>1. PICK u \in Sockets : SocketStep(u)
    BY <1>5
  <2>2. CASE \/ Authenticated(u) \/ Greeted(u) \/ GreetingFails(u) \/ Closed(u)
             \/ \E channel \in Channels : Join(u, channel)
    BY <1>2, <1>3, <1>4, <2>2
  <2>3. CASE UNCHANGED session
    BY <1>1, <2>3
  <2> QED
    BY <2>1, <2>2, <2>3 DEF SocketStep, Connect, ConnectionEnds, TooEarly, Upgrade, ApiIsAsked,
       AuthenticationFails, BadFrame, Mutate, SendMessage, PeerCloses, KeepSessions
<1> QED
  BY <1>1, <1>5 DEF Next, vars, CallStep, ApiAnswers, Relayed, RelayFails, Close,
     ForceClose, ServersClosed, OtherSteps, KeepSessions

\* Steps in which nothing is sent and no command or message changes.
LEMMA QuietKeeps ==
    ASSUME WireFits, SessionsGrow, UNCHANGED <<wire, call, stored>>,
           \A s \in Sockets : session[s] = NoSession => session'[s] = NoSession,
           \A c \in Calls : call[c] # NoCall => call[c].from \in Sockets
    PROVE  WireFits'
<1> USE DEF WireFits
<1>1. \A c \in Calls : \A k : Pending(c, k)' <=> Pending(c, k)
  BY DEF Pending
<1>2. \A s \in Sockets : SocketFits(s)'
  <2> SUFFICES ASSUME NEW s \in Sockets PROVE SocketFits(s)'
    OBVIOUS
  <2>1. SocketFits(s)
    OBVIOUS
  <2>2. \A k \in Keys : Heard(wire[s], k) => session[s] # NoSession
    BY <2>1, EventsDiffer DEF SocketFits, Heard
  <2>3. \A k \in Keys : Heard(wire[s], k) => AnnouncedFits(s, k)'
    BY <1>1, <2>1, <2>2 DEF SocketFits, AnnouncedFits, SessionsGrow
  <2> QED BY <2>1, <2>3 DEF SocketFits, OnceEach, Heard, InOrder, Welcomed, SessionsGrow
<1>3. \A c \in Calls : CallFits(c)'
  BY <1>1 DEF CallFits, SessionsGrow
<1>4. \A k \in DOMAIN stored' : StoredFits(k)'
  BY DEF StoredFits, SessionsGrow
<1>5. wire' \in [Sockets -> Seq(Events)]
  OBVIOUS
<1> QED
  BY <1>2, <1>3, <1>4, <1>5

LEMMA GreetingKeepsWire ==
    ASSUME SessionInv, WireFits, SessionsGrow, NEW s \in Sockets, Authenticated(s),
           socket[s] = "open", ask[s].stage # "rejected",
           \A c \in Calls : call[c] # NoCall => call[c].from \in Sockets
    PROVE  WireFits'
<1> USE DEF WireFits
<1> DEFINE hello == <<Connected>>
           heard == wire[s] \o hello
<1>1. session[s] = NoSession /\ SocketFits(s) /\ wire[s] \in Seq(Events)
      /\ \A i \in 1..Len(wire[s]) : wire[s][i] = NotReady
  BY DEF Authenticated, SessionInv, SessionParts, SessionsFit, SocketFits
<1>2. UNCHANGED <<call, stored>> /\ wire' = [wire EXCEPT ![s] = heard]
  BY DEF Authenticated, Sent
<1>3. hello \in Seq(Events) /\ Len(hello) = 1 /\ hello[1] = Connected
  BY DEF Events
<1> HIDE DEF hello
<1>4. wire'[s] = heard /\ \A u \in Sockets : u # s => wire'[u] = wire[u]
  BY <1>2
<1>5. session'[s] # NoSession /\ \A u \in Sockets : u # s => session'[u] = session[u]
  <2>1. \A u \in Sockets : u # s => session'[u] = session[u]
    BY DEF Authenticated, SessionInv, SessionParts, SessionTypes
  <2>2. auth'[s] = "greeting"
    BY DEF Authenticated, SessionInv, SessionParts, SessionTypes
  <2>3. SessionsFit'
    BY SessionsKeep DEF Next, SocketStep, SessionInv, SessionParts
  <2> QED BY <2>1, <2>2, <2>3 DEF SessionsFit
<1>6. \A c \in Calls : \A k : Pending(c, k)' <=> Pending(c, k)
  BY <1>2 DEF Pending
<1>7. SocketFits(s)'
  <2>1. (\A k \in Keys : ~Heard(hello, k)) /\ OnceEach(hello) /\ Welcomed(hello)
    BY <1>3, EventsDiffer DEF Heard, OnceEach, Welcomed
  <2>2. \A k \in Keys : ~Heard(wire[s], k)
    BY <1>1, EventsDiffer DEF Heard
  <2>3. heard \in Seq(Events) /\ OnceEach(heard) /\ Welcomed(heard)
        /\ \A k \in Keys : ~Heard(heard, k)
    BY <1>1, <1>3, <2>1, <2>2, ConcatFits DEF SocketFits
  <2>4. InOrder(heard)
    <3>1. /\ Len(heard) = Len(wire[s]) + 1 /\ Len(wire[s]) \in Nat
          /\ \A i \in 1..Len(heard) :
                heard[i] = IF i <= Len(wire[s]) THEN NotReady ELSE Connected
      <4>1. /\ Len(heard) = Len(wire[s]) + Len(hello) /\ Len(wire[s]) \in Nat
            /\ \A i \in 1..(Len(wire[s]) + Len(hello)) :
                  heard[i] = IF i <= Len(wire[s]) THEN wire[s][i] ELSE hello[i - Len(wire[s])]
        <5>1. PICK w \in Seq(Events), x \in Seq(Events) : w = wire[s] /\ x = hello
          BY <1>1, <1>3
        <5>2. /\ Len(w \o x) = Len(w) + Len(x) /\ Len(w) \in Nat
              /\ \A i \in 1..(Len(w) + Len(x)) :
                    (w \o x)[i] = IF i <= Len(w) THEN w[i] ELSE x[i - Len(w)]
          BY ConcatProperties
        <5> QED BY <5>1, <5>2
      <4> HIDE DEF heard
      <4>2. Len(heard) = Len(wire[s]) + 1
        BY <1>3, <4>1
      <4>3. ASSUME NEW i \in 1..Len(heard)
            PROVE  heard[i] = IF i <= Len(wire[s]) THEN NotReady ELSE Connected
        <5>1. CASE i <= Len(wire[s])
          <6>1. heard[i] = wire[s][i] /\ i \in 1..Len(wire[s])
            BY <1>3, <4>1, <5>1
          <6> QED BY <1>1, <5>1, <6>1
        <5>2. CASE ~(i <= Len(wire[s]))
          <6>1. i - Len(wire[s]) = 1
            BY <4>1, <4>2, <5>2
          <6>2. heard[i] = hello[i - Len(wire[s])]
            BY <1>3, <4>1, <5>2
          <6> QED BY <1>3, <5>2, <6>1, <6>2
        <5> QED BY <5>1, <5>2
      <4> QED BY <4>1, <4>2, <4>3
    <3> HIDE DEF heard
    <3> SUFFICES ASSUME NEW i \in 1..Len(heard), heard[i] # NotReady
                 PROVE  (\E j \in 1..(i - 1) : heard[j] = Connected) <=> heard[i] # Connected
      BY DEF InOrder
    <3>2. i = Len(wire[s]) + 1 /\ heard[i] = Connected
      BY <3>1
    <3>3. \A j \in 1..(i - 1) : heard[j] = NotReady
      BY <3>1, <3>2
    <3> QED BY <3>2, <3>3, EventsDiffer
  <2> HIDE DEF WireFits, heard
  <2>5. wire'[s] \in Seq(Events) /\ OnceEach(wire'[s]) /\ Welcomed(wire'[s]) /\ InOrder(wire'[s])
        /\ \A k \in Keys : ~Heard(wire'[s], k)
    BY <1>4, <2>3, <2>4
  <2> QED BY <2>5, <1>5 DEF SocketFits, OnceEach, Heard, InOrder, Welcomed
<1>8. \A u \in Sockets : u # s => SocketFits(u)'
  <2> SUFFICES ASSUME NEW u \in Sockets, u # s PROVE SocketFits(u)'
    OBVIOUS
  <2>1. SocketFits(u) /\ wire'[u] = wire[u] /\ session'[u] = session[u]
    BY <1>4, <1>5
  <2>2. \A k \in Keys : AnnouncedFits(u, k) => AnnouncedFits(u, k)'
    BY <1>2, <1>6, <2>1 DEF AnnouncedFits
  <2> QED BY <2>1, <2>2 DEF SocketFits, OnceEach, Heard, InOrder, Welcomed
<1>9. \A c \in Calls : CallFits(c)'
  BY <1>2, <1>6 DEF CallFits, SessionsGrow
<1>10. \A k \in DOMAIN stored' : StoredFits(k)'
  BY <1>2 DEF StoredFits, SessionsGrow
<1>11. wire' \in [Sockets -> Seq(Events)]
  BY <1>1, <1>2, <1>3, ConcatProperties
<1> QED
  BY <1>7, <1>8, <1>9, <1>10, <1>11

\* Messages are stored and never overwritten.
StoredGrows == \A k \in DOMAIN stored : k \in DOMAIN stored' /\ stored'[k] = stored[k]

\* A socket that hears nothing, while commands and messages move on.
LEMMA SilentSocketFits ==
    ASSUME NEW s \in Sockets, SocketFits(s), StoredGrows, UNCHANGED session, wire'[s] = wire[s],
           \A c \in Calls, k \in Keys : Pending(c, k)' =>
              Pending(c, k) \/ ~Heard(wire[s], k)
    PROVE  SocketFits(s)'
<1>1. \A k \in Keys : Heard(wire[s], k) => AnnouncedFits(s, k)'
  BY DEF SocketFits, AnnouncedFits, StoredGrows
<1> QED
  BY <1>1 DEF SocketFits, OnceEach, Heard, InOrder, Welcomed

\* A socket that hears some events.
LEMMA HearingSocketFits ==
    ASSUME NEW s \in Sockets, SocketFits(s), session[s] # NoSession, UNCHANGED <<session, stored>>,
           NEW x \in Seq(Events), OnceEach(x), ~Welcomed(x), wire'[s] = wire[s] \o x,
           \A k \in Keys : Heard(x, k) => ~Heard(wire[s], k) /\ AnnouncedFits(s, k)',
           \A c \in Calls, k \in Keys : Pending(c, k)' => Pending(c, k)
    PROVE  SocketFits(s)'
<1>1. /\ wire'[s] \in Seq(Events)
      /\ OnceEach(wire'[s])
      /\ \A k \in Keys : Heard(wire'[s], k) => Heard(wire[s], k) \/ Heard(x, k)
      /\ InOrder(wire'[s]) /\ Welcomed(wire'[s])
  <2>1. \A i \in 1..Len(x) : x[i] # Connected
    BY DEF Welcomed
  <2>2. PICK w \in Seq(Events) : w = wire[s]
    BY DEF SocketFits
  <2>3. OnceEach(w) /\ InOrder(w) /\ Welcomed(w)
    BY <2>2 DEF SocketFits
  <2>4. wire'[s] = w \o x /\ \A k \in Keys : Heard(x, k) => ~Heard(w, k)
    BY <2>2
  <2>5. /\ w \o x \in Seq(Events) /\ OnceEach(w \o x) /\ InOrder(w \o x) /\ Welcomed(w \o x)
        /\ \A k \in Keys : Heard(w \o x, k) => Heard(w, k) \/ Heard(x, k)
    BY <2>1, <2>3, <2>4, ConcatFits
  <2> QED BY <2>2, <2>4, <2>5
<1>2. \A k \in Keys : Heard(wire[s], k) => AnnouncedFits(s, k)'
  BY DEF SocketFits, AnnouncedFits
<1> QED
  BY <1>1, <1>2 DEF SocketFits, OnceEach, Heard, InOrder, Welcomed

\* A command is sent, and refused at once if its session may not write.
LEMMA NewCallKeepsWire ==
    ASSUME SessionInv, WireFits, NEW s \in Sockets, NEW c \in Calls, NEW k \in Keys,
           \/ Mutate(s, c, k)
           \/ \E t \in Targets : SendMessage(s, c, k, t)
    PROVE  WireFits'
<1> USE DEF WireFits
<1>1. session[s] # NoSession /\ call[c] = NoCall /\ UNCHANGED <<session, stored>>
  BY DEF Mutate, SendMessage, Ready, KeepSessions, SessionInv, SessionParts, SessionsFit
<1>2. PICK t \in Targets \cup {Mutation}, x \in {"api", "over"} :
        /\ call' = [call EXCEPT ![c] = [from |-> s, key |-> k, target |-> t, stage |-> x]]
        /\ x = "api" /\ t \in Channels /\ t # Mutation => t \in session[s].channels
  BY DEF Mutate, SendMessage, Writable
<1> DEFINE new == [from |-> s, key |-> k, target |-> t, stage |-> x]
<1>3. new \in Commands /\ new # NoCall /\ new.from = s /\ new.target = t /\ new.stage = x
  BY NoSessionIsNone DEF Commands
<1> HIDE DEF new
<1>4. call'[c] = new /\ \A d \in Calls : d # c => call'[d] = call[d]
  BY <1>2 DEF SessionInv, StoreFits, new
<1>5. \A d \in Calls, j \in Keys : Pending(d, j)' <=> Pending(d, j)
  BY <1>1, <1>3, <1>4 DEF Pending
<1>6. \/ wire' = wire
      \/ wire' = [wire EXCEPT ![s] = Sent(s, <<Rejected(c)>>)]
  BY DEF Mutate, SendMessage
<1>7. Sent(s, <<Rejected(c)>>) = wire[s] \/ Sent(s, <<Rejected(c)>>) = wire[s] \o <<Rejected(c)>>
  BY DEF Sent
<1>8. \A u \in Sockets : u # s => wire'[u] = wire[u]
  BY <1>6
<1>9. wire'[s] = wire[s] \/ wire'[s] = wire[s] \o <<Rejected(c)>>
  BY <1>6, <1>7
<1>10. \A u \in Sockets : SocketFits(u)'
  <2>1. StoredGrows
    BY <1>1 DEF StoredGrows
  <2>2. \A u \in Sockets : wire'[u] = wire[u] => SocketFits(u)'
    BY <1>1, <1>5, <2>1, SilentSocketFits
  <2>3. CASE wire'[s] = wire[s] \o <<Rejected(c)>>
    <3>1. /\ Rejected(c) \in Events /\ Rejected(c) # Connected
          /\ \A j \in Keys : Rejected(c) # Created(j)
      BY EventsDiffer DEF Events
    <3>2. <<Rejected(c)>> \in FewOf(Rejected(c), k)
      BY DEF FewOf
    <3>3. <<Rejected(c)>> \in Seq(Events) /\ OnceEach(<<Rejected(c)>>) /\ ~Welcomed(<<Rejected(c)>>)
          /\ \A j \in Keys : ~Heard(<<Rejected(c)>>, j)
      BY <3>1, <3>2, FewEvents
    <3>4. SocketFits(s)'
      BY <1>1, <1>5, <2>3, <3>3, HearingSocketFits
    <3> QED BY <1>8, <2>2, <3>4
  <2> QED BY <1>8, <1>9, <2>2, <2>3
<1>11. \A d \in Calls : CallFits(d)'
  <2> SUFFICES ASSUME NEW d \in Calls PROVE CallFits(d)'
    OBVIOUS
  <2>1. CASE d = c
    BY <1>1, <1>2, <1>3, <1>4, <1>5, <2>1 DEF CallFits, Pending
  <2>2. CASE d # c
    BY <1>1, <1>4, <1>5, <2>2 DEF CallFits
  <2> QED BY <2>1, <2>2
<1>12. \A j \in DOMAIN stored' : StoredFits(j)'
  BY <1>1 DEF StoredFits
<1>13. wire' \in [Sockets -> Seq(Events)]
  <2>1. wire'[s] \in Seq(Events)
    BY <1>10 DEF SocketFits
  <2> QED BY <1>6, <2>1
<1> QED
  BY <1>10, <1>11, <1>12, <1>13

\* The API answers a command, or the command fails before its answer came.
LEMMA AnswerKeepsWire ==
    ASSUME SessionInv, WireFits, NEW c \in Calls, ApiAnswers(c) \/ RelayFails(c)
    PROVE  WireFits'
<1> USE DEF WireFits
<1>1. UNCHANGED <<wire, session>> /\ call[c] \in Commands /\ call[c] # NoCall /\ call[c].stage # "over"
  BY NoSessionIsNone
  DEF ApiAnswers, RelayFails, KeepSessions, Answered, SessionInv, StoreFits, NoCall
<1> DEFINE key == call[c].key
<1>2. PICK x \in {"rejected", "existing", "created", "over"} :
        /\ call' = [call EXCEPT ![c].stage = x]
        /\ \/ stored' = stored /\ x # "created"
           \/ /\ call[c].target # Mutation /\ key \notin DOMAIN stored
              /\ stored' = [k \in DOMAIN stored \cup {key} |->
                              IF k = key THEN call[c].target ELSE stored[k]]
  BY DEF ApiAnswers, RelayFails
<1> DEFINE n == [call[c] EXCEPT !.stage = x]
<1>3. call'[c] = n /\ n # NoCall /\ n.from = call[c].from
      /\ n.key = key /\ n.target = call[c].target /\ n.stage = x
  <2>1. n \in Commands /\ n.from = call[c].from /\ n.key = call[c].key
        /\ n.target = call[c].target /\ n.stage = x
    BY <1>1 DEF Commands
  <2>2. call'[c] = n
    BY <1>2 DEF SessionInv, StoreFits
  <2>3. n # NoCall
    BY <2>1, NoSessionIsNone
  <2> QED BY <2>1, <2>2, <2>3
<1> HIDE DEF n
<1>4. \A d \in Calls : d # c => call'[d] = call[d]
  BY <1>2 DEF SessionInv, StoreFits
<1>5. key \in Keys
  BY <1>1 DEF Commands
<1> HIDE DEF key
<1>6. StoredGrows
  BY <1>2 DEF StoredGrows
<1>7. \A d \in Calls, k \in Keys : Pending(d, k)' =>
        \/ Pending(d, k) /\ d # c
        \/ d = c /\ k = key /\ key \notin DOMAIN stored /\ key \in DOMAIN stored'
           /\ stored'[key] = call[c].target
  BY <1>2, <1>3, <1>4 DEF Pending
<1>8. \A s \in Sockets : SocketFits(s)'
  <2> SUFFICES ASSUME NEW s \in Sockets PROVE SocketFits(s)'
    OBVIOUS
  <2>1. \A k \in Keys : Heard(wire[s], k) => k \in DOMAIN stored
    BY DEF SocketFits, AnnouncedFits
  <2>2. \A d \in Calls, k \in Keys : Pending(d, k)' => Pending(d, k) \/ ~Heard(wire[s], k)
    BY <1>7, <2>1
  <2>3. wire'[s] = wire[s] /\ SocketFits(s) /\ UNCHANGED session
    BY <1>1
  <2> QED BY <1>6, <2>2, <2>3, SilentSocketFits
<1>9. \A d \in Calls : CallFits(d)'
  <2>1. \A d \in Calls, k \in Keys : Pending(d, k) => k \in DOMAIN stored
    BY DEF CallFits, Pending
  <2>2. CallFits(c)'
    <3>1. /\ session'[n.from] # NoSession
          /\ n.target \in Channels /\ n.target # Mutation => n.target \in session'[n.from].channels
      BY <1>1, <1>3 DEF CallFits
    <3>2. ASSUME NEW k \in Keys, Pending(c, k)'
          PROVE  /\ k \in DOMAIN stored' /\ stored'[k] = n.target
                 /\ \A d \in Calls : Pending(d, k)' => d = c
      BY <1>3, <1>7, <2>1, <3>2
    <3> QED BY <1>3, <3>1, <3>2 DEF CallFits
  <2>3. ASSUME NEW d \in Calls, d # c PROVE CallFits(d)'
    <3>1. call'[d] = call[d] /\ CallFits(d)
      BY <1>4, <2>3
    <3>2. ASSUME NEW k \in Keys, Pending(d, k)'
          PROVE  /\ k \in DOMAIN stored' /\ stored'[k] = call[d].target
                 /\ \A e \in Calls : Pending(e, k)' => e = d
      <4>1. Pending(d, k) /\ call[d] # NoCall
        BY <1>7, <2>3, <3>2 DEF Pending
      <4>2. k \in DOMAIN stored /\ stored[k] = call[d].target /\ \A e \in Calls : Pending(e, k) => e = d
        BY <3>1, <4>1 DEF CallFits
      <4>3. \A e \in Calls : Pending(e, k)' => Pending(e, k)
        BY <1>7, <4>2
      <4> QED BY <1>6, <4>2, <4>3 DEF StoredGrows
    <3> QED BY <1>1, <3>1, <3>2 DEF CallFits
  <2> QED BY <2>2, <2>3
<1>10. \A k \in DOMAIN stored' : StoredFits(k)'
  <2> SUFFICES ASSUME NEW k \in DOMAIN stored' PROVE StoredFits(k)'
    OBVIOUS
  <2>1. CASE k \in DOMAIN stored
    BY <1>1, <1>6, <2>1 DEF StoredFits, StoredGrows
  <2>2. CASE k \notin DOMAIN stored
    <3>1. k = key /\ stored'[k] = call[c].target /\ call[c].target # Mutation
      BY <1>2, <2>2
    <3>2. call[c].from \in Sockets
      BY <1>1 DEF Commands
    <3> QED BY <1>1, <3>1, <3>2 DEF StoredFits, CallFits
  <2> QED BY <2>1, <2>2
<1>11. wire' \in [Sockets -> Seq(Events)]
  BY <1>1
<1> QED
  BY <1>8, <1>9, <1>10, <1>11

\* The answer is relayed: the sender hears it, the audience hears the news.
LEMMA RelayedKeepsWire ==
    ASSUME SessionInv, WireFits, NEW c \in Calls, Relayed(c)
    PROVE  WireFits'
<1> USE DEF WireFits
<1>1. UNCHANGED <<session, stored>> /\ call[c] \in Commands /\ call[c] # NoCall /\ call[c].stage # "over"
  BY NoSessionIsNone DEF Relayed, KeepSessions, Answered, SessionInv, StoreFits, NoCall
<1>2. PICK key \in Keys, from \in Sockets, reply \in Events :
        /\ key = call[c].key
        /\ from = call[c].from
        /\ reply = IF call[c].stage = "rejected" THEN Rejected(c) ELSE Accepted(c)
  BY <1>1 DEF Commands, Events
<1> DEFINE news(r) == IF FansOut(c) /\ r \in Audience(call[c].target) THEN <<Created(key)>> ELSE <<>>
           heard(r) == (IF r = from THEN <<reply>> ELSE <<>>) \o news(r)
<1>3. (\A j \in Keys : reply # Created(j)) /\ reply # Connected
  BY <1>2, EventsDiffer
<1>4. \/ wire' = wire
      \/ wire' = [r \in Sockets |-> Sent(r, heard(r))]
  <2>1. (IF call[c].stage = "rejected" THEN <<Rejected(c)>> ELSE <<Accepted(c)>>) = <<reply>>
    BY <1>2
  <2> QED BY <1>2, <2>1 DEF Relayed
<1>5. call' = [call EXCEPT ![c].stage = "over"]
  BY DEF Relayed
<1> DEFINE n == [call[c] EXCEPT !.stage = "over"]
<1>6. call'[c] = n /\ n # NoCall /\ n.from = from /\ n.stage = "over"
  <2>1. n \in Commands /\ n.from = from /\ n.stage = "over"
    BY <1>1, <1>2 DEF Commands
  <2>2. call'[c] = n
    BY <1>5 DEF SessionInv, StoreFits
  <2>3. n # NoCall
    BY <2>1, NoSessionIsNone
  <2> QED BY <2>1, <2>2, <2>3
<1>7. \A d \in Calls : d # c => call'[d] = call[d]
  BY <1>5 DEF SessionInv, StoreFits
<1> HIDE DEF n
<1>8. \A d \in Calls, k \in Keys : Pending(d, k)' => Pending(d, k) /\ d # c
  BY <1>6, <1>7 DEF Pending
<1>9. FansOut(c) =>
        /\ Pending(c, key)
        /\ key \in DOMAIN stored /\ stored[key] = call[c].target
        /\ \A d \in Calls : ~Pending(d, key)'
        /\ \A s \in Sockets : ~Heard(wire[s], key)
  <2> SUFFICES ASSUME FansOut(c)
               PROVE  /\ Pending(c, key)
                      /\ key \in DOMAIN stored /\ stored[key] = call[c].target
                      /\ \A d \in Calls : ~Pending(d, key)'
                      /\ \A s \in Sockets : ~Heard(wire[s], key)
    OBVIOUS
  <2>1. Pending(c, key)
    BY <1>1, <1>2 DEF FansOut, Pending
  <2>2. key \in DOMAIN stored /\ stored[key] = call[c].target
        /\ \A d \in Calls : Pending(d, key) => d = c
    BY <1>1, <1>2, <2>1 DEF CallFits
  <2>3. \A d \in Calls : ~Pending(d, key)'
    BY <1>2, <1>8, <2>2
  <2>4. \A s \in Sockets : ~Heard(wire[s], key)
    BY <1>2, <2>1 DEF SocketFits, AnnouncedFits
  <2> QED BY <2>1, <2>2, <2>3, <2>4
<1>10. /\ <<>> \o <<Created(key)>> = <<Created(key)>>
       /\ <<reply>> \o <<>> = <<reply>>
       /\ <<>> \o <<>> = <<>>
  <2>1. Created(key) \in Events
    BY DEF Events
  <2>2. <<reply>> \in Seq(Events) /\ <<Created(key)>> \in Seq(Events) /\ <<>> \in Seq(Events)
    BY <2>1
  <2> QED BY <2>2, ConcatEmptySeq
<1>11. ASSUME NEW r \in Sockets
       PROVE  /\ heard(r) \in {<<>>, <<reply>>, <<Created(key)>>, <<reply>> \o <<Created(key)>>}
              /\ ~(FansOut(c) /\ r \in Audience(call[c].target)) => heard(r) \in {<<>>, <<reply>>}
              /\ r # from /\ ~(FansOut(c) /\ r \in Audience(call[c].target)) => heard(r) = <<>>
  <2>1. CASE FansOut(c) /\ r \in Audience(call[c].target)
    <3>1. news(r) = <<Created(key)>>
      BY <2>1
    <3>2. CASE r = from
      BY <1>10, <2>1, <3>1, <3>2
    <3>3. CASE r # from
      BY <1>10, <2>1, <3>1, <3>3
    <3> QED BY <3>2, <3>3
  <2>2. CASE ~(FansOut(c) /\ r \in Audience(call[c].target))
    <3>1. news(r) = <<>>
      BY <2>2
    <3>2. CASE r = from
      BY <1>10, <3>1, <3>2
    <3>3. CASE r # from
      BY <1>10, <3>1, <3>3
    <3> QED BY <3>2, <3>3
  <2> QED BY <2>1, <2>2
<1> HIDE DEF heard
<1>12. ASSUME NEW r \in Sockets PROVE SocketFits(r)'
  <2>1. StoredGrows /\ UNCHANGED session
    BY <1>1 DEF StoredGrows
  <2>2. ASSUME wire'[r] = wire[r] PROVE SocketFits(r)'
    BY <1>8, <2>1, <2>2, SilentSocketFits
  <2>3. ASSUME wire'[r] = wire[r] \o heard(r) PROVE SocketFits(r)'
    <3>1. PICK x : x = heard(r)
      OBVIOUS
    <3>2. /\ x \in Seq(Events)
          /\ OnceEach(x) /\ ~Welcomed(x)
          /\ \A j \in Keys : Heard(x, j) => j = key
          /\ x \in {<<>>, <<reply>>} => \A j \in Keys : ~Heard(x, j)
      <4>1. x \in FewOf(reply, key)
        BY <1>11, <3>1 DEF FewOf
      <4> QED BY <1>2, <1>3, <4>1, FewEvents
    <3>3. wire'[r] = wire[r] \o x
      BY <2>3, <3>1
    <3>4. CASE FansOut(c) /\ r \in Audience(call[c].target)
      <4>1. session[r] # NoSession /\ call[c].target \in session[r].channels
        BY <3>4 DEF Audience, SessionInv, SessionParts, SessionsFit
      <4>2. AnnouncedFits(r, key)'
        BY <1>1, <1>9, <3>4, <4>1 DEF AnnouncedFits
      <4>3. \A j \in Keys : Heard(x, j) => ~Heard(wire[r], j) /\ AnnouncedFits(r, j)'
        BY <1>9, <3>2, <3>4, <4>2
      <4> QED BY <1>1, <1>8, <3>2, <3>3, <4>1, <4>3, HearingSocketFits
    <3>5. CASE r = from /\ ~(FansOut(c) /\ r \in Audience(call[c].target))
      <4>1. session[r] # NoSession
        BY <1>1, <1>2, <3>5 DEF CallFits
      <4>2. \A j \in Keys : ~Heard(x, j)
        BY <1>11, <3>1, <3>2, <3>5
      <4> QED BY <1>1, <1>8, <3>2, <3>3, <4>1, <4>2, HearingSocketFits
    <3>6. CASE r # from /\ ~(FansOut(c) /\ r \in Audience(call[c].target))
      <4>1. wire'[r] = wire[r]
        BY <1>11, <2>3, <3>6, ConcatEmptySeq DEF SocketFits
      <4> QED BY <2>2, <4>1
    <3> QED BY <3>4, <3>5, <3>6
  <2>4. wire'[r] = wire[r] \/ wire'[r] = wire[r] \o heard(r)
    BY <1>4 DEF Sent
  <2> QED BY <2>2, <2>3, <2>4
<1>13. ASSUME NEW d \in Calls PROVE CallFits(d)'
  <2>1. CASE d = c
    BY <1>1, <1>2, <1>6, <1>8, <2>1 DEF CallFits
  <2>2. CASE d # c
    <3>1. call'[d] = call[d] /\ CallFits(d)
      BY <1>7, <2>2
    <3>2. \A k \in Keys : Pending(d, k)' =>
             /\ k \in DOMAIN stored' /\ stored'[k] = call[d].target
             /\ \A e \in Calls : Pending(e, k)' => e = d
      BY <1>1, <1>8, <3>1 DEF CallFits, Pending
    <3> QED BY <1>1, <3>1, <3>2 DEF CallFits
  <2> QED BY <2>1, <2>2
<1>14. \A k \in DOMAIN stored' : StoredFits(k)'
  BY <1>1 DEF StoredFits
<1>15. wire' \in [Sockets -> Seq(Events)]
  <2>1. \A r \in Sockets : wire'[r] \in Seq(Events)
    BY <1>12 DEF SocketFits
  <2> QED BY <1>4, <2>1
<1> QED
  BY <1>12, <1>13, <1>14, <1>15

\* A frame that came too early is answered, before or after the greeting.
LEMMA EarlyAnswerKeepsWire ==
    ASSUME WireFits, NEW s \in Sockets, TooEarly(s)
    PROVE  WireFits'
<1> USE DEF WireFits
<1> DEFINE x == <<NotReady>>
<1>1. UNCHANGED <<call, session, stored>> /\ wire' = [wire EXCEPT ![s] = wire[s] \o x]
  BY DEF TooEarly, Sent, KeepSessions
<1>2. x \in Seq(Events) /\ \A i \in 1..Len(x) : x[i] = NotReady
  BY DEF Events
<1> HIDE DEF x
<1>3. OnceEach(x) /\ ~Welcomed(x) /\ \A k \in Keys : ~Heard(x, k)
  BY <1>2, EventsDiffer DEF OnceEach, Welcomed, Heard
<1>4. wire'[s] = wire[s] \o x /\ \A u \in Sockets : u # s => wire'[u] = wire[u]
  BY <1>1
<1>5. \A c \in Calls, k \in Keys : Pending(c, k)' <=> Pending(c, k)
  BY <1>1 DEF Pending
<1>6. StoredGrows
  BY <1>1 DEF StoredGrows
<1>7. ASSUME NEW u \in Sockets PROVE SocketFits(u)'
  <2>1. CASE u # s
    BY <1>1, <1>4, <1>5, <1>6, <2>1, SilentSocketFits
  <2>2. CASE u = s /\ session[s] # NoSession
    BY <1>1, <1>2, <1>3, <1>4, <1>5, <2>2, HearingSocketFits
  <2>3. CASE u = s /\ session[s] = NoSession
    <3>1. /\ wire[s] \in Seq(Events) /\ OnceEach(wire[s]) /\ InOrder(wire[s])
          /\ \A i \in 1..Len(wire[s]) : wire[s][i] = NotReady
      BY <2>3 DEF SocketFits
    <3>2. wire'[s] \in Seq(Events) /\ \A i \in 1..Len(wire'[s]) : wire'[s][i] = NotReady
      BY <1>2, <1>4, <3>1, ConcatProperties
    <3>3. OnceEach(wire'[s]) /\ InOrder(wire'[s]) /\ \A k \in Keys : ~Heard(wire'[s], k)
      BY <3>2, EventsDiffer DEF OnceEach, InOrder, Heard
    <3> QED BY <1>1, <2>3, <3>2, <3>3 DEF SocketFits, OnceEach, Heard, InOrder, Welcomed
  <2> QED BY <2>1, <2>2, <2>3
<1>8. \A c \in Calls : CallFits(c)'
  BY <1>1, <1>5 DEF CallFits, Pending
<1>9. \A k \in DOMAIN stored' : StoredFits(k)'
  BY <1>1 DEF StoredFits
<1>10. wire' \in [Sockets -> Seq(Events)]
  BY <1>1, <1>2, ConcatProperties
<1> QED
  BY <1>7, <1>8, <1>9, <1>10

LEMMA WireKeeps == FanoutInv /\ [Next]_vars => WireFits'
<1> SUFFICES ASSUME SessionInv, WireFits, [Next]_vars PROVE WireFits'
  BY DEF FanoutInv
<1>1. SessionsGrow
  BY SessionsOnlyGrow
<1>2. \A c \in Calls : call[c] # NoCall => call[c].from \in Sockets
  BY DEF SessionInv, StoreFits, Commands
<1>3. CASE \E c \in Calls : CallStep(c)
  BY <1>3, AnswerKeepsWire, RelayedKeepsWire DEF CallStep
<1>4. CASE \E s \in Sockets, c \in Calls, k \in Keys :
             Mutate(s, c, k) \/ \E t \in Targets : SendMessage(s, c, k, t)
  BY <1>4, NewCallKeepsWire
<1>5. CASE \E s \in Sockets : Authenticated(s)
  <2>1. PICK s \in Sockets : Authenticated(s)
    BY <1>5
  <2>2. CASE ask[s].stage = "rejected" \/ socket[s] # "open"
    <3>1. UNCHANGED <<wire, call, stored, session>>
      BY <2>1, <2>2 DEF Authenticated, KeepSessions
    <3> QED BY <1>1, <1>2, <3>1, QuietKeeps
  <2>3. CASE ask[s].stage # "rejected" /\ socket[s] = "open"
    BY <1>1, <1>2, <2>1, <2>3, GreetingKeepsWire
  <2> QED BY <2>2, <2>3
<1>6. CASE \E s \in Sockets : Greeted(s) \/ GreetingFails(s) \/ Closed(s)
                              \/ \E channel \in Channels : Join(s, channel)
  <2>1. PICK s \in Sockets : Greeted(s) \/ GreetingFails(s) \/ Closed(s)
                              \/ \E channel \in Channels : Join(s, channel)
    BY <1>6
  <2>2. UNCHANGED <<wire, call, stored>>
    BY <2>1 DEF Greeted, GreetingFails, Closed, Join
  <2>3. \A u \in Sockets : session[u] = NoSession => session'[u] = NoSession
    BY <2>1 DEF Greeted, GreetingFails, Closed, Join, Ready, RemoveSessions, SessionInv, SessionParts,
       SessionTypes, SessionsFit
  <2> QED BY <1>1, <1>2, <2>2, <2>3, QuietKeeps
<1>7. CASE UNCHANGED <<wire, call, stored, session>>
  BY <1>1, <1>2, <1>7, QuietKeeps
<1>8. CASE Close \/ ForceClose \/ ServersClosed \/ OtherSteps \/ UNCHANGED vars
  BY <1>7, <1>8 DEF Close, ForceClose, ServersClosed, OtherSteps, vars, KeepSessions
<1>9. CASE \E s \in Sockets :
             \/ \E r \in Requests, h \in BOOLEAN : Upgrade(s, r, h)
             \/ \E t \in Api!Presented : ApiIsAsked(s, t)
             \/ AuthenticationFails(s) \/ PeerCloses(s)
             \/ Connect(s) \/ ConnectionEnds(s)
             \/ \E fault \in FrameFaults : BadFrame(s, fault)
  BY <1>7, <1>9 DEF Connect, ConnectionEnds, Upgrade, ApiIsAsked, AuthenticationFails, PeerCloses, BadFrame, KeepSessions
<1>10. CASE \E s \in Sockets : TooEarly(s)
  BY <1>10, EarlyAnswerKeepsWire
<1> QED
  BY <1>3, <1>4, <1>5, <1>6, <1>8, <1>9, <1>10 DEF Next, SocketStep

-----------------------------------------------------------------------------

\* The invariant of the process, its tickets and its sockets.
THEOREM FanoutInvariantHolds == Spec => []FanoutInv
<1>1. Init => SessionInv
  BY TicketsInitially, SessionsInitially DEF Init, SessionInv
<1>2. Init => WireFits
  <2> SUFFICES ASSUME Init PROVE WireFits
    OBVIOUS
  <2>1. \A s \in Sockets : SocketFits(s)
    BY DEF Init, SocketFits, OnceEach, Heard, InOrder
  <2>2. wire \in [Sockets -> Seq(Events)] /\ \A c \in Calls : CallFits(c)
    BY DEF Init, CallFits
  <2>3. \A k \in DOMAIN stored : StoredFits(k)
    BY DEF Init
  <2> QED BY <2>1, <2>2, <2>3 DEF WireFits
<1>3. SessionInv /\ [Next]_vars => SessionInv'
  BY TicketsKeep, SessionsKeep, StoreKeeps DEF SessionInv
<1>4. FanoutInv /\ [Next]_vars => FanoutInv'
  BY <1>3, WireKeeps DEF FanoutInv
<1> QED
  BY <1>1, <1>2, <1>4, PTL DEF Spec, FanoutInv

LEMMA FanoutInvImpliesSound == FanoutInv => WireIsSound
<1> SUFFICES ASSUME FanoutInv PROVE WireIsSound
  OBVIOUS
<1> USE DEF FanoutInv, WireFits
<1>0. \A s \in Sockets : SocketFits(s) /\ DOMAIN wire[s] = 1..Len(wire[s])
  BY DEF SocketFits
<1>1. ConnectedFirst
  BY <1>0 DEF ConnectedFirst, SocketFits, InOrder
<1>2. LiveOnce
  BY <1>0 DEF LiveOnce, SocketFits, OnceEach, AnnouncedFits, Heard
<1>3. StoredByMembers
  BY DEF StoredByMembers, StoredFits
<1> QED
  BY <1>1, <1>2, <1>3 DEF WireIsSound

\* For any number of sockets, commands and keys: the greeting comes once on a
\* socket, and before every event but not_ready, a message is announced at most once on each, only to sessions in
\* its channel and only when it is stored, and it comes from a session in it.
THEOREM WireStaysSound == Spec => []WireIsSound
BY FanoutInvariantHolds, FanoutInvImpliesSound, PTL

=============================================================================
