--------------------------- MODULE GatewayTickets ---------------------------
(***************************************************************************)
(* Gateway tickets (packages/realtime-chat-gateway-ticket): the API issues *)
(* a ticket for an actor and one gateway, and a gateway asks the API to    *)
(* consume it when a socket presents it.  Issues and consumptions are      *)
(* asynchronous calls of several API processes over one table; a call      *)
(* reads the clock before it awaits the hash and the statement.            *)
(* GatewaySession composes it with the gateway that asks.                  *)
(***************************************************************************)
EXTENDS Naturals

CONSTANTS
    Tickets,     \* raw tickets; the generator never repeats one
    Actors,
    Gateways,
    Asks,        \* consumption calls of the gateways
    Ttl,         \* ttlMilliseconds of the policy
    MaxTime      \* bound: how far the clock runs

VARIABLES
    clock,    \* the wall clock, in units of the policy
    issue,    \* the issue call that made each raw ticket
    row,      \* gateway_tickets, by the ticket whose hash is the key
    ask       \* the consumption calls

Blank == "blank"        \* a presented ticket of white space only
Forged == "forged"      \* a presented ticket nobody issued
Presented == Tickets \cup {Blank, Forged}

NotIssued == [stage |-> "none"]
NoRow     == [actor |-> "none"]
NoAsk     == [stage |-> "none"]

TicketsInit ==
    /\ clock = 0
    /\ issue = [t \in Tickets |-> NotIssued]
    /\ row = [t \in Tickets |-> NoRow]
    /\ ask = [a \in Asks |-> NoAsk]

Tick ==
    /\ clock < MaxTime
    /\ clock' = clock + 1
    /\ UNCHANGED <<issue, row, ask>>

-----------------------------------------------------------------------------
(* Issue.                                                                  *)

\* Faulty: the lifetime is taken for the date.
TimestampsOfLifetime(now) == [issuedAt |-> now, expiresAt |-> Ttl]

Timestamps(now) == [issuedAt |-> now, expiresAt |-> now + Ttl]

\* The clock is read first; the gateway's assignment and the hash are awaited.
IssueTicket(t, actor, gateway) ==
    /\ issue[t] = NotIssued
    /\ issue' = [issue EXCEPT ![t] =
                   [stage |-> "saving", actor |-> actor, gateway |-> gateway,
                    times |-> Timestamps(clock)]]
    /\ UNCHANGED <<clock, row, ask>>

SaveIssuedTicket(t) ==
    /\ issue[t].stage = "saving"
    /\ row' = [row EXCEPT ![t] =
                 [actor |-> issue[t].actor, gateway |-> issue[t].gateway,
                  expiresAt |-> issue[t].times.expiresAt, consumedBy |-> {}]]
    /\ issue' = [issue EXCEPT ![t].stage = "issued"]
    /\ UNCHANGED <<clock, ask>>

\* The assigner, the hash or the insert throws, or the process stops: nobody
\* learns the raw ticket.  An insert whose answer is lost leaves the row.
IssueFails(t) ==
    /\ issue[t].stage = "saving"
    /\ \/ UNCHANGED row
       \/ row' = [row EXCEPT ![t] =
                    [actor |-> issue[t].actor, gateway |-> issue[t].gateway,
                     expiresAt |-> issue[t].times.expiresAt, consumedBy |-> {}]]
    /\ issue' = [issue EXCEPT ![t].stage = "failed"]
    /\ UNCHANGED <<clock, ask>>

-----------------------------------------------------------------------------
(* Consume.                                                                *)

\* A ticket is presented by whoever was handed it, as often as he likes.
CanPresent(t) == t \in Tickets => issue[t].stage = "issued"

AskToConsume(a, t, gateway) ==
    /\ ask[a] = NoAsk
    /\ CanPresent(t)
    /\ ask' = [ask EXCEPT ![a] =
                 [stage |-> IF t = Blank THEN "rejected" ELSE "hashing",
                  ticket |-> t, gateway |-> gateway, now |-> clock]]
    /\ UNCHANGED <<clock, issue, row>>

\* Faulty: the row is not asked whether it was consumed before.
ConsumableTwice(t, gateway, now) ==
    /\ t \in Tickets
    /\ row[t] /= NoRow
    /\ row[t].gateway = gateway
    /\ row[t].expiresAt > now

\* The condition of the one UPDATE; `now` was read before the hash was awaited.
Consumable(t, gateway, now) ==
    /\ t \in Tickets
    /\ row[t] /= NoRow
    /\ row[t].gateway = gateway
    /\ row[t].consumedBy = {}
    /\ row[t].expiresAt > now

ConsumeIssuedTicket(a) ==
    LET c == ask[a] IN
    /\ c.stage = "hashing"
    /\ IF Consumable(c.ticket, c.gateway, c.now)
       THEN /\ row' = [row EXCEPT ![c.ticket].consumedBy = @ \cup {a}]
            /\ ask' = [ask EXCEPT ![a].stage = "consumed"]
       ELSE /\ ask' = [ask EXCEPT ![a].stage = "rejected"]
            /\ UNCHANGED row
    /\ UNCHANGED <<clock, issue>>

\* The call fails before its statement: the hash or the connection throws, or
\* the API stops.
AskFails(a) ==
    /\ ask[a].stage = "hashing"
    /\ ask' = [ask EXCEPT ![a].stage = "failed"]
    /\ UNCHANGED <<clock, issue, row>>

TicketsStep ==
    \/ Tick
    \/ \E t \in Tickets : SaveIssuedTicket(t) \/ IssueFails(t)
    \/ \E t \in Tickets, x \in Actors, g \in Gateways : IssueTicket(t, x, g)
    \/ \E a \in Asks : ConsumeIssuedTicket(a) \/ AskFails(a)

-----------------------------------------------------------------------------

TicketsTypeOK ==
    /\ clock \in 0..MaxTime
    /\ \A t \in Tickets :
         /\ issue[t].stage \in {"none", "saving", "issued", "failed"}
         /\ row[t] /= NoRow => /\ row[t].actor \in Actors
                               /\ row[t].gateway \in Gateways
                               /\ row[t].consumedBy \subseteq Asks
    /\ \A a \in Asks :
         ask[a].stage \in {"none", "hashing", "consumed", "rejected", "failed"}

\* Of all the calls that present a ticket, on any gateway and in any order, at
\* most one is answered "consumed" (consume-gateway-ticket.kysely.ts:18), and
\* the row says which.
ConsumedOnce ==
    \A t \in Tickets :
        LET Winners == {a \in Asks : ask[a].stage = "consumed" /\ ask[a].ticket = t}
        IN /\ \A a, b \in Winners : a = b
           /\ row[t] /= NoRow => row[t].consumedBy = Winners

\* Who is admitted holds a ticket the API issued, on the gateway the issue call
\* assigned, by a request that began while the ticket was valid.
AdmittedAsIssued ==
    \A a \in Asks : ask[a].stage = "consumed" =>
        LET c == ask[a] IN
        /\ c.ticket \in Tickets /\ issue[c.ticket].stage = "issued"
        /\ c.gateway = issue[c.ticket].gateway
        /\ c.now \in issue[c.ticket].times.issuedAt..(issue[c.ticket].times.issuedAt + Ttl - 1)

\* A valid ticket that nobody else presented is not refused: the call that
\* presents it on its own gateway before it expires consumes it, unless the
\* call fails.
FirstComerAdmitted ==
    \A a \in Asks : ask[a].stage = "rejected" /\ ask[a].ticket \in Tickets =>
        LET c == ask[a] IN
        \/ c.gateway /= issue[c.ticket].gateway
        \/ c.now >= issue[c.ticket].times.issuedAt + Ttl
        \/ row[c.ticket].consumedBy \ {a} /= {}
=============================================================================
