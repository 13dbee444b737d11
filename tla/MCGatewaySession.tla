-------------------------- MODULE MCGatewaySession --------------------------
(* Two sockets, and a socket of another gateway, all alike; and a gateway   *)
(* with one session in the channel and one socket to come, for the commands *)
(* that follow.  The symmetry is used for the checks of safety only.        *)
EXTENDS GatewaySession, TLC

Symmetry == Permutations(Tickets) \cup Permutations(Sockets)

\* Every ticket has been issued for this gateway, and the listener has come
\* with one of them, joined the channels and sent a message to one, which the
\* gateway relays.
JoinedInit ==
    LET listener == CHOOSE s \in Sockets : TRUE
        spent == CHOOSE t \in Tickets : TRUE
        actor == CHOOSE u \in Actors : TRUE
        first == CHOOSE c \in Calls : TRUE
        IfListener(yes, no) == [s \in Sockets |-> IF s = listener THEN yes ELSE no]
    IN
    /\ clock = 0
    /\ issue = [t \in Tickets |->
         [stage |-> "issued", actor |-> actor, gateway |-> Self, times |-> Api!Timestamps(0)]]
    /\ row = [t \in Tickets |->
         [actor |-> actor, gateway |-> Self, expiresAt |-> Api!Timestamps(0).expiresAt,
          consumedBy |-> IF t = spent THEN {listener} ELSE {}]]
    /\ ask = [a \in Sockets \cup Elsewhere |->
         IF a = listener
         THEN [stage |-> "consumed", ticket |-> spent, gateway |-> Self, now |-> 0]
         ELSE Api!NoAsk]
    /\ socket = IfListener("open", "http")
    /\ auth = IfListener("over", "none")
    /\ session = IfListener([state |-> "ready", connectedEventSent |-> TRUE,
                             actor |-> actor, channels |-> Channels], NoSession)
    /\ sessions = {listener}
    /\ told = [s \in Sockets |-> 0]
    /\ wire = IfListener(<<Connected>>, <<>>)
    /\ call = [c \in Calls |->
         IF c = first
         THEN [from |-> listener, key |-> CHOOSE k \in Keys : TRUE,
               target |-> CHOOSE g \in Channels : TRUE, stage |-> "api"]
         ELSE NoCall]
    /\ stored = [k \in {} |-> Thread]
    /\ shutdown = "serving"

JoinedSpec == JoinedInit /\ [][Next]_vars /\ Fairness
=============================================================================
