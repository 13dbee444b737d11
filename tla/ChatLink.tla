------------------------------ MODULE ChatLink ------------------------------
(***************************************************************************)
(* What the realtime connection promises to the code above it: a status    *)
(* closed, connecting or ready; a generation of its own for every period   *)
(* in which it is ready; and requests that wait only while it is ready, on *)
(* the generation they were sent on.  RealtimeSession implements it.       *)
(***************************************************************************)
EXTENDS Naturals

CONSTANT Requests

VARIABLES status, generation, waiting

vars == <<status, generation, waiting>>

NoGeneration == 0

TypeOK ==
    /\ status \in {"closed", "connecting", "ready"}
    /\ generation \in Nat
    /\ waiting \subseteq Requests

Init == status = "closed" /\ generation = NoGeneration /\ waiting = {}

Open ==
    /\ status = "closed" /\ status' = "connecting"
    /\ UNCHANGED <<generation, waiting>>

\* The generation of a new period of readiness was never used before.
Establish ==
    /\ status = "connecting" /\ status' = "ready"
    /\ generation' \in Nat /\ generation' > generation
    /\ UNCHANGED waiting

\* No request survives the connection it was sent on.
Lose ==
    /\ status = "ready" /\ status' = "connecting"
    /\ waiting' = {} /\ UNCHANGED generation

GiveUp ==
    /\ status = "connecting" /\ status' = "closed"
    /\ UNCHANGED <<generation, waiting>>

Close ==
    /\ status # "closed" /\ status' = "closed"
    /\ waiting' = {} /\ UNCHANGED generation

Ask(r) ==
    /\ status = "ready" /\ r \notin waiting
    /\ waiting' = waiting \cup {r}
    /\ UNCHANGED <<status, generation>>

Settle(r) ==
    /\ r \in waiting
    /\ waiting' = waiting \ {r}
    /\ UNCHANGED <<status, generation>>

Next ==
    \/ Open \/ Establish \/ Lose \/ GiveUp \/ Close
    \/ \E r \in Requests : Ask(r) \/ Settle(r)

Spec == Init /\ [][Next]_vars

\* A request waits only while the connection is ready.
OnlyReadyWaits == waiting # {} => status = "ready"

=============================================================================
