----------------------------- MODULE RateLimiter -----------------------------
(***************************************************************************)
(* The rate limiter of the stream reads (distributed-rate-limiter.ts): one *)
(* token bucket per subject, kept in Redis.  A public read takes a token   *)
(* from the bucket of its actor and one from the bucket of its address, a  *)
(* sync takes one from a third kind; a script that Redis runs as one step  *)
(* decides over all the buckets of a request.  Several API processes share *)
(* the buckets, and the answer of Redis may be lost.                       *)
(*                                                                         *)
(* Time is counted in milliseconds, and the clock of Redis does not go     *)
(* back.  Fractions of tokens are exact (Redis keeps 14 digits): a bucket  *)
(* holds units, Window of which make a token.                              *)
(***************************************************************************)
EXTENDS Integers, FiniteSets, Sequences

CONSTANTS
    Actors, Addresses,                              \* of the public reads
    Syncers,                                        \* actors of the syncs
    ActorCapacity, AddressCapacity, SyncCapacity,   \* tokens of a full bucket
    Window,                                         \* ms to fill an empty one
    Horizon                                         \* bound: the last ms

ASSUME LimitsAssumption ==
    {ActorCapacity, AddressCapacity, SyncCapacity, Window, Horizon} \subseteq Nat \ {0}

VARIABLES
    now,
    buckets,     \* the buckets Redis holds: units and the ms of the last update
    admitted,    \* history: for every bucket, the ms of every token taken
    promised     \* history: when a refused request was told to come again

limiterVars == <<now, buckets, admitted, promised>>

Keys ==
    ({"public-actor"} \X Actors) \cup ({"public-ip"} \X Addresses)
        \cup ({"sync-actor"} \X Syncers)

\* What a request is made of: the buckets it takes a token from.
PublicRead(actor, address) == {<<"public-actor", actor>>, <<"public-ip", address>>}
Sync(actor) == {<<"sync-actor", actor>>}

Charges ==
    {PublicRead(a, i) : a \in Actors, i \in Addresses} \cup {Sync(a) : a \in Syncers}

Capacity(k) ==
    CASE k[1] = "public-actor" -> ActorCapacity
      [] k[1] = "public-ip"    -> AddressCapacity
      [] k[1] = "sync-actor"   -> SyncCapacity

Cost == Window
NotPromised == -1

LimiterTypeOK ==
    /\ now \in 0..Horizon
    /\ DOMAIN buckets \subseteq Keys
    /\ \A k \in DOMAIN buckets :
          /\ buckets[k].units \in 0..(Capacity(k) * Window)
          /\ buckets[k].at \in 0..now
    /\ admitted \in [Keys -> Seq(0..Horizon)]
    /\ \A r \in Charges : promised[r] = NotPromised \/ promised[r] \in Nat

LimiterInit ==
    /\ now = 0
    /\ buckets = [k \in {} |-> [units |-> 0, at |-> 0]]
    /\ admitted = [k \in Keys |-> <<>>]
    /\ promised = [r \in Charges |-> NotPromised]

-----------------------------------------------------------------------------
(***************************************************************************)
(* The script                                                              *)
(***************************************************************************)
Least(a, b) == IF a < b THEN a ELSE b
Greatest(S) == CHOOSE m \in S : \A n \in S : n <= m

\* What a bucket holds now: it starts full and fills at a steady rate.
Units(k) ==
    IF k \notin DOMAIN buckets THEN Capacity(k) * Window
    ELSE Least(Capacity(k) * Window,
               buckets[k].units + (now - buckets[k].at) * Capacity(k))

\* ms until the bucket holds a token, rounded up.
RetryAfter(k) ==
    IF Units(k) < Cost
    THEN (Cost - Units(k) + Capacity(k) - 1) \div Capacity(k)
    ELSE 0

Allowed(r) == \A k \in r : Units(k) >= Cost

\* Faulty: the buckets that can pay do, whatever the others say.
EachPays(r, k) == IF Units(k) >= Cost THEN Cost ELSE 0

\* What a request takes from a bucket: nothing unless every bucket can pay.
Taken(r, k) == IF Allowed(r) THEN Cost ELSE 0

Wait(r) == Greatest({RetryAfter(k) : k \in r})

\* The script writes every bucket of the request, refused or not.
Run(r) ==
    /\ buckets' = [k \in DOMAIN buckets \cup r |->
                     IF k \in r THEN [units |-> Units(k) - Taken(r, k), at |-> now]
                                ELSE buckets[k]]
    /\ admitted' = [k \in Keys |->
                     IF k \in r /\ Allowed(r) THEN Append(admitted[k], now)
                                              ELSE admitted[k]]

\* A token taken from one of its buckets voids what a request was told.
StillPromised(r) ==
    [q \in Charges |-> IF Allowed(r) /\ q \cap r # {} THEN NotPromised ELSE promised[q]]

\* Redis answers: the request goes on, or is refused with the ms to wait.
Consume(r) ==
    /\ Run(r)
    /\ promised' = IF Allowed(r) THEN StillPromised(r)
                                 ELSE [promised EXCEPT ![r] = now + Wait(r)]
    /\ UNCHANGED now

\* The script ran and its answer is lost: the request fails with
\* StreamMessagesRateLimitUnavailableError, and its tokens are gone.
ConsumeUnanswered(r) ==
    /\ Run(r) /\ promised' = StillPromised(r) /\ UNCHANGED now

\* Faulty: a bucket lives for half the time it takes to fill it.
ShortLife == Window \div 2

\* PEXPIRE: the life of a bucket nobody uses.
Life == 2 * Window

\* A millisecond passes; Redis drops the buckets nobody used for Life ms.
Tick ==
    /\ now < Horizon /\ now' = now + 1
    /\ buckets' = [k \in {k \in DOMAIN buckets : now' - buckets[k].at < Life} |-> buckets[k]]
    /\ UNCHANGED <<admitted, promised>>

LimiterNext ==
    \/ Tick
    \/ \E r \in Charges : Consume(r) \/ ConsumeUnanswered(r)

LimiterSpec == LimiterInit /\ [][LimiterNext]_limiterVars

-----------------------------------------------------------------------------
(***************************************************************************)
(* Properties                                                              *)
(***************************************************************************)

\* In any span of time a subject gets no more than a full bucket and what
\* flows in meanwhile: the fill, the cap, the charge and the expiry of the
\* key in Redis together (the script of distributed-rate-limiter.ts).
BoundedAdmission ==
    \A k \in Keys : \A i, j \in DOMAIN admitted[k] : i <= j =>
        (j - i + 1) * Window
            <= Capacity(k) * Window + Capacity(k) * (admitted[k][j] - admitted[k][i])

\* The buckets keep their types and bound what they admit.
BucketsAreSound == LimiterTypeOK /\ BoundedAdmission

\* retryAfterMs is exact: a refused request is refused until then and allowed
\* from then on, unless another request takes from its buckets.  So the
\* refused requests of others cost it nothing, and a wait of 0 ms, which
\* parseRedisResult takes for a failure of Redis, is never given.
RetryIsExact ==
    \A r \in Charges : promised[r] # NotPromised =>
        (Allowed(r) <=> now >= promised[r])

=============================================================================
