------------------------ MODULE StreamReads_proofs ------------------------
(***************************************************************************)
(* Proofs about the stream reads: for any sizes of texts, pages and        *)
(* envelopes, and however the stream is written to meanwhile, a page shows *)
(* what one look at the stream would, the pages of a chain join, and who   *)
(* may not read learns nothing.  Below, the relay that carries sync        *)
(* requests through the gateway to the API (GatewayRelay): for any number  *)
(* of sessions, targets and requests, its map holds the requests under way *)
(* and nothing else as long as no rate limiter is given, and, with one or  *)
(* without, no request is answered twice and none takes the entry of       *)
(* another.                                                                *)
(***************************************************************************)
EXTENDS StreamReads, GatewayRelay, SequenceTheorems, FiniteSetTheorems,
        WellFoundedInduction, TLAPS

-----------------------------------------------------------------------------
(* Logs, and the messages that a read covers.                              *)

Rows == [seq : Nat, text : Sizes \cup {NoText}, edited : BOOLEAN, deleted : BOOLEAN]

\* Deletion and content agree in every row, and row n has the sequence n.
IsLog(s) ==
    /\ s \in Seq(Rows)
    /\ \A n \in 1..Len(s) : s[n].seq = n /\ IsSound(s[n])

\* The messages that a page may show, before it is fitted.
FromOf(q, through) ==
    CASE q.kind = "latest" -> through - Min({through, LatestCount}) + 1
      [] q.kind = "older" -> q.before - Min({q.before - 1, q.limit})
      [] q.kind = "sync" -> q.after + 1

ToOf(q, through) ==
    CASE q.kind = "latest" -> through
      [] q.kind = "older" -> q.before - 1
      [] q.kind = "sync" -> q.after + Min({through - q.after, q.limit})

IsQuery(q) == q \in Queries /\ IsAdmitted(q)

\* Messages i to j answer the query, and the page stands in a stream of head
\* messages.
IsPage(q, page, i, j, head) ==
    /\ Seqs(page.messages) = [n \in 1..j - i + 1 |-> i + n - 1]
    /\ 1 <= i /\ i <= j + 1 /\ j <= head
    /\ page.more \in BOOLEAN
    /\ page.more => i <= j
    /\ CASE q.kind = "latest" ->
              /\ page.through = j
              /\ page.more <=> i <= j /\ i > 1
              /\ i = j + 1 => j = 0
              /\ page.more => page.next = i
         [] q.kind = "older" ->
              /\ j = q.before - 1
              /\ page.more <=> i <= j /\ i > 1
              /\ i = j + 1 => j = 0
              /\ page.more => page.next = i
         [] q.kind = "sync" ->
              /\ i = q.after + 1
              /\ page.through \in Nat /\ page.through <= head
              /\ q.through # NoCursor => page.through = q.through
              /\ page.next = IF i <= j THEN j ELSE page.through
              /\ page.more <=> page.next < page.through
              /\ i = j + 1 => page.through = q.after
              /\ page.next <= page.through

\* A read by its stage: it was asked, its metadata are read, its rows are read,
\* or it is answered.  No cursor of it is ahead of the snapshot.
IsAsked(r) ==
    /\ r.stage \in {"resolve", "authorize", "metadata"}
    /\ r = [stage |-> r.stage, query |-> r.query]

IsLookedUp(r, head) ==
    /\ IsLog(r.snapshot) /\ Len(r.snapshot) <= head
    /\ ~IsAhead(r.query, Len(r.snapshot))
    /\ r.through = Through(r.query, Len(r.snapshot))

IsReading(r, head) ==
    /\ r.stage = "rows"
    /\ IsLookedUp(r, head)
    /\ ~IsEmpty(r.query, Len(r.snapshot), r.through)

IsFitting(r, head) ==
    /\ r.stage = "fit"
    /\ IsLookedUp(r, head)
    /\ r.rows = Messages(r.snapshot, FromOf(r.query, r.through), ToOf(r.query, r.through))

IsAnswered(r, head, c) ==
    /\ r.stage = "answered"
    /\ \/ r.outcome \in {StreamUnavailable, IntegrityError, Unanswered}
       \/ r.outcome = InvalidCursor /\ c.seen = <<>>
       \/ /\ r.outcome.status = "page"
          /\ \E i, j \in Nat : IsPage(r.query, r.outcome.page, i, j, head)

ReadFits(r, head, c) ==
    \/ r = NoRead
    \/ /\ IsQuery(r.query)
       /\ \/ IsAsked(r)
          \/ IsReading(r, head)
          \/ IsFitting(r, head)
          \/ IsAnswered(r, head, c)

\* What is read for a stranger is refused.
TrustFits(r, m, t) ==
    /\ r.stage # "none" /\ m => t
    /\ r.stage \in {"metadata", "rows", "fit"} => t
    /\ r.stage = "answered" /\ r.outcome \notin {StreamUnavailable, Unanswered} => t

IsChain(c) ==
    \/ c = NoChain
    \/ c \in [status : {"reading", "complete", "stream_unavailable", "invalid_cursor"},
              from : Int, through : Int, seen : Seq(Int)]

\* Where the chain stands is where the query goes on.
Stands(c, q, head) ==
    CASE q.kind = "latest" -> c.seen = <<>> /\ c.through = NoCursor
      [] q.kind = "older" ->
            /\ c.through = NoCursor
            /\ c.seen = <<>> => c.from = q.before
            /\ c.seen # <<>> =>
                  /\ Head(c.seen) = q.before
                  /\ Last(c.seen) = c.from - 1
                  /\ q.before <= head
      [] q.kind = "sync" ->
            /\ c.through = NoCursor => c.seen = <<>> /\ c.from = q.after
            /\ c.through # NoCursor =>
                  /\ c.seen # <<>>
                  /\ Head(c.seen) = c.from + 1
                  /\ Last(c.seen) = q.after
                  /\ q.through = c.through
                  /\ c.through <= head

ChainFits(c, r, head) == r.stage # "none" => c.status = "reading" /\ Stands(c, r.query, head)

\* ChainsAreSound, of any chain.
SoundChain(c) ==
    /\ c.status \in {"reading", "complete"} =>
         /\ IsRun(c.seen)
         /\ (c.through # NoCursor /\ c.seen # <<>>) => Head(c.seen) = c.from + 1
         /\ (c.through = NoCursor /\ c.seen # <<>>) => Last(c.seen) = c.from - 1
         /\ c.status = "complete" =>
              IF c.through # NoCursor
              THEN c.through = IF c.seen = <<>> THEN c.from ELSE Last(c.seen)
              ELSE c.from = 1 \/ (c.seen # <<>> /\ Head(c.seen) = 1)
    /\ c.status = "invalid_cursor" => c.seen = <<>>

WorldFits ==
    /\ target \in {"channel", "thread"}
    /\ member \in BOOLEAN
    /\ trusted \in BOOLEAN
    /\ IsLog(log)
    /\ Len(log) <= MaxLog
    /\ changes \in 0..MaxChanges
    /\ failures \in 0..MaxFailures

\* The inductive invariant.
IInv ==
    /\ WorldFits
    /\ ReadFits(read, Len(log), chain)
    /\ TrustFits(read, member, trusted)
    /\ IsChain(chain)
    /\ ChainFits(chain, read, Len(log))
    /\ SoundChain(chain)

-----------------------------------------------------------------------------
(* Extreme elements, and intervals.                                        *)

\* The least number of a set is what Min finds.
LEMMA MinIs ==
    ASSUME NEW S, S \subseteq Int, NEW m \in S, \A y \in S : m <= y
    PROVE  Min(S) = m
<1>1. \E x \in S : \A y \in S : x <= y
  OBVIOUS
<1>2. Min(S) \in S /\ \A y \in S : Min(S) <= y
  BY <1>1 DEF Min
<1>3. Min(S) \in Int /\ m \in Int /\ m <= Min(S) /\ Min(S) <= m
  BY <1>2
<1> QED
  BY <1>3

\* The greatest number of a set is what Max finds.
LEMMA MaxIs ==
    ASSUME NEW S, S \subseteq Int, NEW m \in S, \A y \in S : y <= m
    PROVE  Max(S) = m
<1>1. \E x \in S : \A y \in S : x >= y
  OBVIOUS
<1>2. Max(S) \in S /\ \A y \in S : Max(S) >= y
  BY <1>1 DEF Max
<1>3. Max(S) \in Int /\ m \in Int /\ m <= Max(S) /\ Max(S) <= m
  BY <1>2
<1> QED
  BY <1>3

LEMMA MinOfTwo ==
    ASSUME NEW a \in Int, NEW b \in Int
    PROVE  Min({a, b}) = IF a <= b THEN a ELSE b
<1>1. CASE a <= b
  BY <1>1, MinIs
<1>2. CASE ~(a <= b)
  BY <1>2, MinIs
<1> QED
  BY <1>1, <1>2

LEMMA MaxOfTwo ==
    ASSUME NEW a \in Int, NEW b \in Int
    PROVE  Max({a, b}) = IF a >= b THEN a ELSE b
<1>1. CASE a >= b
  BY <1>1, MaxIs
<1>2. CASE ~(a >= b)
  BY <1>2, MaxIs
<1> QED
  BY <1>1, <1>2

\* A nonempty set of natural numbers has a smallest element.
LEMMA SmallestElement ==
    ASSUME NEW T \in SUBSET Nat, T # {}
    PROVE  \E m \in T : \A n \in T : m <= n
<1>1. PICK m \in T : \A n \in T : <<n, m>> \notin OpToRel(<, Nat)
  BY WFMin, NatLessThanWellFounded, Zenon
<1>2. \A n \in T : ~(n < m)
  BY <1>1, Zenon DEF OpToRel
<1> QED BY <1>2

-----------------------------------------------------------------------------
(* What the second statement finds.                                        *)

\* The rows at the positions of an interval are a part of the log.
LEMMA AtInterval ==
    ASSUME NEW R, NEW s \in Seq(R), NEW a \in Nat, NEW b \in Nat,
           1 <= a, a <= b + 1, b <= Len(s)
    PROVE  At(s, a..b) = SubSeq(s, a, b)
<1> DEFINE upTo(n) == SubSeq(s, a, IF n <= b THEN n ELSE b)
           IsAt(f) == f = [n \in 0..Len(s) |-> IF n = 0 THEN <<>>
                                               ELSE IF n \in a..b THEN Append(f[n - 1], s[n])
                                               ELSE f[n - 1]]
           w == [n \in 0..Len(s) |-> upTo(n)]
           at == CHOOSE f : IsAt(f)
<1>1. IsAt(w)
  <2>1. upTo(0) = <<>>
    OBVIOUS
  <2>2. ASSUME NEW n \in 1..Len(s), n \in a..b
        PROVE  upTo(n) = Append(upTo(n - 1), s[n])
    <3>1. n <= b /\ n - 1 <= b /\ n \in Nat /\ n - 1 \in Nat /\ a <= (n - 1) + 1 /\ n <= Len(s)
      BY <2>2
    <3>2. upTo(n) = SubSeq(s, a, n) /\ upTo(n - 1) = SubSeq(s, a, n - 1)
      BY <3>1
    <3>3. SubSeq(s, a, n) = Append(SubSeq(s, a, n - 1), s[n])
      BY <3>1
    <3> QED
      BY <3>2, <3>3
  <2>3. ASSUME NEW n \in 1..Len(s), n \notin a..b
        PROVE  upTo(n) = upTo(n - 1)
    <3>1. CASE n < a
      BY <3>1
    <3>2. CASE n > b
      BY <3>2
    <3> QED
      BY <2>3, <3>1, <3>2
  <2>4. \A n \in 0..Len(s) : w[n] = upTo(n) /\ (n # 0 => w[n - 1] = upTo(n - 1))
    OBVIOUS
  <2> HIDE DEF upTo
  <2>5. \A n \in 0..Len(s) :
           upTo(n) = IF n = 0 THEN <<>>
                     ELSE IF n \in a..b THEN Append(w[n - 1], s[n])
                     ELSE w[n - 1]
    BY <2>1, <2>2, <2>3, <2>4
  <2> QED
    BY <2>5
<1>2. IsAt(at)
  BY <1>1, Zenon
<1>3. \A n \in 0..Len(s) : at[n] = w[n]
  <2> HIDE DEF at, w
  <2> DEFINE T == {n \in 0..Len(s) : at[n] # w[n]}
  <2>1. SUFFICES ASSUME T # {} PROVE FALSE
    OBVIOUS
  <2>2. PICK m \in T : \A n \in T : m <= n
    <3>1. T \in SUBSET Nat
      OBVIOUS
    <3> QED
      BY <3>1, <2>1, SmallestElement
  <2>3. m # 0
    BY <1>1, <1>2
  <2>4. m - 1 \in 0..Len(s) /\ m - 1 \notin T
    BY <2>2, <2>3
  <2> QED
    BY <2>3, <2>4, <1>1, <1>2
<1>4. At(s, a..b) = at[Len(s)]
  BY DEF At
<1> HIDE DEF at
<1>5. at[Len(s)] = SubSeq(s, a, b)
  BY <1>3
<1> QED
  BY <1>4, <1>5

\* The part of a part.
LEMMA PartOfPart ==
    ASSUME NEW R, NEW s \in Seq(R), NEW a \in Nat, NEW b \in Nat,
           1 <= a, a <= b + 1, b <= Len(s),
           NEW c \in Nat, NEW d \in Nat, 1 <= c, c <= d + 1, d <= b - a + 1
    PROVE  SubSeq(SubSeq(s, a, b), c, d) = SubSeq(s, a + c - 1, a + d - 1)
<1>1. /\ SubSeq(s, a, b) \in Seq(R)
      /\ Len(SubSeq(s, a, b)) = b - a + 1
      /\ \A n \in 1..b - a + 1 : SubSeq(s, a, b)[n] = s[a + n - 1]
  OBVIOUS
<1> DEFINE t == SubSeq(s, a, b)
<1>2. t \in Seq(R) /\ Len(t) = b - a + 1 /\ \A n \in 1..b - a + 1 : t[n] = s[a + n - 1]
  BY <1>1
<1> HIDE DEF t
<1>3. /\ SubSeq(t, c, d) \in Seq(R)
      /\ Len(SubSeq(t, c, d)) = d - c + 1
      /\ \A n \in 1..d - c + 1 : SubSeq(t, c, d)[n] = t[c + n - 1]
  BY <1>2
<1>4. /\ SubSeq(s, a + c - 1, a + d - 1) \in Seq(R)
      /\ Len(SubSeq(s, a + c - 1, a + d - 1)) = d - c + 1
      /\ \A n \in 1..d - c + 1 : SubSeq(s, a + c - 1, a + d - 1)[n] = s[a + c - 1 + n - 1]
  OBVIOUS
<1>5. \A n \in 1..d - c + 1 : SubSeq(t, c, d)[n] = SubSeq(s, a + c - 1, a + d - 1)[n]
  <2> SUFFICES ASSUME NEW n \in 1..d - c + 1
               PROVE  SubSeq(t, c, d)[n] = SubSeq(s, a + c - 1, a + d - 1)[n]
    OBVIOUS
  <2>1. c + n - 1 \in 1..b - a + 1 /\ a + (c + n - 1) - 1 = a + c - 1 + n - 1
    OBVIOUS
  <2>2. t[c + n - 1] = s[a + c - 1 + n - 1]
    BY <2>1, <1>2
  <2> QED
    BY <2>2, <1>3, <1>4
<1>6. SubSeq(t, c, d) = SubSeq(s, a + c - 1, a + d - 1)
  BY <1>3, <1>4, <1>5, SeqEqual
<1> QED
  BY <1>6 DEF t

\* The kinds of the queries, and what each of them holds.
LEMMA QueryShape ==
    ASSUME NEW q, IsQuery(q)
    PROVE  \/ q.kind = "latest"
           \/ /\ q.kind = "older" /\ q.before \in Nat /\ 1 <= q.before
              /\ q.limit \in Nat /\ 1 <= q.limit
           \/ /\ q.kind = "sync" /\ q.after \in Nat /\ q.through \in Nat \cup {NoCursor}
              /\ q.limit \in Nat /\ 1 <= q.limit
              /\ q.through # NoCursor => q.after <= q.through
<1>1. PageLimits \subseteq Nat \ {0} /\ MaxLog \in Nat
  BY BoundsAssumption
<1> QED
  BY <1>1 DEF IsQuery, IsAdmitted, Queries, Latest, Older, SyncAfter, Cursors, NoCursor

\* The messages of a run of rows.
Msgs == [seq : Nat, text : Sizes \cup {NoText}, stamps : SUBSET {"editedAt", "deletedAt"}]

LEMMA MessagesShape ==
    ASSUME NEW s, IsLog(s), NEW i \in Nat, NEW j \in Nat, 1 <= i, i <= j + 1, j <= Len(s)
    PROVE  /\ Messages(s, i, j) \in Seq(Msgs)
           /\ Len(Messages(s, i, j)) = j - i + 1
           /\ DOMAIN Messages(s, i, j) = 1..j - i + 1
           /\ \A n \in 1..j - i + 1 :
                 /\ Messages(s, i, j)[n] = MessageOf(s[i + n - 1])
                 /\ Messages(s, i, j)[n].seq = i + n - 1
                 /\ ValidMessage(Messages(s, i, j)[n])
<1>1. \A n \in 1..j - i + 1 : Messages(s, i, j)[n] = MessageOf(s[i + n - 1])
  BY DEF Messages
<1>2. \A k \in 1..Len(s) :
         MessageOf(s[k]) \in Msgs /\ MessageOf(s[k]).seq = k /\ ValidMessage(MessageOf(s[k]))
  <2> SUFFICES ASSUME NEW k \in 1..Len(s)
               PROVE  MessageOf(s[k]) \in Msgs /\ MessageOf(s[k]).seq = k /\ ValidMessage(MessageOf(s[k]))
    OBVIOUS
  <2>1. s[k] \in Rows /\ s[k].seq = k
    BY DEF IsLog
  <2>2. Stamps(s[k]) \in SUBSET {"editedAt", "deletedAt"}
    BY DEF Stamps
  <2>3. MessageOf(s[k]) \in Msgs
    BY <2>1, <2>2 DEF MessageOf, Msgs, Rows
  <2>4. ValidMessage(MessageOf(s[k]))
    BY DEF ValidMessage, MessageOf, Stamps
  <2> QED
    BY <2>1, <2>3, <2>4 DEF MessageOf
<1>3. \A n \in 1..j - i + 1 : i + n - 1 \in 1..Len(s)
  BY DEF IsLog
<1>4. \A n \in 1..j - i + 1 : Messages(s, i, j)[n] \in Msgs
  BY <1>1, <1>2, <1>3
<1>5. DOMAIN Messages(s, i, j) = 1..j - i + 1
  BY DEF Messages
<1>6. Messages(s, i, j) \in [1..j - i + 1 -> Msgs]
  BY <1>4, <1>5 DEF Messages
<1>7. j - i + 1 \in Nat
  OBVIOUS
<1>8. Messages(s, i, j) \in Seq(Msgs) /\ Len(Messages(s, i, j)) = j - i + 1
  BY <1>6, <1>7
<1> QED
  BY <1>1, <1>2, <1>3, <1>5, <1>8

\* Of the messages i to j, the newest k and the oldest k.
LEMMA PartOfMessages ==
    ASSUME NEW s, IsLog(s), NEW i \in Nat, NEW j \in Nat, 1 <= i, i <= j + 1, j <= Len(s),
           NEW k \in 0..j - i + 1
    PROVE  /\ Newest(Messages(s, i, j), k) = Messages(s, j - k + 1, j)
           /\ Oldest(Messages(s, i, j), k) = Messages(s, i, i + k - 1)
<1> DEFINE ms == Messages(s, i, j)
<1>1. /\ ms \in Seq(Msgs)
      /\ Len(ms) = j - i + 1
      /\ \A n \in 1..j - i + 1 : ms[n] = MessageOf(s[i + n - 1])
  BY MessagesShape
<1> HIDE DEF ms
<1>2. Newest(ms, k) = Messages(s, j - k + 1, j)
  <2> DEFINE a == j - i + 1 - k + 1
             b == j - i + 1
             t == SubSeq(ms, a, b)
             u == Messages(s, j - k + 1, j)
  <2>1. a \in Nat /\ b \in Nat /\ 1 <= a /\ a <= b + 1 /\ b - a + 1 = k
    OBVIOUS
  <2>2. t \in Seq(Msgs) /\ Len(t) = k /\ \A n \in 1..k : t[n] = ms[a + n - 1]
    BY <2>1, <1>1
  <2>3. u \in Seq(Msgs) /\ Len(u) = k /\ \A n \in 1..k : u[n] = MessageOf(s[j - k + 1 + n - 1])
    <3>1. j - k + 1 \in Nat /\ 1 <= j - k + 1 /\ j - k + 1 <= j + 1 /\ j - (j - k + 1) + 1 = k
      OBVIOUS
    <3> QED
      BY <3>1, MessagesShape
  <2>4. \A n \in 1..k : t[n] = u[n]
    <3> SUFFICES ASSUME NEW n \in 1..k PROVE t[n] = u[n]
      OBVIOUS
    <3>1. a + n - 1 \in 1..j - i + 1 /\ i + (a + n - 1) - 1 = j - k + 1 + n - 1
      OBVIOUS
    <3>2. ms[a + n - 1] = MessageOf(s[j - k + 1 + n - 1])
      BY <3>1, <1>1
    <3> HIDE DEF t, u
    <3> QED
      BY <3>2, <2>2, <2>3
  <2>5. t = u
    <3> HIDE DEF t, u
    <3> QED
      BY <2>2, <2>3, <2>4, SeqEqual
  <2> QED
    BY <2>5, <1>1 DEF Newest
<1>3. Oldest(ms, k) = Messages(s, i, i + k - 1)
  <2> DEFINE t == SubSeq(ms, 1, k)
             u == Messages(s, i, i + k - 1)
  <2>2. t \in Seq(Msgs) /\ Len(t) = k /\ \A n \in 1..k : t[n] = ms[n]
    BY <1>1
  <2>3. u \in Seq(Msgs) /\ Len(u) = k /\ \A n \in 1..k : u[n] = MessageOf(s[i + n - 1])
    <3> DEFINE e == i + k - 1
    <3>1. e \in Nat /\ i <= e + 1 /\ e - i + 1 = k /\ e <= Len(s)
      BY DEF IsLog
    <3> HIDE DEF e
    <3>2. \A n \in 1..e - i + 1 : Messages(s, i, e)[n] = MessageOf(s[i + n - 1])
      BY <3>1, MessagesShape
    <3>3. Messages(s, i, e) \in Seq(Msgs) /\ Len(Messages(s, i, e)) = e - i + 1
      BY <3>1, MessagesShape
    <3> QED
      BY <3>1, <3>2, <3>3 DEF e
  <2>4. \A n \in 1..k : t[n] = u[n]
    <3> SUFFICES ASSUME NEW n \in 1..k PROVE t[n] = u[n]
      OBVIOUS
    <3>1. n \in 1..j - i + 1
      OBVIOUS
    <3>2. ms[n] = MessageOf(s[i + n - 1])
      BY <3>1, <1>1
    <3> HIDE DEF t, u
    <3> QED
      BY <3>2, <2>2, <2>3
  <2>5. t = u
    <3> HIDE DEF t, u
    <3> QED
      BY <2>2, <2>3, <2>4, SeqEqual
  <2> QED
    BY <2>5 DEF Oldest
<1> QED
  BY <1>2, <1>3 DEF ms

\* Of L rows a statement finds m, one more than asked for, and a page shows k.
IsCut(L, limit, m, k) ==
    /\ m = Min({limit + 1, L}) /\ m = Min({L, limit + 1})
    /\ k = Min({limit, L}) /\ k = Min({L, limit}) /\ k = Min({limit, m})
    /\ 1 <= k /\ k <= m /\ m <= L
    /\ (m = L \/ m = limit + 1)

LEMMA CutExists ==
    ASSUME NEW L \in Nat, 1 <= L, NEW limit \in Nat, 1 <= limit
    PROVE  \E m, k \in Nat : IsCut(L, limit, m, k)
<1>1. CASE limit + 1 <= L
  <2>1. Min({limit + 1, L}) = limit + 1 /\ Min({L, limit + 1}) = limit + 1
    BY <1>1, MinOfTwo
  <2>2. Min({limit, L}) = limit /\ Min({L, limit}) = limit /\ Min({limit, limit + 1}) = limit
    BY <1>1, MinOfTwo
  <2>3. IsCut(L, limit, limit + 1, limit)
    BY <1>1, <2>1, <2>2 DEF IsCut
  <2> QED
    BY <2>3
<1>2. CASE ~(limit + 1 <= L)
  <2>1. Min({limit + 1, L}) = L /\ Min({L, limit + 1}) = L
    BY <1>2, MinOfTwo
  <2>2. Min({limit, L}) = L /\ Min({L, limit}) = L
    BY <1>2, MinOfTwo
  <2>3. IsCut(L, limit, L, L)
    BY <1>2, <2>1, <2>2 DEF IsCut
  <2> QED
    BY <2>3
<1> QED
  BY <1>1, <1>2

\* ORDER BY the sequence from the last, LIMIT one more than asked for; then
\* only as many as asked for.
NewestAre(s, L, limit, a, m, k) ==
    /\ 1 <= a /\ a <= L /\ a = L - m + 1
    /\ IsCut(L, limit, m, k)
    /\ Newest(At(s, 1..L), Min({limit + 1, Len(At(s, 1..L))})) = SubSeq(s, a, L)
    /\ Newest(Messages(s, a, L), Min({limit, Len(Messages(s, a, L))})) = Messages(s, L - k + 1, L)

LEMMA NewestPart ==
    ASSUME NEW s, IsLog(s), NEW L \in Nat, 1 <= L, L <= Len(s), NEW limit \in Nat, 1 <= limit
    PROVE  \E a, m, k \in Nat : NewestAre(s, L, limit, a, m, k)
<1>0. PICK m, k \in Nat : IsCut(L, limit, m, k)
  BY CutExists
<1>1. m = Min({limit + 1, L}) /\ 1 <= m /\ m <= L
  BY <1>0 DEF IsCut
<1>2. k = Min({limit, m}) /\ 1 <= k /\ k <= m
  BY <1>0 DEF IsCut
<1>3. PICK a \in 1..L : a = L - m + 1
  BY <1>1
<1>4. s \in Seq(Rows)
  BY DEF IsLog
<1>5. At(s, 1..L) = SubSeq(s, 1, L) /\ Len(SubSeq(s, 1, L)) = L
  <2>1. 1 \in Nat /\ 1 <= 1 /\ 1 <= L + 1
    OBVIOUS
  <2>2. At(s, 1..L) = SubSeq(s, 1, L)
    BY <1>4, <2>1, AtInterval
  <2> QED
    BY <2>2, <1>4
<1>6. Newest(SubSeq(s, 1, L), m) = SubSeq(s, a, L)
  <2>1. a \in Nat /\ 1 <= a /\ a <= L + 1 /\ L <= L - 1 + 1 /\ 1 + a - 1 = a /\ 1 + L - 1 = L
    OBVIOUS
  <2>2. SubSeq(SubSeq(s, 1, L), a, L) = SubSeq(s, 1 + a - 1, 1 + L - 1)
    BY <2>1, <1>4, PartOfPart
  <2> QED
    BY <2>1, <2>2, <1>3, <1>5 DEF Newest
<1>7. Len(Messages(s, a, L)) = m /\ Newest(Messages(s, a, L), k) = Messages(s, L - k + 1, L)
  <2>1. a \in Nat /\ 1 <= a /\ a <= L + 1 /\ L - a + 1 = m /\ k \in 0..L - a + 1
    BY <1>1, <1>2, <1>3
  <2>2. Len(Messages(s, a, L)) = L - a + 1
    BY <2>1, MessagesShape
  <2>3. Newest(Messages(s, a, L), k) = Messages(s, L - k + 1, L)
    BY <2>1, PartOfMessages
  <2> QED
    BY <2>1, <2>2, <2>3
<1>8. Newest(At(s, 1..L), Min({limit + 1, Len(At(s, 1..L))})) = SubSeq(s, a, L)
  BY <1>1, <1>5, <1>6
<1>9. Newest(Messages(s, a, L), Min({limit, Len(Messages(s, a, L))})) = Messages(s, L - k + 1, L)
  BY <1>2, <1>7
<1>10. a \in Nat /\ 1 <= a /\ a <= L
  OBVIOUS
<1> QED
  BY <1>0, <1>3, <1>8, <1>9, <1>10 DEF NewestAre

\* The same from the first sequence after i - 1 on.
OldestAre(s, i, j, limit, m, k) ==
    /\ IsCut(j - i + 1, limit, m, k)
    /\ Oldest(At(s, i..j), Min({limit + 1, Len(At(s, i..j))})) = SubSeq(s, i, i + m - 1)
    /\ Oldest(Messages(s, i, i + m - 1), Min({limit, Len(Messages(s, i, i + m - 1))}))
         = Messages(s, i, i + k - 1)

LEMMA OldestPart ==
    ASSUME NEW s, IsLog(s), NEW i \in Nat, NEW j \in Nat, 1 <= i, i <= j, j <= Len(s),
           NEW limit \in Nat, 1 <= limit
    PROVE  \E m, k \in Nat : OldestAre(s, i, j, limit, m, k)
<1>0. PICK L \in Nat : L = j - i + 1 /\ 1 <= L
  OBVIOUS
<1>11. PICK m, k \in Nat : IsCut(L, limit, m, k)
  BY <1>0, CutExists
<1>1. m = Min({limit + 1, L}) /\ 1 <= m /\ m <= L
  BY <1>11 DEF IsCut
<1>2. k = Min({limit, m}) /\ 1 <= k /\ k <= m
  BY <1>11 DEF IsCut
<1>3. PICK b \in i..j : b = i + m - 1
  BY <1>0, <1>1
<1>4. s \in Seq(Rows)
  BY DEF IsLog
<1>5. At(s, i..j) = SubSeq(s, i, j) /\ Len(SubSeq(s, i, j)) = L
  <2>1. i <= j + 1
    OBVIOUS
  <2>2. At(s, i..j) = SubSeq(s, i, j)
    BY <1>4, <2>1, AtInterval
  <2> QED
    BY <2>2, <1>4, <1>0
<1>6. Oldest(SubSeq(s, i, j), m) = SubSeq(s, i, b)
  <2>1. m \in Nat /\ 1 <= 1 /\ 1 <= m + 1 /\ m <= j - i + 1 /\ i + 1 - 1 = i /\ i + m - 1 = b
          /\ i <= j + 1
    BY <1>0, <1>1, <1>3
  <2>2. SubSeq(SubSeq(s, i, j), 1, m) = SubSeq(s, i + 1 - 1, i + m - 1)
    BY <2>1, <1>4, PartOfPart
  <2> QED
    BY <2>1, <2>2 DEF Oldest
<1>7. Len(Messages(s, i, b)) = m /\ Oldest(Messages(s, i, b), k) = Messages(s, i, i + k - 1)
  <2>1. b \in Nat /\ i <= b + 1 /\ b <= Len(s) /\ b - i + 1 = m /\ k \in 0..b - i + 1
    BY <1>1, <1>2, <1>3, <1>4, SMTT(20)
  <2>2. Len(Messages(s, i, b)) = b - i + 1
    BY <2>1, MessagesShape
  <2>3. Oldest(Messages(s, i, b), k) = Messages(s, i, i + k - 1)
    BY <2>1, PartOfMessages
  <2> QED
    BY <2>1, <2>2, <2>3
<1>8. Oldest(At(s, i..j), Min({limit + 1, Len(At(s, i..j))})) = SubSeq(s, i, i + m - 1)
  BY <1>1, <1>3, <1>5, <1>6
<1>9. Oldest(Messages(s, i, i + m - 1), Min({limit, Len(Messages(s, i, i + m - 1))}))
         = Messages(s, i, i + k - 1)
  BY <1>2, <1>3, <1>7
<1> QED
  BY <1>0, <1>11, <1>8, <1>9 DEF OldestAre

\* The reads find the rows that they expect to find, and show of them what
\* FromOf and ToOf say: one lemma for each kind of read.
Finds(q, through, s, a, b) ==
    /\ 1 <= a /\ a <= b /\ b <= Len(s)
    /\ Select(q, through, s) = SubSeq(s, a, b)
    /\ ExpectedWindow(q, through) = a..b
    /\ Shown(q, Messages(s, a, b)) = Messages(s, FromOf(q, through), ToOf(q, through))

LEMMA LatestFinds ==
    ASSUME NEW s, IsLog(s), NEW q, q.kind = "latest", NEW L \in Nat, L <= Len(s), Len(s) <= L, 1 <= L
    PROVE  \E a, b \in Nat : Finds(q, L, s, a, b)
<1>1. LatestCount \in Nat /\ 1 <= LatestCount
  BY LatestAssumption
<1>2. PICK a, m, k \in Nat : NewestAre(s, L, LatestCount, a, m, k)
  BY <1>1, NewestPart
<1>9. /\ 1 <= a /\ a <= L /\ a = L - m + 1 /\ m <= L
      /\ k = Min({L, LatestCount})
      /\ (m = L \/ m = LatestCount + 1)
      /\ Newest(At(s, 1..L), Min({LatestCount + 1, Len(At(s, 1..L))})) = SubSeq(s, a, L)
      /\ Newest(Messages(s, a, L), Min({LatestCount, Len(Messages(s, a, L))}))
           = Messages(s, L - k + 1, L)
  BY <1>2 DEF NewestAre, IsCut
<1>3. Max({1, L - LatestCount}) = a
  <2>1. Max({1, L - LatestCount}) = IF 1 >= L - LatestCount THEN 1 ELSE L - LatestCount
    BY <1>1, MaxOfTwo
  <2>2. m = Min({LatestCount + 1, L})
    BY <1>2 DEF NewestAre, IsCut
  <2>3. Min({LatestCount + 1, L}) = IF LatestCount + 1 <= L THEN LatestCount + 1 ELSE L
    BY <1>1, MinOfTwo
  <2>4. m = IF LatestCount + 1 <= L THEN LatestCount + 1 ELSE L
    BY <2>2, <2>3
  <2>5. a = IF 1 >= L - LatestCount THEN 1 ELSE L - LatestCount
    BY <2>4, <1>1, <1>2, <1>9
  <2> QED
    BY <2>1, <2>5
<1>4. {n \in DOMAIN s : InRange(q, L, s[n].seq)} = 1..L
  BY DEF InRange, IsLog
<1>5. Select(q, L, s) = SubSeq(s, a, L)
  BY <1>9, <1>4 DEF Select
<1>6. ExpectedWindow(q, L) = a..L
  BY <1>3 DEF ExpectedWindow
<1>7. FromOf(q, L) = L - k + 1 /\ ToOf(q, L) = L
  BY <1>2, <1>9 DEF FromOf, ToOf
<1>8. Shown(q, Messages(s, a, L)) = Messages(s, L - k + 1, L)
  BY <1>9 DEF Shown
<1> QED
  BY <1>2, <1>9, <1>5, <1>6, <1>7, <1>8 DEF Finds

LEMMA OlderFinds ==
    ASSUME NEW s, IsLog(s), NEW q, q.kind = "older", NEW through,
           NEW before \in Nat, q.before = before, 2 <= before, before <= Len(s) + 1,
           NEW limit \in Nat, q.limit = limit, 1 <= limit
    PROVE  \E a, b \in Nat : Finds(q, through, s, a, b)
<1>1. PICK L \in Nat : L = before - 1 /\ 1 <= L /\ L <= Len(s)
  <2>1. Len(s) \in Nat
    BY DEF IsLog
  <2> QED
    BY <2>1
<1>2. PICK a, m, k \in Nat : NewestAre(s, L, limit, a, m, k)
  BY <1>1, NewestPart
<1>9. /\ 1 <= a /\ a <= L /\ a = L - m + 1 /\ m = Min({L, limit + 1})
      /\ k = Min({L, limit})
      /\ Newest(At(s, 1..L), Min({limit + 1, Len(At(s, 1..L))})) = SubSeq(s, a, L)
      /\ Newest(Messages(s, a, L), Min({limit, Len(Messages(s, a, L))}))
           = Messages(s, L - k + 1, L)
  BY <1>2 DEF NewestAre, IsCut
<1>3. before - m = a
  BY <1>1, <1>9
<1>4. {n \in DOMAIN s : InRange(q, through, s[n].seq)} = 1..L
  <2>1. \A n \in DOMAIN s : s[n].seq = n /\ n \in Nat
    BY DEF IsLog
  <2>2. DOMAIN s = 1..Len(s) /\ Len(s) \in Nat
    BY DEF IsLog
  <2>3. \A n \in DOMAIN s : InRange(q, through, s[n].seq) <=> n < before
    BY <2>1 DEF InRange
  <2> QED
    BY <1>1, <2>2, <2>3
<1>5. Select(q, through, s) = SubSeq(s, a, L)
  BY <1>9, <1>4 DEF Select
<1>6. ExpectedWindow(q, through) = a..L
  BY <1>1, <1>3, <1>9 DEF ExpectedWindow
<1>7. FromOf(q, through) = L - k + 1 /\ ToOf(q, through) = L
  <2>1. before - k = L - k + 1
    BY <1>1
  <2> QED
    BY <1>1, <1>9, <2>1 DEF FromOf, ToOf
<1>8. Shown(q, Messages(s, a, L)) = Messages(s, L - k + 1, L)
  BY <1>9 DEF Shown
<1> QED
  BY <1>1, <1>9, <1>5, <1>6, <1>7, <1>8 DEF Finds

LEMMA SyncFinds ==
    ASSUME NEW s, IsLog(s), NEW q, q.kind = "sync",
           NEW after \in Nat, q.after = after, NEW through \in Nat, after < through, through <= Len(s),
           NEW limit \in Nat, q.limit = limit, 1 <= limit
    PROVE  \E a, b \in Nat : Finds(q, through, s, a, b)
<1>1. PICK i \in Nat : i = after + 1 /\ 1 <= i /\ i <= through /\ through - i + 1 = through - after
  OBVIOUS
<1>2. PICK m, k \in Nat : OldestAre(s, i, through, limit, m, k)
  BY <1>1, OldestPart
<1>10. /\ 1 <= k /\ k <= m /\ m <= through - i + 1
       /\ m = Min({through - i + 1, limit + 1})
       /\ k = Min({through - i + 1, limit})
       /\ Oldest(At(s, i..through), Min({limit + 1, Len(At(s, i..through))}))
            = SubSeq(s, i, i + m - 1)
       /\ Oldest(Messages(s, i, i + m - 1), Min({limit, Len(Messages(s, i, i + m - 1))}))
            = Messages(s, i, i + k - 1)
  BY <1>2 DEF OldestAre, IsCut
<1>4. {n \in DOMAIN s : InRange(q, through, s[n].seq)} = i..through
  <2>1. \A n \in DOMAIN s : s[n].seq = n /\ n \in Nat
    BY DEF IsLog
  <2>2. DOMAIN s = 1..Len(s) /\ Len(s) \in Nat
    BY DEF IsLog
  <2>3. \A n \in DOMAIN s : InRange(q, through, s[n].seq) <=> n \in i..through
    BY <1>1, <2>1 DEF InRange
  <2> QED
    BY <1>1, <2>2, <2>3
<1>3. PICK b \in Nat : b = i + m - 1 /\ b = after + m /\ i <= b /\ b <= through
  BY <1>1, <1>10, SMTT(20)
<1>5. Select(q, through, s) = SubSeq(s, i, b)
  BY <1>10, <1>3, <1>4 DEF Select
<1>6. ExpectedWindow(q, through) = i..b
  BY <1>1, <1>10, <1>3 DEF ExpectedWindow
<1>7. FromOf(q, through) = i /\ ToOf(q, through) = i + k - 1
  <2>1. after + k = i + k - 1
    BY <1>1
  <2> QED
    BY <1>1, <1>10, <2>1 DEF FromOf, ToOf
<1>8. Shown(q, Messages(s, i, b)) = Messages(s, i, i + k - 1)
  BY <1>10, <1>3 DEF Shown
<1>9. b <= Len(s)
  BY <1>3 DEF IsLog
<1> QED
  BY <1>1, <1>3, <1>5, <1>6, <1>7, <1>8, <1>9 DEF Finds

\* What is found are the expected rows, they are sound, and they become the
\* messages of their sequences.
LEMMA WindowIsFound ==
    ASSUME NEW s, IsLog(s), NEW a \in Nat, NEW b \in Nat, 1 <= a, a <= b, b <= Len(s)
    PROVE  /\ IsWindow(SubSeq(s, a, b), a..b)
           /\ \A n \in DOMAIN SubSeq(s, a, b) : IsSound(SubSeq(s, a, b)[n])
           /\ [n \in DOMAIN SubSeq(s, a, b) |-> MessageOf(SubSeq(s, a, b)[n])] = Messages(s, a, b)
<1>1. s \in Seq(Rows)
  BY DEF IsLog
<1> DEFINE t == SubSeq(s, a, b)
<1>2. Len(t) = b - a + 1 /\ DOMAIN t = 1..b - a + 1 /\ \A n \in 1..b - a + 1 : t[n] = s[a + n - 1]
  BY <1>1
<1> HIDE DEF t
<1>3. \A n \in 1..b - a + 1 : a + n - 1 \in 1..Len(s)
  BY <1>1
<1>4. \A n \in 1..b - a + 1 : t[n].seq = a + n - 1 /\ IsSound(t[n])
  BY <1>2, <1>3 DEF IsLog
<1>5. Cardinality(a..b) = b - a + 1
  BY FS_Interval
<1>6. Min(a..b) = a
  <2> DEFINE S == a..b
  <2>1. S \subseteq Int /\ a \in S /\ \A y \in S : a <= y
    OBVIOUS
  <2> HIDE DEF S
  <2>2. Min(S) = a
    BY <2>1, MinIs
  <2> QED
    BY <2>2 DEF S
<1>7. IsWindow(t, a..b)
  BY <1>2, <1>4, <1>5, <1>6 DEF IsWindow
<1>8. [n \in DOMAIN t |-> MessageOf(t[n])] = Messages(s, a, b)
  BY <1>2 DEF Messages
<1> QED
  BY <1>2, <1>4, <1>7, <1>8 DEF t

-----------------------------------------------------------------------------
(* The size of a page.                                                     *)

IsSum(f, n, g) == f = [k \in 0..n |-> Overhead + IF k = 0 THEN 0 ELSE f[k - 1] + g[k]]

\* Messages can be summed up one after the other.
LEMMA SumExists ==
    ASSUME NEW g, NEW n \in Nat
    PROVE  \E f : IsSum(f, n, g)
<1> DEFINE T == {m \in Nat : ~\E f : IsSum(f, m, g)}
<1>1. SUFFICES ASSUME T # {} PROVE FALSE
  OBVIOUS
<1>2. PICK m \in T : \A k \in T : m <= k
  <2>1. T \in SUBSET Nat
    OBVIOUS
  <2> QED
    BY <2>1, <1>1, SmallestElement
<1>3. m \in Nat /\ ~\E f : IsSum(f, m, g)
  OBVIOUS
<1>4. m # 0
  <2>1. IsSum([k \in 0..0 |-> Overhead + 0], 0, g)
    BY DEF IsSum
  <2> QED
    BY <2>1, <1>3
<1>5. PICK f : IsSum(f, m - 1, g)
  BY <1>2, <1>3, <1>4
<1> DEFINE h == [k \in 0..m |-> IF k = m THEN Overhead + (f[m - 1] + g[m]) ELSE f[k]]
<1>6. \A k \in 0..m : h[k] = Overhead + IF k = 0 THEN 0 ELSE h[k - 1] + g[k]
  <2> SUFFICES ASSUME NEW k \in 0..m
               PROVE  h[k] = Overhead + IF k = 0 THEN 0 ELSE h[k - 1] + g[k]
    OBVIOUS
  <2>1. CASE k = m
    BY <2>1, <1>3, <1>4
  <2>2. CASE k # m
    <3>1. k \in 0..m - 1 /\ (k # 0 => k - 1 \in 0..m - 1)
      BY <2>2, <1>3
    <3>2. f[k] = Overhead + IF k = 0 THEN 0 ELSE f[k - 1] + g[k]
      BY <3>1, <1>5 DEF IsSum
    <3>3. h[k] = f[k] /\ (k # 0 => h[k - 1] = f[k - 1])
      BY <3>1, <2>2, <1>3
    <3> QED
      BY <3>2, <3>3
  <2> QED
    BY <2>1, <2>2
<1>7. IsSum(h, m, g)
  BY <1>6 DEF IsSum
<1> QED
  BY <1>3, <1>7

\* The sum is the only one.
LEMMA SumIsUnique ==
    ASSUME NEW g, NEW n \in Nat, NEW f, NEW h, IsSum(f, n, g), IsSum(h, n, g)
    PROVE  f[n] = h[n]
<1> DEFINE T == {k \in 0..n : f[k] # h[k]}
<1>1. SUFFICES ASSUME T # {} PROVE FALSE
  OBVIOUS
<1>2. PICK m \in T : \A k \in T : m <= k
  <2>1. T \in SUBSET Nat
    OBVIOUS
  <2> QED
    BY <2>1, <1>1, SmallestElement
<1>3. m # 0
  BY DEF IsSum
<1>4. m - 1 \in 0..n /\ m - 1 \notin T
  BY <1>2, <1>3
<1> QED
  BY <1>3, <1>4 DEF IsSum

\* The envelope of a page takes what the messages of the stream take.
LEMMA SizeOfPage ==
    ASSUME NEW s, IsLog(s), NEW i \in Nat, NEW j \in Nat, 1 <= i, i <= j + 1, j <= Len(s),
           NEW p, NEW ms, p.messages = ms, ms = Messages(s, i, j)
    PROVE  EnvelopeSize(p) = Size(s, i, j)
<1>0. /\ Len(ms) = j - i + 1
      /\ \A k \in 1..j - i + 1 : ms[k].text = s[i + k - 1].text
  <2>1. /\ Len(Messages(s, i, j)) = j - i + 1
        /\ \A k \in 1..j - i + 1 : Messages(s, i, j)[k] = MessageOf(s[i + k - 1])
    BY MessagesShape
  <2>2. \A k \in 1..j - i + 1 : Messages(s, i, j)[k].text = s[i + k - 1].text
    <3> SUFFICES ASSUME NEW k \in 1..j - i + 1
                 PROVE  Messages(s, i, j)[k].text = s[i + k - 1].text
      OBVIOUS
    <3>1. Messages(s, i, j)[k] = MessageOf(s[i + k - 1])
      BY <2>1
    <3>2. MessageOf(s[i + k - 1]).text = s[i + k - 1].text
      BY DEF MessageOf
    <3> QED
      BY <3>1, <3>2
  <2> QED
    BY <2>1, <2>2, Zenon
<1> DEFINE n == j - i + 1
           g == [k \in 1..n |-> s[i + k - 1].text]
           IsEnvelope(f) == f = [k \in 0..Len(ms) |->
                                   Overhead + IF k = 0 THEN 0 ELSE f[k - 1] + ms[k].text]
           IsSize(f) == f = [m \in i - 1..j |->
                               Overhead + IF m < i THEN 0 ELSE f[m - 1] + s[m].text]
           envelope == CHOOSE f : IsEnvelope(f)
           size == CHOOSE f : IsSize(f)
<1>1. n \in Nat /\ Len(ms) = n /\ \A k \in 1..n : ms[k].text = g[k]
  <2> HIDE DEF IsEnvelope, IsSize
  <2> QED
    BY <1>0
<1>2. \A f : IsEnvelope(f) <=> IsSum(f, n, g)
  <2> HIDE DEF n, g
  <2> SUFFICES ASSUME NEW f
               PROVE  [k \in 0..Len(ms) |-> Overhead + IF k = 0 THEN 0 ELSE f[k - 1] + ms[k].text]
                        = [k \in 0..n |-> Overhead + IF k = 0 THEN 0 ELSE f[k - 1] + g[k]]
    BY DEF IsSum
  <2>1. \A k \in 0..n : k # 0 => k \in 1..n
    BY <1>1
  <2> QED
    BY <1>1, <2>1
<1>3. PICK f : IsSum(f, n, g)
  BY <1>1, SumExists
<1>4. IsSum(envelope, n, g)
  <2>1. IsEnvelope(envelope)
    BY <1>2, <1>3, Zenon
  <2> HIDE DEF IsEnvelope, envelope
  <2> QED
    BY <1>2, <2>1
<1> DEFINE shifted == [m \in i - 1..j |-> f[m - (i - 1)]]
<1>5. IsSize(shifted)
  <2>1. ASSUME NEW m \in i - 1..j
        PROVE  shifted[m] = Overhead + IF m < i THEN 0 ELSE shifted[m - 1] + s[m].text
    <3>1. PICK k \in 0..n : k = m - (i - 1) /\ i + k - 1 = m
      OBVIOUS
    <3>2. f[k] = Overhead + IF k = 0 THEN 0 ELSE f[k - 1] + g[k]
      BY <1>3 DEF IsSum
    <3>3. shifted[m] = f[k]
      BY <3>1
    <3>4. CASE k = 0
      BY <3>1, <3>2, <3>3, <3>4
    <3>5. CASE k # 0
      <4>1. ~(m < i) /\ shifted[m - 1] = f[k - 1] /\ k \in 1..n
        BY <3>1, <3>5
      <4>2. g[k] = s[m].text
        BY <4>1, <3>1
      <4> QED
        BY <3>2, <3>3, <3>5, <4>1, <4>2
    <3> QED
      BY <3>4, <3>5
  <2> QED
    BY <2>1
<1>6. IsSize(size)
  BY <1>5, Zenon
<1> HIDE DEF size, envelope
<1> DEFINE back == [k \in 0..n |-> size[k + (i - 1)]]
<1>7. IsSum(back, n, g)
  <2>1. ASSUME NEW k \in 0..n
        PROVE  back[k] = Overhead + IF k = 0 THEN 0 ELSE back[k - 1] + g[k]
    <3>1. PICK m \in i - 1..j : m = k + (i - 1) /\ i + k - 1 = m
      OBVIOUS
    <3>2. size[m] = Overhead + IF m < i THEN 0 ELSE size[m - 1] + s[m].text
      BY <1>6
    <3>3. back[k] = size[m]
      BY <3>1
    <3>4. CASE k = 0
      BY <3>1, <3>2, <3>3, <3>4
    <3>5. CASE k # 0
      <4>1. ~(m < i) /\ back[k - 1] = size[m - 1] /\ k \in 1..n
        BY <3>1, <3>5
      <4>2. g[k] = s[m].text
        BY <4>1, <3>1
      <4> QED
        BY <3>2, <3>3, <3>5, <4>1, <4>2
    <3> QED
      BY <3>4, <3>5
  <2>2. back = [k \in 0..n |-> Overhead + IF k = 0 THEN 0 ELSE back[k - 1] + g[k]]
    BY <2>1
  <2> QED
    BY <2>2 DEF IsSum
<1>8. envelope[n] = back[n]
  <2> HIDE DEF back, n, g
  <2> QED
    BY <1>1, <1>4, <1>7, SumIsUnique
<1>9. back[n] = size[j]
  OBVIOUS
<1>10. EnvelopeSize(p) = envelope[n]
  BY <1>1 DEF EnvelopeSize, envelope
<1>11. Size(s, i, j) = size[j]
  BY DEF Size, size
<1> QED
  BY <1>8, <1>9, <1>10, <1>11

\* A page without a message, and a page with one.
LEMMA SmallSizes ==
    ASSUME NEW s, IsLog(s), NEW i \in Nat, 1 <= i, EveryMessageFits
    PROVE  /\ Size(s, i, i - 1) <= Limit
           /\ i <= Len(s) => Size(s, i, i) <= Limit
<1>0. Overhead \in Nat /\ Limit \in Nat /\ 2 * Overhead + NoText <= Limit /\ NoText = 0
  BY EnvelopeAssumption DEF EveryMessageFits, NoText
<1>1. Size(s, i, i - 1) = Overhead
  <2> DEFINE IsSize(f) == f = [m \in i - 1..i - 1 |->
                                 Overhead + IF m < i THEN 0 ELSE f[m - 1] + s[m].text]
             w == [m \in i - 1..i - 1 |-> Overhead]
             size == CHOOSE f : IsSize(f)
  <2>1. IsSize(w)
    BY <1>0
  <2>2. IsSize(size)
    BY <2>1, Zenon
  <2>3. Size(s, i, i - 1) = size[i - 1]
    BY DEF Size
  <2> HIDE DEF size
  <2> QED
    BY <1>0, <2>2, <2>3
<1>2. ASSUME i <= Len(s)
      PROVE  Size(s, i, i) <= Limit
  <2> DEFINE IsSize(f) == f = [m \in i - 1..i |->
                                 Overhead + IF m < i THEN 0 ELSE f[m - 1] + s[m].text]
             w == [m \in i - 1..i |->
                     Overhead + IF m < i THEN 0 ELSE Overhead + s[m].text]
             size == CHOOSE f : IsSize(f)
  <2>1. IsSize(w)
    BY <1>0
  <2>2. IsSize(size)
    BY <2>1, Zenon
  <2>3. Size(s, i, i) = size[i]
    BY DEF Size
  <2> HIDE DEF size
  <2>4. size[i - 1] = Overhead
    BY <1>0, <2>2
  <2>5. size[i] = Overhead + (Overhead + s[i].text)
    BY <2>2, <2>4
  <2>6. s[i].text \in Sizes \cup {NoText} /\ s[i].text \in Nat
    <3>1. s[i] \in Rows
      BY <1>2 DEF IsLog
    <3>2. s[i].text \in Sizes \cup {NoText}
      BY <3>1 DEF Rows
    <3>3. \A text \in Sizes \cup {NoText} : text \in Nat
      BY BoundsAssumption, <1>0
    <3> QED
      BY <3>2, <3>3, Zenon
  <2>7. 2 * Overhead + s[i].text <= Limit
    BY <2>6 DEF EveryMessageFits
  <2>8. PICK text \in Nat : text = s[i].text
    BY <2>6
  <2> QED
    BY <1>0, <2>3, <2>5, <2>7, <2>8
<1> QED
  BY <1>0, <1>1, <1>2

\* A bounded set of numbers has a greatest one.
LEMMA GreatestElement ==
    ASSUME NEW n \in Nat, NEW F \in SUBSET (0..n), F # {}
    PROVE  \E K \in F : \A k \in F : k <= K
<1> DEFINE T == {n - k : k \in F}
<1>1. T \in SUBSET Nat /\ T # {}
  <2>1. \A k \in F : n - k \in Nat
    OBVIOUS
  <2>2. PICK k \in F : TRUE
    OBVIOUS
  <2>3. n - k \in T
    OBVIOUS
  <2> QED
    BY <2>1, <2>3
<1>2. PICK m \in T : \A k \in T : m <= k
  BY <1>1, SmallestElement
<1>3. PICK K \in F : m = n - K
  OBVIOUS
<1>4. \A k \in F : m <= n - k
  BY <1>2
<1> QED
  BY <1>3, <1>4

\* What FitContiguous builds is the largest page that fits, with a message at
\* least if there is any.
Fitting(page) == {k \in DOMAIN page : IsWithinLimit(page[k])}

LEMMA LargestFits ==
    ASSUME NEW page, NEW n \in Nat, DOMAIN page = 0..n
    PROVE  \/ /\ FitContiguous(page) = [status |-> "integrity"]
              /\ IF n = 0 THEN 0 \notin Fitting(page) ELSE 1 \notin Fitting(page)
           \/ \E K \in Fitting(page) :
                 /\ \A k \in Fitting(page) : k <= K
                 /\ FitContiguous(page) = [status |-> "page", page |-> page[K]]
                 /\ n # 0 => 1 <= K
<1> DEFINE F == Fitting(page)
<1>1. Max(0..n) = n
  <2> DEFINE S == 0..n
  <2>1. S \subseteq Int /\ n \in S /\ \A y \in S : y <= n
    OBVIOUS
  <2> HIDE DEF S
  <2>2. Max(S) = n
    BY <2>1, MaxIs
  <2> QED
    BY <2>2 DEF S
<1>2. Min({1, n}) = IF n = 0 THEN 0 ELSE 1
  BY MinOfTwo
<1>3. F \in SUBSET (0..n)
  BY DEF Fitting
<1>4. FitContiguous(page) = IF (IF n = 0 THEN 0 ELSE 1) \in F
                            THEN [status |-> "page", page |-> page[Max(F)]]
                            ELSE [status |-> "integrity"]
  BY <1>1, <1>2 DEF FitContiguous, Fitting
<1> HIDE DEF F
<1>5. CASE (IF n = 0 THEN 0 ELSE 1) \in F
  <2>1. PICK K \in F : \A k \in F : k <= K
    BY <1>3, <1>5, GreatestElement
  <2>2. Max(F) = K
    <3>1. F \subseteq Int
      BY <1>3
    <3> QED
      BY <3>1, <2>1, MaxIs
  <2>3. FitContiguous(page) = [status |-> "page", page |-> page[K]]
    BY <1>4, <1>5, <2>2
  <2>4. n # 0 => 1 <= K
    BY <1>5, <2>1
  <2> QED
    BY <2>1, <2>3, <2>4 DEF F
<1>6. CASE (IF n = 0 THEN 0 ELSE 1) \notin F
  <2>1. FitContiguous(page) = [status |-> "integrity"]
    BY <1>4, <1>6
  <2> QED
    BY <1>6, <2>1 DEF F
<1> QED
  BY <1>5, <1>6

\* Newest messages first: the page that fits is the one the stream's answer has.
FitsBackwards(s, i, j, page, b) ==
    /\ i <= b /\ b <= j + 1 /\ (i <= j => b <= j)
    /\ b = StartOf(s, j, j - i + 1)
    /\ FitContiguous(page) = [status |-> "page", page |-> page[j - b + 1]]

LEMMA NewestFit ==
    ASSUME NEW s, IsLog(s), NEW i \in Nat, NEW j \in Nat, 1 <= i, i <= j + 1, j <= Len(s),
           NEW n \in Nat, n = j - i + 1,
           NEW page, DOMAIN page = 0..n,
           \A k \in 0..n : page[k].messages = Messages(s, j - k + 1, j)
    PROVE  \/ FitContiguous(page) = [status |-> "integrity"] /\ ~EveryMessageFits
           \/ \E b \in Nat : FitsBackwards(s, i, j, page, b)
<1>1. \A k \in 0..n : EnvelopeSize(page[k]) = Size(s, j - k + 1, j)
  <2> SUFFICES ASSUME NEW k \in 0..n PROVE EnvelopeSize(page[k]) = Size(s, j - k + 1, j)
    OBVIOUS
  <2>1. PICK b \in Nat : b = j - k + 1 /\ 1 <= b /\ b <= j + 1
    OBVIOUS
  <2>2. page[k].messages = Messages(s, b, j)
    BY <2>1
  <2>3. EnvelopeSize(page[k]) = Size(s, b, j)
    BY <2>1, <2>2, SizeOfPage
  <2> QED
    BY <2>1, <2>3
<1>2. Fitting(page) = {k \in 0..n : Size(s, j - k + 1, j) <= Limit}
  BY <1>1 DEF Fitting, IsWithinLimit
<1>3. CASE /\ FitContiguous(page) = [status |-> "integrity"]
           /\ IF n = 0 THEN 0 \notin Fitting(page) ELSE 1 \notin Fitting(page)
  <2>1. CASE n = 0
    <3>1. ~(Size(s, j + 1, j) <= Limit)
      BY <1>2, <1>3, <2>1
    <3>2. j + 1 \in Nat /\ 1 <= j + 1 /\ j + 1 - 1 = j
      OBVIOUS
    <3>3. EveryMessageFits => Size(s, j + 1, j + 1 - 1) <= Limit
      BY <3>2, SmallSizes
    <3> QED
      BY <1>3, <3>1, <3>2, <3>3
  <2>2. CASE n # 0
    <3>1. 1 \in 0..n /\ j - 1 + 1 = j /\ 1 <= j
      BY <2>2
    <3>2. ~(Size(s, j, j) <= Limit)
      BY <1>2, <1>3, <2>2, <3>1
    <3>3. EveryMessageFits => Size(s, j, j) <= Limit
      BY <3>1, SmallSizes
    <3> QED
      BY <1>3, <3>2, <3>3
  <2> QED
    BY <2>1, <2>2
<1>4. ASSUME NEW K \in Fitting(page),
             \A k \in Fitting(page) : k <= K,
             FitContiguous(page) = [status |-> "page", page |-> page[K]],
             n # 0 => 1 <= K
      PROVE  \E b \in Nat : FitsBackwards(s, i, j, page, b)
  <2>1. K \in 0..n /\ Size(s, j - K + 1, j) <= Limit
    BY <1>2
  <2>2. PICK b \in Nat : b = j - K + 1 /\ i <= b /\ b <= j + 1 /\ K = j - b + 1 /\ (i <= j => b <= j)
    BY <1>4, <2>1
  <2> DEFINE S == {a \in j - n + 1..j + 1 : Size(s, a, j) <= Limit}
  <2>3. b \in S
    BY <2>1, <2>2
  <2>4. \A a \in S : b <= a
    <3> SUFFICES ASSUME NEW a \in S PROVE b <= a
      OBVIOUS
    <3>1. PICK k \in 0..n : k = j - a + 1 /\ j - k + 1 = a
      OBVIOUS
    <3>2. k \in Fitting(page)
      BY <1>2, <3>1
    <3>3. k <= K
      BY <1>4, <3>2
    <3> QED
      BY <2>1, <2>2, <3>1, <3>3
  <2>5. S \subseteq Int
    OBVIOUS
  <2> HIDE DEF S
  <2>6. Min(S) = b
    BY <2>3, <2>4, <2>5, MinIs
  <2>7. StartOf(s, j, n) = b
    BY <2>6 DEF StartOf, S
  <2> QED
    BY <1>4, <2>2, <2>7 DEF FitsBackwards
<1> QED
  BY <1>3, <1>4, LargestFits

\* Oldest messages first.
FitsForwards(s, i, j, page, b) ==
    /\ i <= b + 1 /\ b <= j /\ (i <= j => i <= b)
    /\ b = EndOf(s, i, j - i + 1)
    /\ FitContiguous(page) = [status |-> "page", page |-> page[b - i + 1]]

LEMMA OldestFit ==
    ASSUME NEW s, IsLog(s), NEW i \in Nat, NEW j \in Nat, 1 <= i, i <= j + 1, j <= Len(s),
           NEW n \in Nat, n = j - i + 1,
           NEW page, DOMAIN page = 0..n,
           \A k \in 0..n : page[k].messages = Messages(s, i, i + k - 1)
    PROVE  \/ FitContiguous(page) = [status |-> "integrity"] /\ ~EveryMessageFits
           \/ \E b \in Nat : FitsForwards(s, i, j, page, b)
<1>1. \A k \in 0..n : EnvelopeSize(page[k]) = Size(s, i, i + k - 1)
  <2> SUFFICES ASSUME NEW k \in 0..n PROVE EnvelopeSize(page[k]) = Size(s, i, i + k - 1)
    OBVIOUS
  <2>0. Len(s) \in Nat
    BY DEF IsLog
  <2>1. PICK b \in Nat : b = i + k - 1 /\ i <= b + 1 /\ b <= Len(s)
    BY <2>0
  <2>2. page[k].messages = Messages(s, i, b)
    BY <2>1
  <2>3. EnvelopeSize(page[k]) = Size(s, i, b)
    BY <2>1, <2>2, SizeOfPage
  <2> QED
    BY <2>1, <2>3
<1>2. Fitting(page) = {k \in 0..n : Size(s, i, i + k - 1) <= Limit}
  BY <1>1 DEF Fitting, IsWithinLimit
<1>3. CASE /\ FitContiguous(page) = [status |-> "integrity"]
           /\ IF n = 0 THEN 0 \notin Fitting(page) ELSE 1 \notin Fitting(page)
  <2>1. CASE n = 0
    <3>1. i + 0 - 1 = i - 1
      OBVIOUS
    <3>2. ~(Size(s, i, i - 1) <= Limit)
      BY <1>2, <1>3, <2>1, <3>1
    <3>3. EveryMessageFits => Size(s, i, i - 1) <= Limit
      BY SmallSizes
    <3> QED
      BY <1>3, <3>2, <3>3
  <2>2. CASE n # 0
    <3>1. 1 \in 0..n /\ i + 1 - 1 = i /\ i <= j
      BY <2>2
    <3>2. ~(Size(s, i, i) <= Limit)
      BY <1>2, <1>3, <2>2, <3>1
    <3>3. i <= Len(s)
      BY <3>1 DEF IsLog
    <3>4. EveryMessageFits => Size(s, i, i) <= Limit
      BY <3>3, SmallSizes
    <3> QED
      BY <1>3, <3>2, <3>4
  <2> QED
    BY <2>1, <2>2
<1>4. ASSUME NEW K \in Fitting(page),
             \A k \in Fitting(page) : k <= K,
             FitContiguous(page) = [status |-> "page", page |-> page[K]],
             n # 0 => 1 <= K
      PROVE  \E b \in Nat : FitsForwards(s, i, j, page, b)
  <2>1. K \in 0..n /\ Size(s, i, i + K - 1) <= Limit
    BY <1>2
  <2>2. PICK b \in Nat : b = i + K - 1 /\ i <= b + 1 /\ b <= j /\ K = b - i + 1 /\ (i <= j => i <= b)
    BY <1>4, <2>1
  <2> DEFINE S == {a \in i - 1..i + n - 1 : Size(s, i, a) <= Limit}
  <2>3. b \in S
    BY <2>1, <2>2
  <2>4. \A a \in S : a <= b
    <3> SUFFICES ASSUME NEW a \in S PROVE a <= b
      OBVIOUS
    <3>1. PICK k \in 0..n : k = a - i + 1 /\ i + k - 1 = a
      OBVIOUS
    <3>2. k \in Fitting(page)
      BY <1>2, <3>1
    <3>3. k <= K
      BY <1>4, <3>2
    <3> QED
      BY <2>1, <2>2, <3>1, <3>3
  <2>5. S \subseteq Int
    OBVIOUS
  <2> HIDE DEF S
  <2>6. Max(S) = b
    BY <2>3, <2>4, <2>5, MaxIs
  <2>7. EndOf(s, i, n) = b
    BY <2>6 DEF EndOf, S
  <2> QED
    BY <1>4, <2>2, <2>7 DEF FitsForwards
<1> QED
  BY <1>3, <1>4, LargestFits

-----------------------------------------------------------------------------
(* The page of a read.                                                     *)

\* What the messages i to j are as the messages of a page.
IsRunOf(ms, i, j) ==
    /\ ValidMessages(ms)
    /\ Len(ms) = j - i + 1
    /\ Seqs(ms) = [n \in 1..j - i + 1 |-> i + n - 1]
    /\ ms = <<>> <=> i = j + 1
    /\ ms # <<>> => FirstSeq(ms) = i /\ ms[1].seq = i /\ Last(ms).seq = j
    /\ \E more \in BOOLEAN : HasMoreBefore(ms) = more /\ (more <=> i <= j /\ i > 1)
    /\ \A n \in DOMAIN ms : ms[n].seq \in i..j

LEMMA MessagesOfPage ==
    ASSUME NEW s, IsLog(s), NEW i \in Nat, NEW j \in Nat, 1 <= i, i <= j + 1, j <= Len(s)
    PROVE  IsRunOf(Messages(s, i, j), i, j)
<1> DEFINE ms == Messages(s, i, j)
<1>1. /\ ms \in Seq(Msgs)
      /\ Len(ms) = j - i + 1
      /\ DOMAIN ms = 1..j - i + 1
      /\ \A n \in 1..j - i + 1 : ms[n].seq = i + n - 1 /\ ValidMessage(ms[n])
  <2>1. /\ Messages(s, i, j) \in Seq(Msgs)
        /\ Len(Messages(s, i, j)) = j - i + 1
        /\ DOMAIN Messages(s, i, j) = 1..j - i + 1
        /\ \A n \in 1..j - i + 1 :
              /\ Messages(s, i, j)[n].seq = i + n - 1
              /\ ValidMessage(Messages(s, i, j)[n])
    BY MessagesShape
  <2> QED
    BY <2>1, Zenon
<1> HIDE DEF ms
<1>2. ValidMessages(ms)
  BY <1>1 DEF ValidMessages
<1>3. Seqs(ms) = [n \in 1..j - i + 1 |-> i + n - 1]
  BY <1>1 DEF Seqs
<1>4. ms = <<>> <=> i = j + 1
  BY <1>1
<1>5. ASSUME ms # <<>>
      PROVE  FirstSeq(ms) = i /\ ms[1].seq = i /\ Last(ms).seq = j
  <2>1. 1 \in 1..j - i + 1 /\ j - i + 1 \in 1..j - i + 1
    BY <1>4, <1>5
  <2>2. ms[1].seq = i
    BY <1>1, <2>1
  <2>3. ms[j - i + 1].seq = j
    BY <1>1, <2>1
  <2> QED
    BY <1>1, <1>5, <2>2, <2>3 DEF FirstSeq, Last
<1>6. \E more \in BOOLEAN : HasMoreBefore(ms) = more /\ (more <=> i <= j /\ i > 1)
  <2>1. HasMoreBefore(ms) = TRUE \/ HasMoreBefore(ms) = FALSE
    BY DEF HasMoreBefore
  <2>2. HasMoreBefore(ms) <=> i <= j /\ i > 1
    BY <1>4, <1>5 DEF HasMoreBefore
  <2> QED
    BY <2>1, <2>2
<1>7. \A n \in DOMAIN ms : ms[n].seq \in i..j
  BY <1>1
<1> QED
  BY <1>1, <1>2, <1>3, <1>4, <1>5, <1>6, <1>7 DEF IsRunOf, ms

\* The outcome of a fit, of messages that answer q in the stream s.
Fits(s, q, outcome) ==
    \/ outcome = [status |-> "integrity"] /\ ~EveryMessageFits
    \/ /\ outcome = AnswerOf(s, q)
       /\ outcome.status = "page"
       /\ IsValid(q, outcome.page)
       /\ \E i, j \in Nat : IsPage(q, outcome.page, i, j, Len(s))

LEMMA LatestFits ==
    ASSUME NEW s, IsLog(s), NEW q, q.kind = "latest",
           NEW L \in Nat, L <= Len(s), Len(s) <= L,
           NEW ms, ms = Messages(s, FromOf(q, L), ToOf(q, L))
    PROVE  Fits(s, q, Fit(q, L, ms))
<1>1. LatestCount \in Nat /\ 1 <= LatestCount
  BY LatestAssumption
<1>2. PICK n \in Nat : n = Min({L, LatestCount}) /\ n <= L /\ n <= LatestCount /\ (n = 0 => L = 0)
  <2>1. Min({L, LatestCount}) = IF L <= LatestCount THEN L ELSE LatestCount
    BY <1>1, MinOfTwo
  <2> QED
    BY <1>1, <2>1
<1>3. PICK f \in Nat : f = L - n + 1 /\ 1 <= f /\ f <= L + 1 /\ n = L - f + 1
  BY <1>2
<1>4. ms = Messages(s, f, L)
  BY <1>2, <1>3 DEF FromOf, ToOf
<1>5. Len(ms) = n /\ \A k \in 0..n : Newest(ms, k) = Messages(s, L - k + 1, L)
  <2>2. Len(Messages(s, f, L)) = L - f + 1
    BY <1>3, MessagesShape
  <2>3. \A k \in 0..L - f + 1 : Newest(Messages(s, f, L), k) = Messages(s, L - k + 1, L)
    BY <1>3, PartOfMessages, ZenonT(40)
  <2> QED
    BY <2>2, <2>3, <1>3, <1>4, Zenon
<1> DEFINE page == [k \in 0..n |-> LatestPage(L, Newest(ms, k))]
<1>6. Fit(q, L, ms) = FitContiguous(page)
  BY <1>5 DEF Fit
<1>7. DOMAIN page = 0..n /\ \A k \in 0..n : page[k].messages = Messages(s, L - k + 1, L)
  BY <1>5 DEF LatestPage
<1>8. \A k \in 0..n : page[k] = LatestPage(L, Messages(s, L - k + 1, L))
  BY <1>5
<1> HIDE DEF page
<1>9. \/ FitContiguous(page) = [status |-> "integrity"] /\ ~EveryMessageFits
      \/ \E b \in Nat : FitsBackwards(s, f, L, page, b)
  BY <1>3, <1>7, NewestFit
<1>10. ASSUME NEW b \in Nat, FitsBackwards(s, f, L, page, b)
       PROVE  Fits(s, q, FitContiguous(page))
  <2>1. /\ f <= b /\ b <= L + 1 /\ (f <= L => b <= L)
        /\ b = StartOf(s, L, n)
        /\ FitContiguous(page) = [status |-> "page", page |-> page[L - b + 1]]
    BY <1>10, <1>3 DEF FitsBackwards
  <2>0. f <= b /\ b <= L + 1 /\ 1 <= b /\ (f <= L => b <= L)
    BY <1>3, <1>10, <2>1
  <2>2. PICK k \in 0..n : k = L - b + 1 /\ L - k + 1 = b
    BY <2>0, <1>3
  <2>6. b = L + 1 => L = 0
    BY <1>2, <1>3, <1>10, <2>0
  <2> DEFINE us == Messages(s, b, L)
             answer == LatestPage(L, us)
  <2>3. FitContiguous(page) = [status |-> "page", page |-> answer]
    BY <2>1, <2>2, <1>8
  <2>4. AnswerOf(s, q) = [status |-> "page", page |-> answer]
    <3>1. Len(s) = L
      BY DEF IsLog
    <3> QED
      BY <3>1, <2>1, <1>2 DEF AnswerOf, IsBehind, LatestOf
  <2>5. IsRunOf(us, b, L)
    BY <1>10, <2>0, MessagesOfPage
  <2>7. PICK more \in BOOLEAN : HasMoreBefore(us) = more /\ (more <=> b <= L /\ b > 1)
    BY <2>5, Zenon DEF IsRunOf
  <2> HIDE DEF us
  <2>8. answer = [through |-> L, messages |-> us, next |-> FirstSeq(us), more |-> more]
    BY <2>7 DEF LatestPage
  <2>9. ValidLatest(answer)
    <3>1. Len(us) <= LatestCount
      BY <2>5, <2>2, <1>2, <1>1 DEF IsRunOf
    <3>2. ValidBackwards(answer)
      BY <2>7, <2>8 DEF ValidBackwards
    <3>3. answer.through = IF us = <<>> THEN 0 ELSE Last(us).seq
      BY <2>5, <2>6, <2>8 DEF IsRunOf
    <3>4. answer.messages = us
      BY <2>8
    <3> QED
      BY <2>5, <3>1, <3>2, <3>3, <3>4 DEF ValidLatest, IsRunOf
  <2>10. IsPage(q, answer, b, L, Len(s))
    <3>1. /\ answer.messages = us /\ answer.more = more /\ answer.next = FirstSeq(us)
          /\ answer.through = L
      BY <2>8
    <3>2. Seqs(us) = [m \in 1..L - b + 1 |-> b + m - 1]
      BY <2>5 DEF IsRunOf
    <3>3. b <= L => FirstSeq(us) = b
      BY <1>10, <2>5 DEF IsRunOf
    <3> HIDE DEF answer
    <3> QED
      BY <1>10, <2>0, <2>6, <2>7, <3>1, <3>2, <3>3 DEF IsPage
  <2> HIDE DEF answer
  <2> QED
    BY <1>10, <2>3, <2>4, <2>9, <2>10 DEF Fits, IsValid
<1> QED
  BY <1>6, <1>9, <1>10 DEF Fits

LEMMA OlderFits ==
    ASSUME NEW s, IsLog(s), NEW q, q.kind = "older", NEW through,
           NEW before \in Nat, q.before = before, 1 <= before, before <= Len(s) + 1,
           NEW limit \in Nat, q.limit = limit, 1 <= limit,
           NEW ms, ms = Messages(s, FromOf(q, through), ToOf(q, through))
    PROVE  Fits(s, q, Fit(q, through, ms))
<1>1. PICK L \in Nat : L = before - 1 /\ L <= Len(s) /\ before = L + 1
  BY DEF IsLog
<1>2. PICK n \in Nat : n = Min({L, limit}) /\ n <= L /\ (n = 0 => L = 0)
  <2>1. Min({L, limit}) = IF L <= limit THEN L ELSE limit
    BY MinOfTwo
  <2> QED
    BY <2>1
<1>3. PICK f \in Nat : f = L - n + 1 /\ 1 <= f /\ f <= L + 1 /\ n = L - f + 1 /\ before - n = f
  BY <1>1, <1>2
<1>4. ms = Messages(s, f, L)
  BY <1>1, <1>2, <1>3 DEF FromOf, ToOf
<1>5. Len(ms) = n /\ \A k \in 0..n : Newest(ms, k) = Messages(s, L - k + 1, L)
  <2>2. Len(Messages(s, f, L)) = L - f + 1
    BY <1>1, <1>3, MessagesShape
  <2>3. \A k \in 0..L - f + 1 : Newest(Messages(s, f, L), k) = Messages(s, L - k + 1, L)
    BY <1>1, <1>3, PartOfMessages
  <2> QED
    BY <2>2, <2>3, <1>3, <1>4, Zenon
<1> DEFINE page == [k \in 0..n |-> OlderPage(before, Newest(ms, k))]
<1>6. Fit(q, through, ms) = FitContiguous(page)
  BY <1>5 DEF Fit
<1>7. DOMAIN page = 0..n /\ \A k \in 0..n : page[k].messages = Messages(s, L - k + 1, L)
  BY <1>5 DEF OlderPage
<1>8. \A k \in 0..n : page[k] = OlderPage(before, Messages(s, L - k + 1, L))
  BY <1>5
<1> HIDE DEF page
<1>9. \/ FitContiguous(page) = [status |-> "integrity"] /\ ~EveryMessageFits
      \/ \E b \in Nat : FitsBackwards(s, f, L, page, b)
  BY <1>1, <1>3, <1>7, NewestFit
<1>10. ASSUME NEW b \in Nat, FitsBackwards(s, f, L, page, b)
       PROVE  Fits(s, q, FitContiguous(page))
  <2>1. /\ f <= b /\ b <= L + 1 /\ (f <= L => b <= L)
        /\ b = StartOf(s, L, n)
        /\ FitContiguous(page) = [status |-> "page", page |-> page[L - b + 1]]
    BY <1>10, <1>3 DEF FitsBackwards
  <2>0. f <= b /\ b <= L + 1 /\ 1 <= b /\ (f <= L => b <= L)
    BY <1>3, <1>10, <2>1
  <2>2. PICK k \in 0..n : k = L - b + 1 /\ L - k + 1 = b
    BY <2>0, <1>3
  <2>6. b = L + 1 => L = 0
    BY <1>2, <1>3, <1>10, <2>0, SMTT(20)
  <2> DEFINE us == Messages(s, b, L)
             answer == OlderPage(before, us)
  <2>3. FitContiguous(page) = [status |-> "page", page |-> answer]
    BY <2>1, <2>2, <1>8
  <2>4. AnswerOf(s, q) = [status |-> "page", page |-> answer]
    BY <2>1, <1>1, <1>2 DEF AnswerOf, IsBehind, OlderOf
  <2>5. IsRunOf(us, b, L)
    BY <1>1, <1>10, <2>0, MessagesOfPage
  <2>7. PICK more \in BOOLEAN : HasMoreBefore(us) = more /\ (more <=> b <= L /\ b > 1)
    BY <2>5, Zenon DEF IsRunOf
  <2> HIDE DEF us
  <2>8. answer = [before |-> before, messages |-> us, next |-> FirstSeq(us), more |-> more]
    BY <2>7 DEF OlderPage
  <2>9. ValidOlder(answer)
    <3>2. ValidBackwards(answer)
      BY <2>7, <2>8 DEF ValidBackwards
    <3>3. answer.before = IF us = <<>> THEN 1 ELSE Last(us).seq + 1
      BY <1>1, <1>10, <2>5, <2>6, <2>8 DEF IsRunOf
    <3>4. answer.messages = us
      BY <2>8
    <3> QED
      BY <2>5, <3>2, <3>3, <3>4 DEF ValidOlder, IsRunOf
  <2>10. IsPage(q, answer, b, L, Len(s))
    <3>1. answer.messages = us /\ answer.more = more /\ answer.next = FirstSeq(us)
      BY <2>8
    <3>2. Seqs(us) = [n_1 \in 1..L - b + 1 |-> b + n_1 - 1]
      BY <2>5 DEF IsRunOf
    <3>3. b <= L => FirstSeq(us) = b
      BY <1>10, <2>5 DEF IsRunOf
    <3> HIDE DEF answer
    <3> QED
      BY <1>1, <1>10, <2>0, <2>6, <2>7, <3>1, <3>2, <3>3 DEF IsPage
  <2> HIDE DEF answer
  <2> QED
    BY <1>10, <2>3, <2>4, <2>9, <2>10 DEF Fits, IsValid
<1> QED
  BY <1>6, <1>9, <1>10 DEF Fits

\* The watermark that a synchronization runs up to.
IsWatermark(q, s, through) ==
    through = IF q.through = NoCursor THEN Len(s) ELSE q.through

\* The query asks for so many messages after that one.
IsSync(q, after, limit) ==
    /\ q.kind = "sync" /\ q.after = after /\ q.limit = limit
    /\ q.through \in Nat \cup {NoCursor}

LEMMA SyncFits ==
    ASSUME NEW s, IsLog(s), NEW q,
           NEW after \in Nat, NEW limit \in Nat, 1 <= limit, IsSync(q, after, limit),
           NEW through \in Nat, after <= through, through <= Len(s),
           IsWatermark(q, s, through),
           NEW ms, ms = Messages(s, FromOf(q, through), ToOf(q, through))
    PROVE  Fits(s, q, Fit(q, through, ms))
<1>1. PICK L \in Nat : L = through - after
  OBVIOUS
<1>2. PICK n \in Nat : n = Min({L, limit}) /\ n <= L /\ (n = 0 => L = 0)
  <2>1. Min({L, limit}) = IF L <= limit THEN L ELSE limit
    BY MinOfTwo
  <2> QED
    BY <2>1
<1>0. Len(s) \in Nat
  BY DEF IsLog
<1>11. n <= through - after /\ (n = 0 => after = through)
  BY <1>1, <1>2
<1>3. PICK i, j \in Nat : i = after + 1 /\ j = after + n
  OBVIOUS
<1>12. /\ n = j - i + 1 /\ 1 <= i /\ i <= j + 1 /\ j <= through /\ j <= Len(s)
       /\ (j < i => after = through)
  BY <1>0, <1>3, <1>11
<1>4. ms = Messages(s, i, j)
  BY <1>1, <1>2, <1>3, <1>12 DEF FromOf, ToOf, IsSync
<1>5. Len(ms) = n /\ \A k \in 0..n : Oldest(ms, k) = Messages(s, i, i + k - 1)
  <2>1. 1 <= i /\ i <= j + 1 /\ j <= Len(s)
    BY <1>12, Zenon
  <2>2. Len(Messages(s, i, j)) = j - i + 1
    BY <2>1, MessagesShape, ZenonT(40)
  <2>3. \A k \in 0..j - i + 1 : Oldest(Messages(s, i, j), k) = Messages(s, i, i + k - 1)
    BY <2>1, PartOfMessages, ZenonT(40)
  <2> QED
    BY <2>2, <2>3, <1>12, <1>4, Zenon
<1> DEFINE page == [k \in 0..n |-> SyncPage(after, through, Oldest(ms, k))]
<1>6. Fit(q, through, ms) = FitContiguous(page)
  BY <1>5 DEF Fit, IsSync
<1>7. DOMAIN page = 0..n /\ \A k \in 0..n : page[k].messages = Messages(s, i, i + k - 1)
  BY <1>5 DEF SyncPage
<1>8. \A k \in 0..n : page[k] = SyncPage(after, through, Messages(s, i, i + k - 1))
  BY <1>5
<1> HIDE DEF page
<1>9. \/ FitContiguous(page) = [status |-> "integrity"] /\ ~EveryMessageFits
      \/ \E b \in Nat : FitsForwards(s, i, j, page, b)
  BY <1>12, <1>7, OldestFit
<1>10. ASSUME NEW b \in Nat, FitsForwards(s, i, j, page, b)
       PROVE  Fits(s, q, FitContiguous(page))
  <2>1. /\ i <= b + 1 /\ b <= j /\ (i <= j => i <= b)
        /\ b = EndOf(s, i, n)
        /\ FitContiguous(page) = [status |-> "page", page |-> page[b - i + 1]]
    BY <1>10, <1>12 DEF FitsForwards
  <2>0. i <= b + 1 /\ b <= j /\ b <= through /\ b <= Len(s) /\ (i <= j => i <= b)
    <3>1. i <= b + 1 /\ b <= j /\ (i <= j => i <= b)
      BY <2>1
    <3> QED
      BY <1>0, <1>10, <1>12, <3>1
  <2>2. PICK k \in 0..n : k = b - i + 1 /\ i + k - 1 = b
    BY <2>0, <1>12, <1>10
  <2>6. i = b + 1 => after = through /\ b = after
    <3>1. i = b + 1 => j < i
      BY <1>10, <2>0
    <3> QED
      BY <1>3, <1>10, <1>12, <3>1
  <2> DEFINE us == Messages(s, i, b)
             answer == SyncPage(after, through, us)
  <2>3. FitContiguous(page) = [status |-> "page", page |-> answer]
    BY <2>1, <2>2, <1>8
  <2>4. AnswerOf(s, q) = [status |-> "page", page |-> answer]
    <3>1. AfterOf(s, q) = answer
      BY <2>1, <1>1, <1>2, <1>3 DEF AfterOf, IsWatermark, IsSync
    <3>2. IsBehind(s, q)
      <4>1. Len(s) \in Nat
        BY DEF IsLog
      <4>2. q.through \in Nat => q.through # NoCursor
        BY DEF NoCursor
      <4>3. q.through = NoCursor \/ q.through = through
        BY <4>2 DEF IsWatermark, IsSync
      <4>4. q.through <= Len(s)
        BY <4>1, <4>3 DEF NoCursor
      <4>5. after <= Len(s)
        BY <4>1
      <4> QED
        BY <4>4, <4>5 DEF IsBehind, IsSync
    <3> HIDE DEF answer
    <3> QED
      BY <3>1, <3>2 DEF AnswerOf, IsSync
  <2>5. IsRunOf(us, i, b)
    BY <1>12, <1>10, <2>0, MessagesOfPage
  <2>7. PICK next \in Nat : /\ next = IF us = <<>> THEN through ELSE Last(us).seq
                            /\ next = IF i <= b THEN b ELSE through
                            /\ next <= through
    BY <1>3, <1>10, <2>0, <2>5 DEF IsRunOf
  <2> HIDE DEF us
  <2>11. PICK more \in BOOLEAN : more <=> next < through
    OBVIOUS
  <2>13. (next < through) = more
    <3>1. (next < through) = TRUE \/ (next < through) = FALSE
      OBVIOUS
    <3> QED
      BY <2>11, <3>1
  <2>8. answer = [after |-> after, through |-> through, messages |-> us,
                  next |-> next, more |-> more]
    BY <2>7, <2>11, <2>13 DEF SyncPage
  <2>12. /\ answer.messages = us /\ answer.more = more /\ answer.next = next
         /\ answer.after = after /\ answer.through = through
    BY <2>8
  <2> HIDE DEF answer
  <2>9. ValidSync(answer)
    <3>1. us = <<>> <=> i = b + 1
      BY <2>5 DEF IsRunOf
    <3>2. us # <<>> => us[1].seq = i /\ Last(us).seq = b
      BY <2>5 DEF IsRunOf
    <3>3. \A m \in DOMAIN us : us[m].seq \in after + 1..through
      <4>1. \A m \in DOMAIN us : us[m].seq \in i..b
        BY <2>5 DEF IsRunOf
      <4>2. \A seq \in i..b : seq \in after + 1..through
        BY <1>3, <1>10, <2>0
      <4> QED
        BY <4>1, <4>2, Zenon
    <3>4. ValidMessages(us)
      BY <2>5 DEF IsRunOf
    <3>5. CASE us = <<>>
      <4>1. after = through /\ next = through /\ ~more
        BY <3>1, <3>5, <1>10, <2>6, <2>7, <2>11
      <4> QED
        BY <2>12, <3>3, <3>4, <3>5, <4>1 DEF ValidSync
    <3>6. CASE us # <<>>
      <4>1. us[1].seq = after + 1 /\ next = Last(us).seq
        BY <3>2, <3>6, <1>3, <2>7
      <4>2. IF more THEN next < through ELSE next = through
        BY <2>7, <2>11
      <4> QED
        BY <2>12, <3>3, <3>4, <3>6, <4>1, <4>2 DEF ValidSync
    <3> QED
      BY <3>5, <3>6
  <2>10. IsPage(q, answer, i, b, Len(s))
    <3>1. Seqs(us) = [n_1 \in 1..b - i + 1 |-> i + n_1 - 1]
      BY <2>5 DEF IsRunOf
    <3>2. q.through # NoCursor => through = q.through
      BY DEF IsWatermark
    <3>3. more => i <= b
      BY <2>7, <2>11, <1>10, <1>3
    <3>4. i = b + 1 => through = after
      BY <2>6
    <3> QED
      BY <1>3, <1>10, <2>0, <2>7, <2>11, <2>12, <3>1, <3>2, <3>3, <3>4, SMTT(20) DEF IsPage, IsSync
  <2> QED
    BY <1>10, <2>3, <2>4, <2>9, <2>10 DEF Fits, IsValid, IsSync
<1> QED
  BY <1>6, <1>9, <1>10 DEF Fits

\* The watermark of a read lies in the stream that its metadata found.
LEMMA ReadKinds ==
    ASSUME NEW s, IsLog(s), NEW q, IsQuery(q), ~IsAhead(q, Len(s)),
           NEW through, through = Through(q, Len(s))
    PROVE  \/ q.kind = "latest" /\ through \in Nat /\ through <= Len(s) /\ Len(s) <= through
           \/ \E before, limit \in Nat :
                 /\ q.kind = "older" /\ q.before = before /\ q.limit = limit
                 /\ 1 <= before /\ before <= Len(s) + 1 /\ 1 <= limit
           \/ \E after, limit \in Nat :
                 /\ IsSync(q, after, limit) /\ 1 <= limit
                 /\ through \in Nat /\ after <= through /\ through <= Len(s)
                 /\ IsWatermark(q, s, through)
<1>1. Len(s) \in Nat
  BY DEF IsLog
<1>2. CASE q.kind = "latest"
  BY <1>1, <1>2 DEF Through
<1>3. CASE /\ q.kind = "older" /\ q.before \in Nat /\ 1 <= q.before
           /\ q.limit \in Nat /\ 1 <= q.limit
  <2>1. PICK before, limit \in Nat : before = q.before /\ limit = q.limit
    BY <1>3
  <2>2. before <= Len(s) + 1
    BY <1>1, <1>3, <2>1 DEF IsAhead
  <2> QED
    BY <1>3, <2>1, <2>2
<1>4. CASE /\ q.kind = "sync" /\ q.after \in Nat /\ q.through \in Nat \cup {NoCursor}
           /\ q.limit \in Nat /\ 1 <= q.limit
           /\ q.through # NoCursor => q.after <= q.through
  <2>1. PICK after, limit \in Nat : after = q.after /\ limit = q.limit
    BY <1>4
  <2>2. IsSync(q, after, limit)
    BY <1>4, <2>1 DEF IsSync
  <2>3. after <= Len(s) /\ ~(q.through > Len(s))
    BY <1>1, <1>4, <2>1 DEF IsAhead
  <2>4. through = IF q.through # NoCursor THEN q.through ELSE Len(s)
    BY <1>4 DEF Through
  <2>5. CASE q.through = NoCursor
    <3>1. through = Len(s)
      BY <2>4, <2>5
    <3> QED
      BY <1>1, <1>4, <2>1, <2>2, <2>3, <2>5, <3>1 DEF IsWatermark
  <2>6. CASE q.through # NoCursor
    <3>1. PICK t \in Nat : t = q.through /\ after <= t /\ t <= Len(s)
      BY <1>1, <1>4, <2>1, <2>3, <2>6
    <3>2. through = t
      BY <2>4, <2>6, <3>1
    <3>3. IsWatermark(q, s, through)
      BY <2>4, <2>6 DEF IsWatermark
    <3> QED
      BY <1>4, <2>1, <2>2, <3>1, <3>2, <3>3
  <2> QED
    BY <2>5, <2>6
<1> QED
  BY <1>2, <1>3, <1>4, QueryShape

\* A second statement finds what the first one let expect.
LEMMA ReadFinds ==
    ASSUME NEW s, IsLog(s), NEW q, IsQuery(q), ~IsAhead(q, Len(s)),
           NEW through, through = Through(q, Len(s)), ~IsEmpty(q, Len(s), through)
    PROVE  \E a, b \in Nat : Finds(q, through, s, a, b)
<1>1. Len(s) \in Nat
  BY DEF IsLog
<1>2. CASE q.kind = "latest" /\ through \in Nat /\ through <= Len(s) /\ Len(s) <= through
  <2>1. 1 <= through
    BY <1>1, <1>2 DEF IsEmpty
  <2> QED
    BY <1>2, <2>1, LatestFinds
<1>3. ASSUME NEW before \in Nat, NEW limit \in Nat,
             q.kind = "older", q.before = before, q.limit = limit,
             1 <= before, before <= Len(s) + 1, 1 <= limit
      PROVE  \E a, b \in Nat : Finds(q, through, s, a, b)
  <2>1. 2 <= before
    BY <1>1, <1>3 DEF IsEmpty
  <2> QED
    BY <1>3, <2>1, OlderFinds
<1>4. ASSUME NEW after \in Nat, NEW limit \in Nat, IsSync(q, after, limit), 1 <= limit,
             through \in Nat, after <= through, through <= Len(s)
      PROVE  \E a, b \in Nat : Finds(q, through, s, a, b)
  <2>1. q.kind = "sync" /\ q.after = after /\ q.limit = limit
    BY <1>4 DEF IsSync
  <2>2. after # through
    BY <2>1 DEF IsEmpty
  <2>3. after < through
    BY <1>4, <2>2
  <2> QED
    BY <1>4, <2>1, <2>3, SyncFinds
<1> QED
  BY <1>2, <1>3, <1>4, ReadKinds

\* A page of the messages that a read shows is the answer of the stream.
LEMMA ReadAnswers ==
    ASSUME NEW s, IsLog(s), NEW q, IsQuery(q), ~IsAhead(q, Len(s)),
           NEW through, through = Through(q, Len(s)),
           NEW ms, ms = Messages(s, FromOf(q, through), ToOf(q, through))
    PROVE  Fits(s, q, Fit(q, through, ms))
<1>2. CASE q.kind = "latest" /\ through \in Nat /\ through <= Len(s) /\ Len(s) <= through
  BY <1>2, LatestFits
<1>3. ASSUME NEW before \in Nat, NEW limit \in Nat,
             q.kind = "older", q.before = before, q.limit = limit,
             1 <= before, before <= Len(s) + 1, 1 <= limit
      PROVE  Fits(s, q, Fit(q, through, ms))
  BY <1>3, OlderFits
<1>4. ASSUME NEW after \in Nat, NEW limit \in Nat, IsSync(q, after, limit), 1 <= limit,
             through \in Nat, after <= through, through <= Len(s), IsWatermark(q, s, through)
      PROVE  Fits(s, q, Fit(q, through, ms))
  BY <1>4, SyncFits
<1> QED
  BY <1>2, <1>3, <1>4, ReadKinds

\* Where nothing is read, nothing is shown.
LEMMA NothingToShow ==
    ASSUME NEW s, IsLog(s), NEW q, IsQuery(q), ~IsAhead(q, Len(s)),
           NEW through, through = Through(q, Len(s)), IsEmpty(q, Len(s), through)
    PROVE  <<>> = Messages(s, FromOf(q, through), ToOf(q, through))
<1>0. \A i \in Int : Messages(s, i + 1, i) = <<>>
  BY DEF Messages
<1>1. Len(s) \in Nat
  BY DEF IsLog
<1>2. CASE q.kind = "latest" /\ through \in Nat /\ through <= Len(s) /\ Len(s) <= through
  <2>1. through = 0
    BY <1>1, <1>2 DEF IsEmpty
  <2>2. Min({through, LatestCount}) = 0
    BY <2>1, LatestAssumption, MinOfTwo
  <2>3. FromOf(q, through) = 0 + 1 /\ ToOf(q, through) = 0
    BY <1>2, <2>1, <2>2 DEF FromOf, ToOf
  <2> QED
    BY <1>0, <2>3
<1>3. ASSUME NEW before \in Nat, NEW limit \in Nat,
             q.kind = "older", q.before = before, q.limit = limit,
             1 <= before, before <= Len(s) + 1, 1 <= limit
      PROVE  <<>> = Messages(s, FromOf(q, through), ToOf(q, through))
  <2>1. before = 1
    BY <1>1, <1>3 DEF IsEmpty
  <2>2. Min({0, limit}) = 0
    BY MinOfTwo
  <2>3. FromOf(q, through) = 1 /\ ToOf(q, through) = 0
    <3>1. q.before - 1 = 0
      BY <1>3, <2>1
    <3> QED
      BY <1>3, <2>1, <2>2, <3>1 DEF FromOf, ToOf
  <2> QED
    BY <1>0, <2>3
<1>4. ASSUME NEW after \in Nat, NEW limit \in Nat, IsSync(q, after, limit), 1 <= limit,
             through \in Nat, after <= through, through <= Len(s)
      PROVE  <<>> = Messages(s, FromOf(q, through), ToOf(q, through))
  <2>1. q.kind = "sync" /\ q.after = after /\ q.limit = limit
    BY <1>4 DEF IsSync
  <2>2. after = through
    BY <1>1, <1>4, <2>1 DEF IsEmpty
  <2>3. Min({0, limit}) = 0
    BY MinOfTwo
  <2>4. through - after = 0 /\ after + 0 = after
    BY <2>2
  <2>5. FromOf(q, through) = after + 1 /\ ToOf(q, through) = after
    BY <2>1, <2>3, <2>4 DEF FromOf, ToOf
  <2> QED
    BY <1>0, <2>5
<1> QED
  BY <1>2, <1>3, <1>4, ReadKinds

-----------------------------------------------------------------------------
(* Chains.                                                                 *)

\* The sequences i to j are a run.
IsInterval(new, i, j) == new = [n \in 1..j - i + 1 |-> i + n - 1]

LEMMA RunOf ==
    ASSUME NEW i \in Nat, NEW j \in Nat, i <= j + 1, NEW new, IsInterval(new, i, j)
    PROVE  /\ new \in Seq(Int)
           /\ IsRun(new)
           /\ IF i <= j THEN new # <<>> /\ Head(new) = i /\ Last(new) = j ELSE new = <<>>
<1>1. PICK n \in Nat : n = j - i + 1
  OBVIOUS
<1>2. new = [m \in 1..n |-> i + m - 1] /\ \A m \in 1..n : i + m - 1 \in Int
  BY <1>1 DEF IsInterval
<1>3. new \in Seq(Int) /\ Len(new) = n
  BY <1>1, <1>2
<1>4. \A m \in 1..n : new[m] = i + m - 1
  BY <1>2
<1> HIDE <1>2
<1>5. IsRun(new)
  <2> SUFFICES ASSUME NEW m \in 2..Len(new) PROVE new[m] = new[m - 1] + 1
    BY DEF IsRun
  <2>1. m \in Int /\ m \in 1..n /\ m - 1 \in 1..n
    BY <1>1, <1>3
  <2> QED
    BY <2>1, <1>4
<1>6. CASE i <= j
  <2>1. 1 \in 1..n /\ n \in 1..n /\ n # 0
    BY <1>1, <1>6
  <2>2. new # <<>> /\ Head(new) = new[1] /\ Last(new) = new[n]
    BY <1>3, <2>1 DEF Last
  <2>3. new[1] = i /\ new[n] = j
    BY <1>1, <1>4, <2>1
  <2> QED
    BY <1>3, <1>5, <1>6, <2>2, <2>3
<1>7. CASE ~(i <= j)
  <2>1. n = 0
    BY <1>1, <1>7
  <2> QED
    BY <2>1, <1>3, <1>5, <1>7, EmptySeq
<1> QED
  BY <1>6, <1>7

\* A run goes on in another.
LEMMA RunsJoin ==
    ASSUME NEW s \in Seq(Int), NEW t \in Seq(Int), IsRun(s), IsRun(t),
           s # <<>> /\ t # <<>> => Head(t) = Last(s) + 1
    PROVE  /\ s \o t \in Seq(Int)
           /\ IsRun(s \o t)
           /\ s = <<>> => s \o t = t
           /\ t = <<>> => s \o t = s
           /\ s # <<>> => s \o t # <<>> /\ Head(s \o t) = Head(s)
           /\ t # <<>> => s \o t # <<>> /\ Last(s \o t) = Last(t)
<1>1. PICK n \in Nat : n = Len(s) /\ (s # <<>> <=> n # 0)
  OBVIOUS
<1>2. PICK m \in Nat : m = Len(t) /\ (t # <<>> <=> m # 0)
  OBVIOUS
<1>11. n \in Nat /\ m \in Nat
  BY <1>1, <1>2
<1> DEFINE st == s \o t
<1>3. st \in Seq(Int) /\ Len(st) = n + m
  BY <1>1, <1>2
<1>4. \A k \in 1..n + m : st[k] = IF k <= n THEN s[k] ELSE t[k - n]
  BY <1>1, <1>2
<1>5. (n = 0 => st = t) /\ (m = 0 => st = s)
  <2>1. (s = <<>> => s \o t = t) /\ (t = <<>> => s \o t = s)
    BY ConcatEmptySeq
  <2> QED
    BY <2>1, <1>1, <1>2
<1> HIDE DEF st
<1>6. n # 0 => s[n] = Last(s) /\ s[1] = Head(s)
  BY <1>1 DEF Last
<1>7. m # 0 => t[m] = Last(t) /\ t[1] = Head(t)
  BY <1>2 DEF Last
<1>8. IsRun(st)
  <2> SUFFICES ASSUME NEW k \in 2..n + m PROVE st[k] = st[k - 1] + 1
    BY <1>3 DEF IsRun
  <2>1. k \in Int /\ k \in 1..n + m /\ k - 1 \in 1..n + m
    BY <1>1, <1>2
  <2>2. CASE k <= n
    <3>1. st[k] = s[k] /\ st[k - 1] = s[k - 1]
      <4>1. k - 1 <= n
        BY <2>1, <2>2, <1>11
      <4> QED
        BY <4>1, <2>1, <2>2, <1>4
    <3>2. k \in 2..Len(s)
      BY <2>2, <1>1
    <3>3. s[k] = s[k - 1] + 1
      BY <3>2 DEF IsRun
    <3> QED
      BY <3>1, <3>3
  <2>3. CASE k = n + 1
    <3>1. st[k] = t[1]
      <4>1. ~(k <= n) /\ k - n = 1
        BY <2>3, <1>1
      <4> QED
        BY <4>1, <2>1, <1>4
    <3>2. n # 0 /\ m # 0 /\ k - 1 = n
      BY <2>3, <1>1, <1>2
    <3>3. n <= n /\ n \in 1..n + m
      BY <3>2, <1>1, <1>2
    <3>4. st[k - 1] = s[n]
      BY <3>2, <3>3, <1>4
    <3> QED
      BY <3>1, <3>2, <3>4, <1>1, <1>2, <1>6, <1>7
  <2>4. CASE k > n + 1
    <3>1. ~(k <= n) /\ ~(k - 1 <= n) /\ k - 1 - n = k - n - 1
      BY <2>4, <1>1
    <3>2. st[k] = t[k - n] /\ st[k - 1] = t[k - n - 1]
      BY <3>1, <2>1, <1>4
    <3>3. k - n \in 2..Len(t)
      BY <2>4, <1>1, <1>2
    <3>4. t[k - n] = t[k - n - 1] + 1
      BY <3>3 DEF IsRun
    <3> QED
      BY <3>2, <3>4
  <2> QED
    BY <2>1, <2>2, <2>3, <2>4, <1>11
<1>9. n # 0 => st # <<>> /\ Head(st) = Head(s)
  <2> SUFFICES ASSUME n # 0 PROVE st # <<>> /\ Head(st) = Head(s)
    OBVIOUS
  <2>1. 1 <= n /\ 1 \in 1..n + m /\ n + m # 0
    BY <1>11
  <2>2. st[1] = s[1]
    BY <2>1, <1>4
  <2> QED
    BY <2>1, <2>2, <1>3, <1>6
<1>10. m # 0 => st # <<>> /\ Last(st) = Last(t)
  <2> SUFFICES ASSUME m # 0 PROVE st # <<>> /\ Last(st) = Last(t)
    OBVIOUS
  <2>1. ~(n + m <= n) /\ n + m \in 1..n + m /\ n + m # 0 /\ n + m - n = m
    BY <1>11
  <2>2. st[n + m] = t[m]
    BY <2>1, <1>4
  <2> QED
    BY <2>1, <2>2, <1>3, <1>7 DEF Last
<1> QED
  BY <1>1, <1>2, <1>3, <1>5, <1>8, <1>9, <1>10 DEF st

\* What a page adds to its chain, and the query that goes on from there.
Extends(q, page, c, head) ==
    /\ IsChain(c) /\ SoundChain(c)
    /\ c.status = IF page.more THEN "reading" ELSE "complete"
    /\ page.more => IsQuery(NextQuery(q, page)) /\ Stands(c, NextQuery(q, page), head)

IsNextQuery(q) ==
    \/ \E before \in 1..MaxLog, limit \in PageLimits : q = Older(before, limit)
    \/ \E after, through \in 0..MaxLog, limit \in PageLimits :
          q = SyncAfter(after, through, limit) /\ after <= through

LEMMA NextQueryIsQuery ==
    ASSUME NEW q, IsNextQuery(q)
    PROVE  IsQuery(q)
<1>1. MaxLog \in Nat
  BY BoundsAssumption
<1>2. ASSUME NEW before \in 1..MaxLog, NEW limit \in PageLimits, q = Older(before, limit)
      PROVE  IsQuery(q)
  <2>1. before \in Cursors \ {0}
    BY <1>1 DEF Cursors
  <2> QED
    BY <1>2, <2>1 DEF IsQuery, IsAdmitted, Queries, Older
<1>3. ASSUME NEW after \in 0..MaxLog, NEW through \in 0..MaxLog, NEW limit \in PageLimits,
             q = SyncAfter(after, through, limit), after <= through
      PROVE  IsQuery(q)
  <2>1. after \in Cursors /\ through \in Cursors
    BY <1>1 DEF Cursors
  <2> QED
    BY <1>3, <2>1 DEF IsQuery, IsAdmitted, Queries, SyncAfter
<1> QED
  BY <1>2, <1>3 DEF IsNextQuery

\* A chain is a record of its parts.
LEMMA ChainParts ==
    ASSUME NEW c, IsChain(c), c.status = "reading"
    PROVE  \E from, through \in Int, seen \in Seq(Int) :
              c = [status |-> "reading", from |-> from, through |-> through, seen |-> seen]
<1>1. c # NoChain
  BY DEF NoChain
<1>2. c \in [status : {"reading", "complete", "stream_unavailable", "invalid_cursor"},
             from : Int, through : Int, seen : Seq(Int)]
  BY <1>1 DEF IsChain
<1> QED
  BY <1>2

LEMMA RecordIsChain ==
    ASSUME NEW from \in Int, NEW through \in Int, NEW seen \in Seq(Int),
           NEW status \in {"reading", "complete", "stream_unavailable", "invalid_cursor"}
    PROVE  IsChain([status |-> status, from |-> from, through |-> through, seen |-> seen])
BY DEF IsChain

EveryPartIs(e, r, a, b, c, d) ==
    [r EXCEPT !.status = a, !.from = b, !.through = c, !.seen = d] = e

HasParts(r, a, b, c, d) == r = [status |-> a, from |-> b, through |-> c, seen |-> d]

LEMMA EveryPartUpdated ==
    ASSUME NEW a0, NEW b0, NEW c0, NEW d0, NEW a, NEW b, NEW c, NEW d,
           NEW r, HasParts(r, a0, b0, c0, d0),
           NEW e, HasParts(e, a, b, c, d)
    PROVE  EveryPartIs(e, r, a, b, c, d)
<1>1. PICK r1 : r1 = [r EXCEPT !.status = a]
  OBVIOUS
<1>2. r1 = [status |-> a, from |-> b0, through |-> c0, seen |-> d0]
  BY <1>1 DEF HasParts
<1>3. PICK r2 : r2 = [r1 EXCEPT !.from = b]
  OBVIOUS
<1>4. r2 = [status |-> a, from |-> b, through |-> c0, seen |-> d0]
  BY <1>2, <1>3
<1>5. PICK r3 : r3 = [r2 EXCEPT !.through = c]
  OBVIOUS
<1>6. r3 = [status |-> a, from |-> b, through |-> c, seen |-> d0]
  BY <1>4, <1>5
<1>7. [r3 EXCEPT !.seen = d] = [status |-> a, from |-> b, through |-> c, seen |-> d]
  BY <1>6
<1> QED
  BY <1>1, <1>3, <1>5, <1>7, Zenon DEF EveryPartIs, HasParts

IsExtension(e, q, page, from, through, seen) ==
    \E a, b, c, d :
        /\ e = [status |-> a, from |-> b, through |-> c, seen |-> d]
        /\ a = IF page.more THEN "reading" ELSE "complete"
        /\ b = IF q.kind = "latest" THEN page.through + 1 ELSE from
        /\ c = IF q.kind = "sync" /\ through = NoCursor THEN page.through ELSE through
        /\ d = IF q.kind = "sync" THEN seen \o Seqs(page.messages)
               ELSE Seqs(page.messages) \o seen

LEMMA ExtendedIs ==
    ASSUME NEW q, NEW page, NEW from, NEW through, NEW seen,
           chain = [status |-> "reading", from |-> from, through |-> through, seen |-> seen]
    PROVE  IsExtension(Extended(q, page), q, page, from, through, seen)
<1>1. PICK a, b, c, d :
         /\ a = IF page.more THEN "reading" ELSE "complete"
         /\ b = IF q.kind = "latest" THEN page.through + 1 ELSE chain.from
         /\ c = IF q.kind = "sync" /\ chain.through = NoCursor THEN page.through ELSE chain.through
         /\ d = IF q.kind = "sync" THEN chain.seen \o Seqs(page.messages)
                ELSE Seqs(page.messages) \o chain.seen
  OBVIOUS
<1>2. Extended(q, page) = [chain EXCEPT !.status = a, !.from = b, !.through = c, !.seen = d]
  BY <1>1, Zenon DEF Extended
<1>3. [chain EXCEPT !.status = a, !.from = b, !.through = c, !.seen = d] =
         [status |-> a, from |-> b, through |-> c, seen |-> d]
  <2>1. PICK e : HasParts(e, a, b, c, d)
    BY DEF HasParts
  <2>2. HasParts(chain, "reading", from, through, seen)
    BY DEF HasParts
  <2>3. EveryPartIs(e, chain, a, b, c, d)
    BY <2>1, <2>2, EveryPartUpdated
  <2> QED
    BY <2>1, <2>3, Zenon DEF EveryPartIs, HasParts
<1>4. chain.from = from /\ chain.through = through /\ chain.seen = seen
  OBVIOUS
<1> QED
  BY <1>1, <1>2, <1>3, <1>4, Zenon DEF IsExtension

LEMMA LatestExtends ==
    ASSUME NEW q, q.kind = "latest",
           NEW L \in Nat, L <= MaxLog, NEW i \in Nat, NEW j \in Nat,
           NEW page, IsPage(q, page, i, j, L),
           IsChain(chain), chain.status = "reading", Stands(chain, q, L)
    PROVE  Extends(q, page, Extended(q, page), L)
<1>1. PICK new : new = Seqs(page.messages)
  OBVIOUS
<1>2. /\ new \in Seq(Int)
      /\ IsRun(new)
      /\ IF i <= j THEN new # <<>> /\ Head(new) = i /\ Last(new) = j ELSE new = <<>>
  <2>1. i <= j + 1 /\ IsInterval(new, i, j)
    BY <1>1 DEF IsPage, IsInterval
  <2> QED
    BY <2>1, RunOf
<1>3. PICK more \in BOOLEAN : page.more = more /\ (more <=> i <= j /\ i > 1)
  BY DEF IsPage
<1>4. /\ 1 <= i /\ i <= j + 1 /\ j <= L /\ (i = j + 1 => j = 0)
      /\ page.through = j
      /\ page.more => page.next = i
  BY DEF IsPage
<1>5. PICK from, through \in Int, seen \in Seq(Int) :
         chain = [status |-> "reading", from |-> from, through |-> through, seen |-> seen]
  BY ChainParts
<1>6. seen = <<>> /\ through = NoCursor
  BY <1>5 DEF Stands
<1>7. new \o seen = new
  BY <1>2, <1>6, ConcatEmptySeq
<1> DEFINE status == IF page.more THEN "reading" ELSE "complete"
           c == [status |-> status, from |-> j + 1, through |-> NoCursor, seen |-> new]
<1>8. Extended(q, page) = c
  <2>1. IsExtension(Extended(q, page), q, page, from, through, seen)
    BY <1>5, ExtendedIs
  <2> QED
    BY <1>1, <1>4, <1>6, <1>7, <2>1, Zenon DEF IsExtension
<1>9. /\ c.status = status /\ c.from = j + 1 /\ c.through = NoCursor /\ c.seen = new
      /\ IsChain(c)
  <2>1. j + 1 \in Int /\ NoCursor \in Int
    BY DEF NoCursor
  <2> QED
    BY <1>2, <2>1, RecordIsChain
<1> HIDE DEF c
<1>10. SoundChain(c)
  <2>1. new # <<>> => Last(new) = c.from - 1
    BY <1>2, <1>9
  <2>2. c.status = "complete" => c.from = 1 \/ (new # <<>> /\ Head(new) = 1)
    <3>1. c.status = "complete" => ~more
      BY <1>3, <1>9
    <3>2. ~more => j + 1 = 1 \/ (i <= j /\ i = 1)
      BY <1>3, <1>4
    <3> QED
      BY <3>1, <3>2, <1>2, <1>9
  <2>3. c.status # "invalid_cursor"
    BY <1>9
  <2> QED
    BY <1>2, <1>9, <2>1, <2>2, <2>3 DEF SoundChain
<1>11. ASSUME page.more
       PROVE  IsQuery(NextQuery(q, page)) /\ Stands(c, NextQuery(q, page), L)
  <2>1. i <= j /\ page.next = i
    BY <1>3, <1>4, <1>11
  <2>2. PICK limit \in PageLimits : NextQuery(q, page) = Older(i, limit)
    <3>1. PICK largest \in PageLimits : \A limit \in PageLimits : limit <= largest
      BY LargestLimitAssumption
    <3>2. PageLimits \subseteq Int
      BY BoundsAssumption
    <3>3. Max(PageLimits) = largest
      BY <3>1, <3>2, MaxIs
    <3>4. NextQuery(q, page) = Older(i, Max(PageLimits))
      BY <2>1 DEF NextQuery
    <3> QED
      BY <3>3, <3>4
  <2>3. i \in 1..MaxLog /\ i <= L
    BY <1>4, <2>1, BoundsAssumption
  <2>4. IsQuery(NextQuery(q, page))
    BY <2>2, <2>3, NextQueryIsQuery DEF IsNextQuery
  <2>5. new # <<>> /\ Head(new) = i /\ Last(new) = j + 1 - 1
    BY <1>2, <2>1
  <2>6. Stands(c, Older(i, limit), L)
    BY <1>9, <2>3, <2>5 DEF Stands, Older
  <2> QED
    BY <2>2, <2>4, <2>6
<1> QED
  BY <1>8, <1>9, <1>10, <1>11 DEF Extends

LEMMA OlderExtends ==
    ASSUME NEW q, q.kind = "older", IsQuery(q),
           NEW L \in Nat, L <= MaxLog, NEW i \in Nat, NEW j \in Nat,
           NEW page, IsPage(q, page, i, j, L),
           IsChain(chain), chain.status = "reading", SoundChain(chain), Stands(chain, q, L)
    PROVE  Extends(q, page, Extended(q, page), L)
<1>1. PICK new : new = Seqs(page.messages)
  OBVIOUS
<1>2. /\ new \in Seq(Int)
      /\ IsRun(new)
      /\ IF i <= j THEN new # <<>> /\ Head(new) = i /\ Last(new) = j ELSE new = <<>>
  <2>1. i <= j + 1 /\ IsInterval(new, i, j)
    BY <1>1 DEF IsPage, IsInterval
  <2> QED
    BY <2>1, RunOf
<1>3. PICK more \in BOOLEAN : page.more = more /\ (more <=> i <= j /\ i > 1)
  BY DEF IsPage
<1>12. PICK before \in Nat : before = q.before
  BY QueryShape
<1>13. q.limit \in PageLimits
  BY DEF IsQuery, Queries, Latest, Older, SyncAfter
<1>4. /\ 1 <= i /\ i <= j + 1 /\ j <= L /\ (i = j + 1 => j = 0)
      /\ before = j + 1
      /\ page.more => page.next = i
  BY <1>12 DEF IsPage
<1>5. PICK from, through \in Int, seen \in Seq(Int) :
         chain = [status |-> "reading", from |-> from, through |-> through, seen |-> seen]
  BY ChainParts
<1>6. /\ through = NoCursor
      /\ seen = <<>> => from = j + 1
      /\ seen # <<>> => Head(seen) = j + 1 /\ Last(seen) = from - 1 /\ j + 1 <= L
  <2>1. /\ through = NoCursor
        /\ seen = <<>> => from = before
        /\ seen # <<>> => Head(seen) = before /\ Last(seen) = from - 1 /\ before <= L
    BY <1>5, <1>12 DEF Stands
  <2> QED
    BY <1>4, <2>1
<1>14. IsRun(seen)
  BY <1>5 DEF SoundChain
<1> DEFINE all == new \o seen
<1>7. /\ all \in Seq(Int)
      /\ IsRun(all)
      /\ new = <<>> => all = seen
      /\ seen = <<>> => all = new
      /\ new # <<>> => all # <<>> /\ Head(all) = Head(new)
      /\ seen # <<>> => all # <<>> /\ Last(all) = Last(seen)
  <2>1. new # <<>> /\ seen # <<>> => Head(seen) = Last(new) + 1
    BY <1>2, <1>6
  <2> QED
    BY <1>2, <1>14, <2>1, RunsJoin
<1> HIDE DEF all
<1> DEFINE status == IF page.more THEN "reading" ELSE "complete"
           c == [status |-> status, from |-> from, through |-> NoCursor, seen |-> all]
<1>8. Extended(q, page) = c
  <2>1. IsExtension(Extended(q, page), q, page, from, through, seen)
    BY <1>5, ExtendedIs
  <2> QED
    BY <1>1, <1>6, <2>1, Zenon DEF IsExtension, all
<1>9. /\ c.status = status /\ c.from = from /\ c.through = NoCursor /\ c.seen = all
      /\ IsChain(c)
  <2>1. NoCursor \in Int
    BY DEF NoCursor
  <2> QED
    BY <1>7, <2>1, RecordIsChain
<1> HIDE DEF c
<1>15. all # <<>> => Last(all) = from - 1
  <2>1. CASE seen = <<>>
    <3>1. all # <<>> => i <= j /\ Last(all) = j
      BY <1>2, <1>7, <2>1
    <3>2. from - 1 = j
      BY <1>6, <2>1
    <3> QED
      BY <3>1, <3>2
  <2>2. CASE seen # <<>>
    BY <1>6, <1>7, <2>2
  <2> QED
    BY <2>1, <2>2
<1>10. SoundChain(c)
  <2>2. c.status = "complete" => c.from = 1 \/ (all # <<>> /\ Head(all) = 1)
    <3>1. c.status = "complete" => ~more
      BY <1>3, <1>9
    <3>2. ~more => (i = j + 1 /\ j + 1 = 1) \/ (i <= j /\ i = 1)
      BY <1>3, <1>4
    <3>3. i = j + 1 => new = <<>>
      <4>1. i = j + 1 => ~(i <= j)
        OBVIOUS
      <4> QED
        BY <4>1, <1>2
    <3>4. i = j + 1 /\ j + 1 = 1 => from = 1 \/ (all # <<>> /\ Head(all) = 1)
      BY <3>3, <1>6, <1>7
    <3>5. i <= j /\ i = 1 => all # <<>> /\ Head(all) = 1
      BY <1>2, <1>7
    <3> QED
      BY <3>1, <3>2, <3>4, <3>5, <1>9
  <2>3. c.status # "invalid_cursor"
    BY <1>9
  <2> QED
    BY <1>7, <1>9, <1>15, <2>2, <2>3 DEF SoundChain
<1>11. ASSUME page.more
       PROVE  IsQuery(NextQuery(q, page)) /\ Stands(c, NextQuery(q, page), L)
  <2>1. i <= j /\ page.next = i
    BY <1>3, <1>4, <1>11
  <2>2. PICK limit \in PageLimits : NextQuery(q, page) = Older(i, limit)
    BY <2>1, <1>13 DEF NextQuery
  <2>3. i \in 1..MaxLog /\ i <= L
    BY <1>4, <2>1, BoundsAssumption
  <2>4. IsQuery(NextQuery(q, page))
    BY <2>2, <2>3, NextQueryIsQuery DEF IsNextQuery
  <2>5. all # <<>> /\ Head(all) = i
    BY <1>2, <1>7, <2>1
  <2>6. Stands(c, Older(i, limit), L)
    BY <1>9, <1>15, <2>3, <2>5 DEF Stands, Older
  <2> QED
    BY <2>2, <2>4, <2>6
<1> QED
  BY <1>8, <1>9, <1>10, <1>11 DEF Extends

LEMMA SyncExtends ==
    ASSUME NEW q, q.kind = "sync", IsQuery(q),
           NEW L \in Nat, L <= MaxLog, NEW i \in Nat, NEW j \in Nat,
           NEW page, IsPage(q, page, i, j, L),
           IsChain(chain), chain.status = "reading", SoundChain(chain), Stands(chain, q, L)
    PROVE  Extends(q, page, Extended(q, page), L)
<1>1. PICK new : new = Seqs(page.messages)
  OBVIOUS
<1>2. /\ new \in Seq(Int)
      /\ IsRun(new)
      /\ IF i <= j THEN new # <<>> /\ Head(new) = i /\ Last(new) = j ELSE new = <<>>
  <2>1. i <= j + 1 /\ IsInterval(new, i, j)
    BY <1>1 DEF IsPage, IsInterval
  <2> QED
    BY <2>1, RunOf
<1>12. PICK after \in Nat : after = q.after
  BY QueryShape
<1>13. q.limit \in PageLimits
  BY DEF IsQuery, Queries, Latest, Older, SyncAfter
<1>16. PICK last \in Nat : /\ last = page.through /\ last <= L
                           /\ q.through # NoCursor => last = q.through
  BY DEF IsPage
<1>17. PICK next \in Nat : next = page.next /\ next = IF i <= j THEN j ELSE last
  <2>1. page.next = IF i <= j THEN j ELSE last
    BY <1>16 DEF IsPage
  <2> QED
    BY <2>1
<1>3. PICK more \in BOOLEAN : page.more = more /\ (more <=> next < last)
  BY <1>16, <1>17 DEF IsPage
<1>4. /\ 1 <= i /\ i <= j + 1 /\ j <= L /\ i = after + 1
      /\ i = j + 1 => last = after
      /\ next <= last
      /\ more => i <= j
  BY <1>3, <1>12, <1>16, <1>17 DEF IsPage
<1>5. PICK from, through \in Int, seen \in Seq(Int) :
         chain = [status |-> "reading", from |-> from, through |-> through, seen |-> seen]
  BY ChainParts
<1>6. /\ through = NoCursor => seen = <<>> /\ from = after
      /\ through # NoCursor =>
            /\ seen # <<>> /\ Head(seen) = from + 1 /\ Last(seen) = after
            /\ q.through = through
  BY <1>5, <1>12 DEF Stands
<1>18. (IF through = NoCursor THEN last ELSE through) = last
  <2>1. through # NoCursor => last = through
    BY <1>6, <1>16
  <2> QED
    BY <2>1
<1>14. IsRun(seen)
  BY <1>5 DEF SoundChain
<1> DEFINE all == seen \o new
<1>7. /\ all \in Seq(Int)
      /\ IsRun(all)
      /\ seen = <<>> => all = new
      /\ new = <<>> => all = seen
      /\ seen # <<>> => all # <<>> /\ Head(all) = Head(seen)
      /\ new # <<>> => all # <<>> /\ Last(all) = Last(new)
  <2>1. seen # <<>> => Last(seen) = after
    BY <1>6
  <2>2. new # <<>> => Head(new) = after + 1
    BY <1>2, <1>4
  <2>3. seen # <<>> /\ new # <<>> => Head(new) = Last(seen) + 1
    BY <2>1, <2>2
  <2> QED
    BY <1>2, <1>14, <2>3, RunsJoin
<1> HIDE DEF all
<1> DEFINE status == IF page.more THEN "reading" ELSE "complete"
           c == [status |-> status, from |-> from, through |-> last, seen |-> all]
<1>8. Extended(q, page) = c
  <2>1. IsExtension(Extended(q, page), q, page, from, through, seen)
    BY <1>5, ExtendedIs
  <2> QED
    BY <1>1, <1>16, <1>18, <2>1, Zenon DEF IsExtension, all
<1>9. /\ c.status = status /\ c.from = from /\ c.through = last /\ c.seen = all
      /\ IsChain(c)
  <2>1. last \in Int /\ from \in Int
    BY <1>5, <1>16
  <2>2. status \in {"reading", "complete", "stream_unavailable", "invalid_cursor"}
    OBVIOUS
  <2>3. IsChain(c)
    BY <1>7, <2>1, <2>2, RecordIsChain
  <2> QED
    BY <2>3
<1> HIDE DEF c
<1>15. all # <<>> => Head(all) = from + 1
  <2>1. CASE through = NoCursor
    <3>1. all # <<>> => Head(all) = i
      BY <1>2, <1>6, <1>7, <2>1
    <3>2. i = from + 1
      BY <1>4, <1>6, <2>1
    <3> QED
      BY <3>1, <3>2
  <2>2. CASE through # NoCursor
    BY <1>6, <1>7, <2>2
  <2> QED
    BY <2>1, <2>2
<1>19. last # NoCursor
  BY DEF NoCursor
<1>10. SoundChain(c)
  <2>2. c.status = "complete" => last = IF all = <<>> THEN from ELSE Last(all)
    <3> SUFFICES ASSUME c.status = "complete"
                 PROVE  last = IF all = <<>> THEN from ELSE Last(all)
      OBVIOUS
    <3>1. next = last
      <4>1. ~more
        BY <1>3, <1>9
      <4> QED
        BY <4>1, <1>3, <1>4
    <3>2. CASE i <= j
      <4>1. all # <<>> /\ Last(all) = j
        BY <3>2, <1>2, <1>7
      <4> QED
        BY <3>1, <3>2, <4>1, <1>17
    <3>3. CASE ~(i <= j)
      <4>1. new = <<>> /\ all = seen
        BY <3>3, <1>2, <1>7
      <4>2. i = j + 1
        BY <3>3, <1>4
      <4>3. last = after
        BY <4>2, <1>4
      <4> QED
        BY <4>1, <4>3, <1>6
    <3> QED
      BY <3>2, <3>3
  <2>3. c.status # "invalid_cursor"
    BY <1>9
  <2> QED
    BY <1>7, <1>9, <1>15, <1>19, <2>2, <2>3 DEF SoundChain
<1>11. ASSUME page.more
       PROVE  IsQuery(NextQuery(q, page)) /\ Stands(c, NextQuery(q, page), L)
  <2>1. i <= j /\ page.next = j /\ j <= last
    <3>1. i <= j
      BY <1>3, <1>4, <1>11
    <3> QED
      BY <3>1, <1>17, <1>4
  <2>2. PICK limit \in PageLimits : NextQuery(q, page) = SyncAfter(j, last, limit)
    BY <2>1, <1>13, <1>16 DEF NextQuery
  <2>3. j \in 0..MaxLog /\ last \in 0..MaxLog
    <3>1. MaxLog \in Nat
      BY BoundsAssumption
    <3>2. j <= L /\ last <= L
      BY <1>4, <1>16
    <3> QED
      BY <3>1, <3>2
  <2>4. IsQuery(NextQuery(q, page))
    BY <2>1, <2>2, <2>3, NextQueryIsQuery DEF IsNextQuery
  <2>5. all # <<>> /\ Last(all) = j
    BY <1>2, <1>7, <2>1
  <2>6. Stands(c, SyncAfter(j, last, limit), L)
    <3>1. last <= L
      BY <1>16
    <3> QED
      BY <1>9, <1>15, <1>19, <2>5, <3>1 DEF Stands, SyncAfter
  <2> QED
    BY <2>2, <2>4, <2>6
<1> QED
  BY <1>8, <1>9, <1>10, <1>11 DEF Extends

\* Whatever page a read gives, its chain goes on behind or before it.
LEMMA PageExtends ==
    ASSUME NEW q, IsQuery(q),
           NEW L \in Nat, L <= MaxLog, NEW i \in Nat, NEW j \in Nat,
           NEW page, IsPage(q, page, i, j, L),
           IsChain(chain), chain.status = "reading", SoundChain(chain), Stands(chain, q, L)
    PROVE  Extends(q, page, Extended(q, page), L)
BY QueryShape, LatestExtends, OlderExtends, SyncExtends

-----------------------------------------------------------------------------
(* The inductive invariant.                                                *)

LEMMA PageStands ==
    ASSUME NEW h \in Nat, NEW k \in Nat, h <= k, NEW q, IsQuery(q), NEW page,
           NEW i \in Nat, NEW j \in Nat, IsPage(q, page, i, j, h)
    PROVE  IsPage(q, page, i, j, k)
<1>1. j <= k
  BY DEF IsPage
<1>2. CASE q.kind = "latest"
  BY <1>1, <1>2 DEF IsPage
<1>3. CASE q.kind = "older"
  BY <1>1, <1>3 DEF IsPage
<1>4. CASE q.kind = "sync"
  <2>1. page.through <= k
    BY <1>4 DEF IsPage
  <2> QED
    BY <1>1, <1>4, <2>1 DEF IsPage
<1> QED
  BY <1>2, <1>3, <1>4, QueryShape

\* What is said of a read and of its chain stays true as the stream grows.
LEMMA HeadGrows ==
    ASSUME NEW h \in Nat, NEW k \in Nat, h <= k, NEW r, NEW c, IsChain(c),
           ReadFits(r, h, c), ChainFits(c, r, h)
    PROVE  ReadFits(r, k, c) /\ ChainFits(c, r, k)
<1>1. IsLookedUp(r, h) => IsLookedUp(r, k)
  <2> SUFFICES ASSUME IsLookedUp(r, h) PROVE Len(r.snapshot) <= k
    BY DEF IsLookedUp
  <2>1. Len(r.snapshot) \in Nat /\ Len(r.snapshot) <= h
    BY DEF IsLookedUp, IsLog
  <2> QED
    BY <2>1
<1>3. IsQuery(r.query) /\ IsAnswered(r, h, c) => IsAnswered(r, k, c)
  BY PageStands DEF IsAnswered
<1>4. ReadFits(r, k, c)
  BY <1>1, <1>3 DEF ReadFits, IsReading, IsFitting
<1>5. ASSUME NEW q, IsQuery(q), Stands(c, q, h), c.status = "reading"
      PROVE  Stands(c, q, k)
  <2>1. CASE q.kind = "latest"
    BY <1>5, <2>1 DEF Stands
  <2>2. CASE q.kind = "older" /\ q.before \in Nat
    <3>1. q.before <= h => q.before <= k
      BY <2>2
    <3> QED
      BY <1>5, <2>2, <3>1 DEF Stands
  <2>3. CASE q.kind = "sync"
    <3>1. c.through \in Int
      <4>1. c # NoChain
        BY <1>5 DEF NoChain
      <4> QED
        BY <4>1 DEF IsChain
    <3>2. c.through # NoCursor /\ c.through <= h => c.through <= k
      BY <3>1
    <3> QED
      BY <1>5, <2>3, <3>2 DEF Stands
  <2> QED
    BY <1>5, <2>1, <2>2, <2>3, QueryShape
<1>6. ChainFits(c, r, k)
  <2>1. r.stage # "none" => IsQuery(r.query)
    BY DEF ReadFits, NoRead
  <2> QED
    BY <1>5, <2>1 DEF ChainFits
<1> QED
  BY <1>4, <1>6

LEMMA InitFits == Init => IInv
<1> SUFFICES ASSUME Init PROVE IInv
  OBVIOUS
<1>1. Len(log) = 0 /\ IsLog(log)
  BY DEF Init, IsLog
<1>2. WorldFits
  <2>1. MaxLog \in Nat /\ MaxChanges \in Nat /\ MaxFailures \in Nat
    BY BoundsAssumption
  <2>2. Len(log) <= MaxLog
    BY <1>1, <2>1
  <2>3. changes \in 0..MaxChanges /\ failures \in 0..MaxFailures
    BY <2>1 DEF Init
  <2>4. target \in {"channel", "thread"} /\ member \in BOOLEAN /\ trusted \in BOOLEAN
    BY DEF Init
  <2> QED
    BY <1>1, <2>2, <2>3, <2>4 DEF WorldFits
<1>3. ReadFits(read, Len(log), chain)
  BY DEF Init, ReadFits
<1>4. TrustFits(read, member, trusted)
  BY DEF Init, TrustFits, NoRead
<1>5. IsChain(chain) /\ ChainFits(chain, read, Len(log)) /\ SoundChain(chain)
  BY DEF Init, IsChain, ChainFits, SoundChain, NoRead, NoChain
<1> QED
  BY <1>2, <1>3, <1>4, <1>5 DEF IInv

\* A write keeps the rows in order and sound, and nothing else changes.
LEMMA WriteFits ==
    ASSUME IInv, IsLog(log'), Len(log) <= Len(log'), Len(log') <= MaxLog,
           changes' \in 0..MaxChanges,
           UNCHANGED <<target, member, read, chain, trusted, failures>>
    PROVE  IInv'
<1>1. Len(log) \in Nat /\ Len(log') \in Nat
  BY DEF IInv, WorldFits, IsLog
<1>2. WorldFits'
  BY DEF IInv, WorldFits
<1>3. ReadFits(read, Len(log'), chain) /\ ChainFits(chain, read, Len(log'))
  BY <1>1, HeadGrows DEF IInv
<1> QED
  BY <1>2, <1>3 DEF IInv

LEMMA AppendFits ==
    ASSUME IInv, NEW text \in Sizes, Append1(text)
    PROVE  IInv'
<1>1. IsLog(log) /\ Len(log) \in Nat /\ Len(log) <= MaxLog /\ changes \in 0..MaxChanges
  BY DEF IInv, WorldFits, IsLog
<1>2. MaxLog \in Nat /\ Sizes \subseteq Nat \ {0}
  BY BoundsAssumption
<1>3. PICK n \in Nat : n = Len(log) + 1 /\ Len(log) = n - 1
  BY <1>1
<1> DEFINE row == [seq |-> n, text |-> text, edited |-> FALSE, deleted |-> FALSE]
<1>4. row \in Rows /\ row.seq = n /\ IsSound(row)
  <2>1. text # NoText
    BY <1>2 DEF NoText
  <2> QED
    BY <2>1, <1>3 DEF Rows, IsSound
<1>5. log' = Append(log, row)
  BY <1>3 DEF Append1, HeadSequence
<1> HIDE DEF row
<1>6. /\ log' \in Seq(Rows)
      /\ Len(log') = n
      /\ \A m \in 1..n : log'[m] = IF m = n THEN row ELSE log[m]
  <2>1. log \in Seq(Rows)
    BY <1>1 DEF IsLog
  <2>2. /\ Append(log, row) \in Seq(Rows)
        /\ Len(Append(log, row)) = Len(log) + 1
        /\ \A m \in 1..Len(log) + 1 :
              Append(log, row)[m] = IF m = Len(log) + 1 THEN row ELSE log[m]
    BY <1>4, <2>1
  <2> QED
    BY <1>3, <1>5, <2>2
<1>7. \A m \in 1..n : log'[m].seq = m /\ IsSound(log'[m])
  <2> SUFFICES ASSUME NEW m \in 1..n PROVE log'[m].seq = m /\ IsSound(log'[m])
    OBVIOUS
  <2>1. CASE m = n
    BY <1>4, <1>6, <2>1
  <2>2. CASE m # n
    <3>1. m \in 1..Len(log)
      BY <1>3, <2>2
    <3>2. log'[m] = log[m]
      BY <1>6, <2>2
    <3> QED
      BY <1>1, <3>1, <3>2 DEF IsLog
  <2> QED
    BY <2>1, <2>2
<1>8. IsLog(log')
  BY <1>6, <1>7 DEF IsLog
<1>9. Len(log) <= Len(log') /\ Len(log') <= MaxLog
  <2>1. Len(log) < MaxLog
    BY DEF Append1, HeadSequence
  <2> QED
    BY <1>1, <1>2, <1>3, <1>6, <2>1
<1> QED
  BY <1>1, <1>8, <1>9, WriteFits DEF Append1, databaseUnchanged

LEMMA MutateFits ==
    ASSUME IInv, NEW n \in DOMAIN log, NEW row \in Rows, row.seq = n, IsSound(row),
           Mutate(n, row)
    PROVE  IInv'
<1>1. /\ IsLog(log) /\ Len(log) \in Nat /\ Len(log) <= MaxLog /\ changes \in 0..MaxChanges
      /\ log \in Seq(Rows) /\ DOMAIN log = 1..Len(log)
  BY DEF IInv, WorldFits, IsLog
<1>2. log' = [log EXCEPT ![n] = row] /\ changes' = changes + 1 /\ changes < MaxChanges
  BY DEF Mutate
<1>3. /\ log' \in Seq(Rows)
      /\ Len(log') = Len(log)
      /\ \A m \in 1..Len(log) : log'[m] = IF m = n THEN row ELSE log[m]
  BY <1>1, <1>2
<1>4. \A m \in 1..Len(log) : log'[m].seq = m /\ IsSound(log'[m])
  BY <1>1, <1>3 DEF IsLog
<1>5. IsLog(log')
  BY <1>3, <1>4 DEF IsLog
<1>6. changes' \in 0..MaxChanges
  <2>1. MaxChanges \in Nat
    BY BoundsAssumption
  <2> QED
    BY <1>1, <1>2, <2>1
<1>7. Len(log) <= Len(log') /\ Len(log') <= MaxLog
  BY <1>1, <1>3
<1> QED
  BY <1>5, <1>6, <1>7, WriteFits DEF Mutate

LEMMA EditFits ==
    ASSUME IInv, NEW n \in DOMAIN log, NEW text \in Sizes, Edit(n, text)
    PROVE  IInv'
<1>1. /\ log[n] \in Rows /\ log[n].seq = n
  BY DEF IInv, WorldFits, IsLog
<1>2. text # NoText
  BY BoundsAssumption DEF NoText
<1>3. ~log[n].deleted
  BY DEF Edit, Mutate
<1> DEFINE row == [log[n] EXCEPT !.text = text, !.edited = TRUE]
<1>4. row \in Rows /\ row.seq = n /\ row.text = text /\ row.deleted = log[n].deleted
  BY <1>1 DEF Rows
<1>5. IsSound(row)
  BY <1>2, <1>3, <1>4 DEF IsSound
<1>6. Mutate(n, row)
  BY DEF Edit
<1> QED
  BY <1>4, <1>5, <1>6, MutateFits

LEMMA DeleteFits ==
    ASSUME IInv, NEW n \in DOMAIN log, Delete(n)
    PROVE  IInv'
<1>1. /\ log[n] \in Rows /\ log[n].seq = n
  BY DEF IInv, WorldFits, IsLog
<1> DEFINE row == [log[n] EXCEPT !.text = NoText, !.deleted = TRUE]
<1>4. row \in Rows /\ row.seq = n /\ row.text = NoText /\ row.deleted
  BY <1>1 DEF Rows
<1>5. IsSound(row)
  BY <1>4 DEF IsSound
<1>6. Mutate(n, row)
  BY DEF Delete
<1> QED
  BY <1>4, <1>5, <1>6, MutateFits

LEMMA MembershipFits ==
    ASSUME IInv, ChangeMembership
    PROVE  IInv'
<1>1. member' \in BOOLEAN /\ trusted' \in BOOLEAN /\ (member' => trusted') /\ (trusted => trusted')
  BY DEF IInv, WorldFits, ChangeMembership
<1>2. WorldFits'
  BY <1>1 DEF IInv, WorldFits, ChangeMembership
<1>3. TrustFits(read', member', trusted')
  BY <1>1 DEF IInv, TrustFits, ChangeMembership
<1> QED
  BY <1>2, <1>3 DEF IInv, ChangeMembership

\* A read that is in progress: where it is follows from its stage.
LEMMA StageFits ==
    ASSUME IInv, read.stage \notin {"none", "answered"}
    PROVE  /\ IsQuery(read.query)
           /\ read.stage \in {"resolve", "authorize", "metadata"} => IsAsked(read)
           /\ read.stage = "rows" => IsReading(read, Len(log))
           /\ read.stage = "fit" => IsFitting(read, Len(log))
           /\ chain.status = "reading" /\ Stands(chain, read.query, Len(log))
<1>1. read # NoRead /\ ~IsAnswered(read, Len(log), chain)
  BY DEF NoRead, IsAnswered
<1>2. IsQuery(read.query) /\ (\/ IsAsked(read)
                              \/ IsReading(read, Len(log))
                              \/ IsFitting(read, Len(log)))
  BY <1>1 DEF IInv, ReadFits
<1>3. chain.status = "reading" /\ Stands(chain, read.query, Len(log))
  BY DEF IInv, ChainFits
<1> QED
  BY <1>2, <1>3 DEF IsAsked, IsReading, IsFitting

\* A read moves on: the query and the chain stay.
LEMMA ProgressFits ==
    ASSUME IInv, read.stage \notin {"none", "answered"},
           UNCHANGED <<target, log, member, chain, trusted, changes>>,
           failures' \in 0..MaxFailures,
           read'.query = read.query, read'.stage # "none",
           \/ IsAsked(read')
           \/ IsReading(read', Len(log))
           \/ IsFitting(read', Len(log))
           \/ IsAnswered(read', Len(log), chain),
           read'.stage \in {"metadata", "rows", "fit"} => trusted,
           read'.stage = "answered" /\ read'.outcome \notin {StreamUnavailable, Unanswered}
              => trusted
    PROVE  IInv'
<1>1. WorldFits'
  BY DEF IInv, WorldFits
<1>2. IsQuery(read.query) /\ chain.status = "reading" /\ Stands(chain, read.query, Len(log))
  BY StageFits
<1>3. ReadFits(read', Len(log), chain)
  BY <1>2 DEF ReadFits
<1>4. TrustFits(read', member, trusted)
  BY DEF IInv, TrustFits
<1>5. ChainFits(chain, read', Len(log))
  BY <1>2 DEF ChainFits
<1> QED
  BY <1>1, <1>3, <1>4, <1>5 DEF IInv

\* An answer ends a read.
LEMMA AnswerFits ==
    ASSUME IInv, read.stage \notin {"none", "answered"}, NEW outcome, Answer(outcome),
           UNCHANGED <<target, log, member, chain, trusted, changes>>,
           failures' \in 0..MaxFailures,
           \/ outcome \in {StreamUnavailable, IntegrityError, Unanswered}
           \/ outcome = InvalidCursor /\ chain.seen = <<>>
           \/ /\ outcome.status = "page"
              /\ \E i, j \in Nat : IsPage(read.query, outcome.page, i, j, Len(log)),
           outcome \in {StreamUnavailable, Unanswered} \/ trusted
    PROVE  IInv'
<1>1. read' = [stage |-> "answered", query |-> read.query, outcome |-> outcome]
  BY DEF Answer, Answered
<1>2. read'.stage = "answered" /\ read'.query = read.query /\ read'.outcome = outcome
  BY <1>1
<1>3. IsAnswered(read', Len(log), chain)
  BY <1>2 DEF IsAnswered
<1> QED
  BY <1>2, <1>3, ProgressFits

LEMMA GotoFits ==
    ASSUME IInv, read.stage \in {"resolve", "authorize"}, NEW stage \in {"authorize", "metadata"},
           Goto(stage), UNCHANGED <<target, log, member, chain, trusted, changes, failures>>,
           stage = "metadata" => trusted
    PROVE  IInv'
<1>1. read = [stage |-> read.stage, query |-> read.query]
  BY StageFits DEF IsAsked
<1>2. read' = [stage |-> stage, query |-> read.query]
  BY <1>1 DEF Goto
<1>3. read'.stage = stage /\ read'.query = read.query
  BY <1>2
<1>4. IsAsked(read')
  BY <1>2, <1>3 DEF IsAsked
<1>5. failures' \in 0..MaxFailures
  BY DEF IInv, WorldFits
<1> QED
  BY <1>3, <1>4, <1>5, ProgressFits

LEMMA ResolveFits ==
    ASSUME IInv, Resolve
    PROVE  IInv'
<1>1. failures' \in 0..MaxFailures
  BY DEF IInv, WorldFits, Resolve
<1>2. CASE Answer(StreamUnavailable)
  BY <1>1, <1>2, AnswerFits DEF Resolve, databaseUnchanged
<1>3. CASE Goto("authorize")
  BY <1>3, GotoFits DEF Resolve, databaseUnchanged
<1> QED
  BY <1>2, <1>3 DEF Resolve

LEMMA AuthorizeFits ==
    ASSUME IInv, Authorize
    PROVE  IInv'
<1>1. failures' \in 0..MaxFailures
  BY DEF IInv, WorldFits, Authorize
<1>2. CASE Answer(StreamUnavailable)
  BY <1>1, <1>2, AnswerFits DEF Authorize, databaseUnchanged
<1>3. CASE member /\ Goto("metadata")
  <2>1. trusted
    BY <1>3 DEF IInv, TrustFits, Authorize
  <2> QED
    BY <1>3, <2>1, GotoFits DEF Authorize, databaseUnchanged
<1> QED
  BY <1>2, <1>3 DEF Authorize

\* A cursor that a page gave is not ahead of the stream.
LEMMA OnlyFirstCursorsAreAhead ==
    ASSUME NEW q, IsQuery(q), NEW c, IsChain(c), c.status = "reading", NEW head \in Nat,
           Stands(c, q, head), IsAhead(q, head)
    PROVE  c.seen = <<>>
<1>1. CASE q.kind = "latest"
  BY <1>1 DEF IsAhead
<1>2. CASE q.kind = "older" /\ q.before \in Nat
  <2>1. ~(q.before <= head)
    BY <1>2 DEF IsAhead
  <2> QED
    BY <1>2, <2>1 DEF Stands
<1>3. CASE /\ q.kind = "sync" /\ q.after \in Nat /\ q.through \in Nat \cup {NoCursor}
           /\ q.through # NoCursor => q.after <= q.through
  <2> SUFFICES ASSUME c.seen # <<>> PROVE FALSE
    OBVIOUS
  <2>1. c.through # NoCursor /\ q.through = c.through /\ c.through <= head
    BY <1>3 DEF Stands
  <2>2. PICK after, through \in Nat : after = q.after /\ through = q.through
    BY <1>3, <2>1
  <2>3. after <= through /\ through <= head
    BY <1>3, <2>1, <2>2
  <2>4. after > head \/ through > head
    BY <1>3, <2>2 DEF IsAhead
  <2> QED
    BY <2>2, <2>3, <2>4
<1> QED
  BY <1>1, <1>2, <1>3, QueryShape

LEMMA MetadataFit ==
    ASSUME IInv, ReadMetadata
    PROVE  IInv'
<1>1. failures' \in 0..MaxFailures
  BY DEF IInv, WorldFits, ReadMetadata
<1>2. IsLog(log) /\ Len(log) \in Nat
  BY DEF IInv, WorldFits, IsLog
<1>3. /\ read.stage = "metadata" /\ IsQuery(read.query)
      /\ chain.status = "reading" /\ Stands(chain, read.query, Len(log))
  BY StageFits DEF ReadMetadata
<1>4. trusted
  BY <1>3 DEF IInv, TrustFits
<1> DEFINE through == Through(read.query, Len(log))
<1>5. CASE IsAhead(read.query, Len(log))
  <2>1. Answer(InvalidCursor)
    BY <1>5 DEF ReadMetadata, HeadSequence
  <2>2. chain.seen = <<>>
    BY <1>2, <1>3, <1>5, OnlyFirstCursorsAreAhead DEF IInv
  <2> QED
    BY <1>1, <1>3, <1>4, <2>1, <2>2, AnswerFits DEF ReadMetadata, databaseUnchanged
<1>6. CASE ~IsAhead(read.query, Len(log))
  <2>1. PICK stage : /\ stage = IF IsEmpty(read.query, Len(log), through) THEN "fit" ELSE "rows"
                     /\ read' = [stage |-> stage, query |-> read.query, through |-> through,
                                 snapshot |-> log, rows |-> <<>>]
    BY <1>6 DEF ReadMetadata, HeadSequence
  <2>2. /\ read'.stage = stage /\ read'.query = read.query /\ read'.through = through
        /\ read'.snapshot = log /\ read'.rows = <<>>
    BY <2>1
  <2>3. IsLookedUp(read', Len(log))
    BY <1>2, <1>6, <2>2 DEF IsLookedUp
  <2>4. CASE IsEmpty(read.query, Len(log), through)
    <3>1. stage = "fit"
      BY <2>1, <2>4
    <3>2. <<>> = Messages(log, FromOf(read.query, through), ToOf(read.query, through))
      BY <1>2, <1>3, <1>6, <2>4, NothingToShow
    <3>3. IsFitting(read', Len(log))
      BY <2>2, <2>3, <3>1, <3>2 DEF IsFitting
    <3> QED
      BY <1>1, <1>3, <1>4, <2>2, <3>1, <3>3, ProgressFits DEF ReadMetadata, databaseUnchanged
  <2>5. CASE ~IsEmpty(read.query, Len(log), through)
    <3>1. stage = "rows"
      BY <2>1, <2>5
    <3>3. IsReading(read', Len(log))
      BY <2>2, <2>3, <2>5, <3>1 DEF IsReading
    <3> QED
      BY <1>1, <1>3, <1>4, <2>2, <3>1, <3>3, ProgressFits DEF ReadMetadata, databaseUnchanged
  <2> QED
    BY <2>4, <2>5
<1> QED
  BY <1>5, <1>6

\* What a second statement does: the rows are as expected.
LEMMA RowsAreFound ==
    ASSUME IInv, ReadRows
    PROVE  /\ read.stage = "rows" /\ IsReading(read, Len(log))
           /\ read' = [stage |-> "fit", query |-> read.query, through |-> read.through,
                       rows |-> Messages(read.snapshot, FromOf(read.query, read.through),
                                         ToOf(read.query, read.through)),
                       snapshot |-> read.snapshot]
<1> DEFINE q == read.query
           s == read.snapshot
           through == read.through
           rows == Select(q, through, s)
<1>1. read.stage = "rows" /\ IsQuery(q) /\ IsReading(read, Len(log))
  BY StageFits DEF ReadRows
<1>2. IsLog(s) /\ ~IsAhead(q, Len(s)) /\ through = Through(q, Len(s)) /\ ~IsEmpty(q, Len(s), through)
  BY <1>1 DEF IsReading, IsLookedUp
<1>3. PICK a, b \in Nat : Finds(q, through, s, a, b)
  BY <1>1, <1>2, ReadFinds
<1>4. 1 <= a /\ a <= b /\ b <= Len(s)
  BY <1>3 DEF Finds
<1>5. rows = SubSeq(s, a, b) /\ ExpectedWindow(q, through) = a..b
  BY <1>3 DEF Finds
<1>6. /\ IsWindow(SubSeq(s, a, b), a..b)
      /\ \A n \in DOMAIN SubSeq(s, a, b) : IsSound(SubSeq(s, a, b)[n])
      /\ [n \in DOMAIN SubSeq(s, a, b) |-> MessageOf(SubSeq(s, a, b)[n])] = Messages(s, a, b)
  BY <1>2, <1>3, <1>4, WindowIsFound
<1>7. IsWindow(rows, ExpectedWindow(q, through)) /\ \A n \in DOMAIN rows : IsSound(rows[n])
  BY <1>5, <1>6
<1>8. Shown(q, [n \in DOMAIN rows |-> MessageOf(rows[n])])
         = Messages(s, FromOf(q, through), ToOf(q, through))
  BY <1>3, <1>5, <1>6 DEF Finds
<1>9. read' = [stage |-> "fit", query |-> q, through |-> through,
               rows |-> Shown(q, [n \in DOMAIN rows |-> MessageOf(rows[n])]),
               snapshot |-> s]
  BY <1>7 DEF ReadRows
<1> QED
  BY <1>1, <1>8, <1>9

LEMMA RowsFit ==
    ASSUME IInv, ReadRows
    PROVE  IInv'
<1>1. failures' \in 0..MaxFailures
  BY DEF IInv, WorldFits, ReadRows
<1>2. PICK rows : rows = Messages(read.snapshot, FromOf(read.query, read.through),
                                  ToOf(read.query, read.through))
  OBVIOUS
<1>3. /\ read.stage = "rows" /\ IsReading(read, Len(log))
      /\ read' = [stage |-> "fit", query |-> read.query, through |-> read.through,
                  rows |-> rows, snapshot |-> read.snapshot]
  BY <1>2, RowsAreFound, Zenon
<1>4. /\ read'.stage = "fit" /\ read'.query = read.query /\ read'.through = read.through
      /\ read'.rows = rows /\ read'.snapshot = read.snapshot
  BY <1>3
<1>5. IsFitting(read', Len(log))
  BY <1>2, <1>3, <1>4 DEF IsFitting, IsReading, IsLookedUp
<1>6. trusted
  BY <1>3 DEF IInv, TrustFits
<1> QED
  BY <1>1, <1>3, <1>4, <1>5, <1>6, ProgressFits DEF ReadRows, databaseUnchanged

\* What a page policy answers.
LEMMA PageIsFitted ==
    ASSUME IInv, Respond
    PROVE  /\ read.stage = "fit" /\ IsFitting(read, Len(log)) /\ IsQuery(read.query)
           /\ \E outcome :
                 /\ Answer(outcome)
                 /\ \/ outcome = IntegrityError /\ ~EveryMessageFits
                    \/ /\ outcome = AnswerOf(read.snapshot, read.query)
                       /\ outcome.status = "page"
                       /\ \E i, j \in Nat :
                             IsPage(read.query, outcome.page, i, j, Len(read.snapshot))
<1> DEFINE q == read.query
           s == read.snapshot
           fitted == Fit(q, read.through, read.rows)
           outcome == IF fitted.status = "page" /\ ~IsValid(q, fitted.page)
                      THEN IntegrityError ELSE fitted
<1>1. read.stage = "fit" /\ IsQuery(q) /\ IsFitting(read, Len(log))
  BY StageFits DEF Respond
<1>2. /\ IsLog(s) /\ ~IsAhead(q, Len(s)) /\ read.through = Through(q, Len(s))
      /\ read.rows = Messages(s, FromOf(q, read.through), ToOf(q, read.through))
  BY <1>1 DEF IsFitting, IsLookedUp
<1>3. Fits(s, q, fitted)
  BY <1>1, <1>2, ReadAnswers
<1>4. Answer(outcome)
  BY DEF Respond
<1> HIDE DEF fitted
<1>5. CASE fitted = [status |-> "integrity"] /\ ~EveryMessageFits
  <2>1. outcome = IntegrityError
    BY <1>5 DEF IntegrityError
  <2> QED
    BY <1>1, <1>4, <1>5, <2>1
<1>6. CASE /\ fitted = AnswerOf(s, q)
           /\ fitted.status = "page"
           /\ IsValid(q, fitted.page)
           /\ \E i, j \in Nat : IsPage(q, fitted.page, i, j, Len(s))
  <2>1. outcome = fitted
    BY <1>6
  <2> QED
    BY <1>1, <1>4, <1>6, <2>1
<1> QED
  BY <1>3, <1>5, <1>6 DEF Fits

LEMMA RespondFits ==
    ASSUME IInv, Respond
    PROVE  IInv'
<1>1. failures' \in 0..MaxFailures
  BY DEF IInv, WorldFits, Respond
<1>2. read.stage = "fit" /\ IsQuery(read.query) /\ IsLog(read.snapshot)
      /\ Len(read.snapshot) <= Len(log)
  BY PageIsFitted DEF IsFitting, IsLookedUp
<1>3. trusted
  BY <1>2 DEF IInv, TrustFits
<1>4. PICK outcome :
         /\ Answer(outcome)
         /\ \/ outcome = IntegrityError
            \/ /\ outcome.status = "page"
               /\ \E i, j \in Nat : IsPage(read.query, outcome.page, i, j, Len(read.snapshot))
  BY PageIsFitted
<1>5. Len(read.snapshot) \in Nat /\ Len(log) \in Nat
  BY <1>2 DEF IInv, WorldFits, IsLog
<1>6. ASSUME NEW page, NEW i \in Nat, NEW j \in Nat,
             IsPage(read.query, page, i, j, Len(read.snapshot))
      PROVE  IsPage(read.query, page, i, j, Len(log))
  BY <1>2, <1>5, <1>6, PageStands
<1> QED
  BY <1>1, <1>2, <1>3, <1>4, <1>6, AnswerFits DEF Respond, databaseUnchanged

LEMMA FailFits ==
    ASSUME IInv, Fail
    PROVE  IInv'
<1>1. failures' \in 0..MaxFailures
  <2>1. MaxFailures \in Nat
    BY BoundsAssumption
  <2> QED
    BY <2>1 DEF IInv, WorldFits, Fail
<1> QED
  BY <1>1, AnswerFits DEF Fail, databaseUnchanged

\* A read begins that goes on from where its chain stands.
LEMMA StartFits ==
    ASSUME IInv, NEW q, IsQuery(q), NEW c, Start(q, c),
           UNCHANGED <<target, log, member, changes, failures>>,
           IsChain(c), SoundChain(c), c.status = "reading", Stands(c, q, Len(log))
    PROVE  IInv'
<1>1. read' = [stage |-> "resolve", query |-> q] /\ chain' = c /\ trusted' = member
  BY DEF Start
<1>2. read'.stage = "resolve" /\ read'.query = q
  BY <1>1
<1>3. WorldFits'
  BY <1>1 DEF IInv, WorldFits
<1>4. IsAsked(read')
  BY <1>1, <1>2 DEF IsAsked
<1>5. ReadFits(read', Len(log), c)
  BY <1>2, <1>4 DEF ReadFits
<1>6. TrustFits(read', member, member)
  BY <1>2 DEF TrustFits
<1>7. ChainFits(c, read', Len(log))
  BY <1>2 DEF ChainFits
<1> QED
  BY <1>1, <1>3, <1>5, <1>6, <1>7 DEF IInv

\* A chain ends.
LEMMA EndFits ==
    ASSUME IInv, NEW c, IsChain(c), SoundChain(c), read' = NoRead, chain' = c,
           UNCHANGED <<target, log, member, trusted, changes, failures>>
    PROVE  IInv'
<1>1. WorldFits'
  BY DEF IInv, WorldFits
<1>2. read'.stage = "none"
  BY DEF NoRead
<1>3. ReadFits(read', Len(log), c)
  BY DEF ReadFits
<1>4. TrustFits(read', member, trusted)
  BY <1>2 DEF TrustFits
<1>5. ChainFits(c, read', Len(log))
  BY <1>2 DEF ChainFits
<1> QED
  BY <1>1, <1>3, <1>4, <1>5 DEF IInv

LEMMA BeginFits ==
    ASSUME IInv, NEW q \in Queries, Begin(q)
    PROVE  IInv'
<1>1. IsQuery(q)
  BY DEF Begin, IsQuery
<1>2. PICK from : from = CASE q.kind = "latest" -> NoCursor
                           [] q.kind = "older" -> q.before
                           [] q.kind = "sync" -> q.after
  OBVIOUS
<1> DEFINE c == [status |-> "reading", from |-> from, through |-> NoCursor, seen |-> <<>>]
<1>3. Start(q, c)
  BY <1>2 DEF Begin
<1>4. from \in Int /\ (q.kind = "older" => from = q.before) /\ (q.kind = "sync" => from = q.after)
  BY <1>1, <1>2, QueryShape DEF NoCursor
<1>5. /\ c.status = "reading" /\ c.from = from /\ c.through = NoCursor /\ c.seen = <<>>
      /\ IsChain(c)
  <2>1. NoCursor \in Int /\ <<>> \in Seq(Int)
    BY DEF NoCursor
  <2>2. IsChain(c)
    BY <1>4, <2>1, RecordIsChain
  <2> QED
    BY <2>2
<1> HIDE DEF c
<1>6. SoundChain(c)
  <2>1. IsRun(<<>>)
    BY DEF IsRun
  <2> QED
    BY <1>5, <2>1 DEF SoundChain
<1>7. Stands(c, q, Len(log))
  BY <1>1, <1>4, <1>5, QueryShape DEF Stands
<1> QED
  BY <1>1, <1>3, <1>5, <1>6, <1>7, StartFits DEF Begin, databaseUnchanged

\* A page is taken: the chain goes on, or is complete.
LEMMA TakePageFits ==
    ASSUME IInv, TakePage
    PROVE  IInv'
<1>1. read.stage = "answered" /\ read.outcome.status = "page"
  BY DEF TakePage
<1>2. IsQuery(read.query) /\ IsAnswered(read, Len(log), chain)
  BY <1>1 DEF IInv, ReadFits, NoRead, IsAsked, IsReading, IsFitting
<1>3. PICK i, j \in Nat : IsPage(read.query, read.outcome.page, i, j, Len(log))
  BY <1>1, <1>2 DEF IsAnswered, StreamUnavailable, IntegrityError, Unanswered, InvalidCursor
<1>4. /\ Len(log) \in Nat /\ Len(log) <= MaxLog
      /\ IsChain(chain) /\ SoundChain(chain)
      /\ chain.status = "reading" /\ Stands(chain, read.query, Len(log))
  BY <1>1 DEF IInv, WorldFits, IsLog, ChainFits
<1>5. PICK page : page = read.outcome.page
  OBVIOUS
<1>6. PICK c : c = Extended(read.query, page)
  OBVIOUS
<1>7. Extends(read.query, page, c, Len(log))
  BY <1>2, <1>3, <1>4, <1>5, <1>6, PageExtends
<1>8. IsChain(c) /\ SoundChain(c)
  BY <1>7 DEF Extends
<1>9. UNCHANGED <<target, log, member, changes, failures>>
  BY DEF TakePage, databaseUnchanged
<1>10. CASE page.more
  <2>1. Start(NextQuery(read.query, page), c)
    BY <1>5, <1>6, <1>10 DEF TakePage
  <2>2. /\ IsQuery(NextQuery(read.query, page))
        /\ c.status = "reading"
        /\ Stands(c, NextQuery(read.query, page), Len(log))
    BY <1>7, <1>10 DEF Extends
  <2> QED
    BY <1>8, <1>9, <2>1, <2>2, StartFits
<1>11. CASE ~page.more
  <2>1. read' = NoRead /\ chain' = c /\ trusted' = trusted
    BY <1>5, <1>6, <1>11 DEF TakePage
  <2> QED
    BY <1>8, <1>9, <2>1, EndFits
<1> QED
  BY <1>10, <1>11

\* A failure ends the chain, or the read is repeated.
LEMMA TakeFailureFits ==
    ASSUME IInv, TakeFailure
    PROVE  IInv'
<1>1. read.stage = "answered"
  BY DEF TakeFailure
<1>2. IsQuery(read.query) /\ IsAnswered(read, Len(log), chain)
  BY <1>1 DEF IInv, ReadFits, NoRead, IsAsked, IsReading, IsFitting
<1>3. /\ IsChain(chain) /\ SoundChain(chain)
      /\ chain.status = "reading" /\ Stands(chain, read.query, Len(log))
  BY <1>1 DEF IInv, ChainFits
<1>4. UNCHANGED <<target, log, member, changes, failures>>
  BY DEF TakeFailure, databaseUnchanged
<1>5. CASE read.outcome.status = "failure"
  <2>1. /\ read' = NoRead /\ trusted' = trusted
        /\ chain' = [chain EXCEPT !.status = read.outcome.code]
    BY <1>5 DEF TakeFailure
  <2>2. \/ read.outcome.code = "stream_unavailable"
        \/ read.outcome.code = "invalid_cursor" /\ chain.seen = <<>>
    BY <1>2, <1>5 DEF IsAnswered, StreamUnavailable, IntegrityError, Unanswered, InvalidCursor
  <2>3. PICK from, through \in Int, seen \in Seq(Int) :
           chain = [status |-> "reading", from |-> from, through |-> through, seen |-> seen]
    BY <1>3, ChainParts
  <2>4. PICK code \in {"stream_unavailable", "invalid_cursor"} :
           code = read.outcome.code /\ (code = "invalid_cursor" => seen = <<>>)
    BY <2>2, <2>3
  <2>5. PICK c : c = [status |-> code, from |-> from, through |-> through, seen |-> seen]
    OBVIOUS
  <2>6. chain' = c
    BY <2>1, <2>3, <2>4, <2>5
  <2>7. IsChain(c)
    BY <2>3, <2>5, RecordIsChain
  <2>8. SoundChain(c)
    BY <2>4, <2>5 DEF SoundChain
  <2> QED
    BY <1>4, <2>1, <2>6, <2>7, <2>8, EndFits
<1>6. CASE read.outcome.status # "failure"
  <2>1. Start(read.query, chain)
    BY <1>6 DEF TakeFailure
  <2> QED
    BY <1>2, <1>3, <1>4, <2>1, StartFits
<1> QED
  BY <1>5, <1>6

LEMMA NextFits == IInv /\ [Next]_vars => IInv'
<1> SUFFICES ASSUME IInv, [Next]_vars PROVE IInv'
  OBVIOUS
<1>1. CASE UNCHANGED vars
  BY <1>1 DEF vars, IInv, WorldFits
<1>2. ASSUME NEW text \in Sizes, Append1(text) PROVE IInv'
  BY <1>2, AppendFits
<1>3. ASSUME NEW n \in DOMAIN log, Delete(n) PROVE IInv'
  BY <1>3, DeleteFits
<1>4. ASSUME NEW n \in DOMAIN log, NEW text \in Sizes, Edit(n, text) PROVE IInv'
  BY <1>4, EditFits
<1>5. CASE ChangeMembership
  BY <1>5, MembershipFits
<1>6. CASE Resolve
  BY <1>6, ResolveFits
<1>7. CASE Authorize
  BY <1>7, AuthorizeFits
<1>8. CASE ReadMetadata
  BY <1>8, MetadataFit
<1>9. CASE ReadRows
  BY <1>9, RowsFit
<1>10. CASE Respond
  BY <1>10, RespondFits
<1>11. CASE Fail
  BY <1>11, FailFits
<1>12. ASSUME NEW q \in Queries, Begin(q) PROVE IInv'
  BY <1>12, BeginFits
<1>13. CASE TakePage
  BY <1>13, TakePageFits
<1>14. CASE TakeFailure
  BY <1>14, TakeFailureFits
<1> QED
  BY <1>1, <1>2, <1>3, <1>4, <1>5, <1>6, <1>7, <1>8, <1>9, <1>10, <1>11, <1>12, <1>13, <1>14
     DEF Next, Write, Serve, Client

LEMMA Invariant == Spec => []IInv
BY InitFits, NextFits, PTL DEF Spec

-----------------------------------------------------------------------------
(* What follows from it.                                                   *)

LEMMA InvariantHasType == IInv => TypeOK
<1> SUFFICES ASSUME IInv PROVE TypeOK
  OBVIOUS
<1>1. /\ target \in {"channel", "thread"} /\ member \in BOOLEAN /\ trusted \in BOOLEAN
      /\ Len(log) <= MaxLog /\ changes \in 0..MaxChanges /\ failures \in 0..MaxFailures
  BY DEF IInv, WorldFits
<1>2. \A n \in DOMAIN log :
         log[n] \in [seq : {n}, text : Sizes \cup {NoText}, edited : BOOLEAN, deleted : BOOLEAN]
  <2> SUFFICES ASSUME NEW n \in DOMAIN log
               PROVE  log[n] \in [seq : {n}, text : Sizes \cup {NoText},
                                 edited : BOOLEAN, deleted : BOOLEAN]
    OBVIOUS
  <2>1. log[n] \in Rows /\ log[n].seq = n
    BY DEF IInv, WorldFits, IsLog
  <2> QED
    BY <2>1 DEF Rows
<1>3. read.stage \in Stages /\ (read.stage # "none" => IsQuery(read.query))
  BY DEF IInv, ReadFits, IsAsked, IsReading, IsFitting, IsAnswered, NoRead, Stages
<1>4. chain.status \in {"none", "reading", "complete", "stream_unavailable", "invalid_cursor"}
  BY DEF IInv, IsChain, NoChain
<1> QED
  BY <1>1, <1>2, <1>3, <1>4 DEF TypeOK, IsQuery

LEMMA InvariantHidesStreams == IInv => StrangersLearnNothing
BY DEF IInv, TrustFits, StrangersLearnNothing

LEMMA InvariantJoinsChains == IInv => ChainsAreSound
<1> SUFFICES ASSUME SoundChain(chain) PROVE ChainsAreSound
  BY DEF IInv
<1> QED
  BY DEF SoundChain, ChainsAreSound, ChainsMissNothing, GivenCursorsAreGood

\* Where every message fits the envelope alone, no step answers a read by an
\* integrity error.
LEMMA NoStepFailsIntegrity ==
    ASSUME EveryMessageFits, IInv, NoIntegrityError, [Next]_vars
    PROVE  NoIntegrityError'
<1>0. ASSUME read'.stage # "answered" PROVE NoIntegrityError'
  BY <1>0 DEF NoIntegrityError
<1>1. ASSUME UNCHANGED read PROVE NoIntegrityError'
  BY <1>1 DEF NoIntegrityError
<1>2. ASSUME NEW outcome, Answer(outcome), outcome.status # "integrity" PROVE NoIntegrityError'
  <2>1. read'.outcome = outcome
    BY <1>2 DEF Answer, Answered
  <2> QED
    BY <1>2, <2>1 DEF NoIntegrityError
<1>3. ASSUME NEW stage \in {"authorize", "metadata"}, read.stage \in {"resolve", "authorize"},
             Goto(stage)
      PROVE  NoIntegrityError'
  <2>1. read = [stage |-> read.stage, query |-> read.query]
    BY <1>3, StageFits DEF IsAsked
  <2>2. read' = [stage |-> stage, query |-> read.query]
    BY <1>3, <2>1 DEF Goto
  <2> QED
    BY <1>0, <1>3, <2>2
<1>4. ASSUME NEW q, NEW c, Start(q, c) PROVE NoIntegrityError'
  BY <1>0, <1>4 DEF Start
<1>5. ASSUME read' = NoRead PROVE NoIntegrityError'
  BY <1>0, <1>5 DEF NoRead
<1>6. CASE UNCHANGED vars
  BY <1>1, <1>6 DEF vars
<1>7. CASE Write \/ ChangeMembership
  <2>1. ASSUME NEW n, NEW row, Mutate(n, row) PROVE UNCHANGED read
    BY <2>1 DEF Mutate
  <2>2. ASSUME NEW text, Append1(text) PROVE UNCHANGED read
    BY <2>2 DEF Append1
  <2>3. ChangeMembership => UNCHANGED read
    BY DEF ChangeMembership
  <2>5. ASSUME NEW n, Delete(n) PROVE UNCHANGED read
    BY <2>1, <2>5 DEF Delete
  <2>6. ASSUME NEW n, NEW text, Edit(n, text) PROVE UNCHANGED read
    BY <2>1, <2>6 DEF Edit
  <2>4. UNCHANGED read
    BY <1>7, <2>2, <2>3, <2>5, <2>6 DEF Write
  <2> QED
    BY <1>1, <2>4
<1>8. CASE Resolve
  BY <1>2, <1>3, <1>8 DEF Resolve, StreamUnavailable
<1>9. CASE Authorize
  BY <1>2, <1>3, <1>9 DEF Authorize, StreamUnavailable
<1>10. CASE ReadMetadata
  <2>1. CASE Answer(InvalidCursor)
    BY <1>2, <2>1 DEF InvalidCursor
  <2>2. CASE read'.stage \in {"fit", "rows"}
    BY <1>0, <2>2
  <2> QED
    BY <1>10, <2>1, <2>2 DEF ReadMetadata
<1>11. CASE ReadRows
  <2>1. read'.stage = "fit"
    BY <1>11, RowsAreFound
  <2> QED
    BY <1>0, <2>1
<1>12. CASE Respond
  <2>1. PICK outcome : Answer(outcome) /\ outcome.status = "page"
    BY <1>12, PageIsFitted
  <2> QED
    BY <1>2, <2>1
<1>13. CASE Fail
  BY <1>2, <1>13 DEF Fail, Unanswered
<1>14. CASE Client
  <2>1. CASE \E q \in Queries : Begin(q)
    BY <1>4, <2>1 DEF Begin
  <2>2. CASE TakePage
    BY <1>4, <1>5, <2>2 DEF TakePage
  <2>3. CASE TakeFailure
    BY <1>4, <1>5, <2>3 DEF TakeFailure
  <2> QED
    BY <1>14, <2>1, <2>2, <2>3 DEF Client
<1> QED
  BY <1>6, <1>7, <1>8, <1>9, <1>10, <1>11, <1>12, <1>13, <1>14 DEF Next, Serve

\* Every variable of the stream reads has its type, and the rows of the log are
\* the sequences 1..head.
THEOREM ReadsTypeCorrect == Spec => []TypeOK
BY Invariant, InvariantHasType, PTL

\* A page after the other delivers the stream, without a hole and without a
\* refusal of what an earlier page gave, for every size of texts, pages and
\* envelopes, however the stream grows and changes between two pages.
THEOREM ChainsDeliverTheStream == Spec => []ChainsAreSound
BY Invariant, InvariantJoinsChains, PTL

\* Whoever is no member learns neither the head of a stream nor whether a
\* thread exists.
THEOREM StrangersAreRefused == Spec => []StrangersLearnNothing
BY Invariant, InvariantHidesStreams, PTL

\* Where every message alone fits the envelope, every read is answered as it may
\* be: no window has a hole, no row is misread, and some message always fits.
THEOREM ReadsAnswerSoundly ==
    ASSUME EveryMessageFits
    PROVE  Spec => []ReadsAreSound
<1>1. Init => NoIntegrityError
  BY DEF Init, NoIntegrityError, NoRead
<1>2. IInv /\ NoIntegrityError /\ [Next]_vars => NoIntegrityError'
  BY NoStepFailsIntegrity
<1>3. TypeOK /\ NoIntegrityError /\ StrangersLearnNothing => ReadsAreSound
  BY DEF ReadsAreSound
<1> QED
  BY <1>1, <1>2, <1>3, Invariant, InvariantHasType, InvariantHidesStreams, PTL DEF Spec

-----------------------------------------------------------------------------
(* A read is one look at the stream.                                       *)

\* The answers are the same operators on both sides.
LEMMA SameAnswers ==
    ASSUME NEW s, NEW q
    PROVE  Atomic!AnswerOf(s, q) = AnswerOf(s, q)
<1>1. \A S : Atomic!Min(S) = Min(S) /\ Atomic!Max(S) = Max(S)
  BY DEF Atomic!Min, Min, Atomic!Max, Max
<1>2. \A i, j : Atomic!Messages(s, i, j) = Messages(s, i, j)
  BY DEF Atomic!Messages, Messages, Atomic!MessageOf, MessageOf, Atomic!Stamps, Stamps,
         Atomic!NoText, NoText
<1>3. \A i, j : Atomic!Size(s, i, j) = Size(s, i, j)
  BY DEF Atomic!Size, Size
<1>4. \A j, n : Atomic!StartOf(s, j, n) = StartOf(s, j, n)
  BY <1>1, <1>3 DEF Atomic!StartOf, StartOf
<1>5. \A i, n : Atomic!EndOf(s, i, n) = EndOf(s, i, n)
  BY <1>1, <1>3 DEF Atomic!EndOf, EndOf
<1>6. \A ms : /\ \A n : Atomic!LatestPage(n, ms) = LatestPage(n, ms)
              /\ \A n : Atomic!OlderPage(n, ms) = OlderPage(n, ms)
              /\ \A n, t : Atomic!SyncPage(n, t, ms) = SyncPage(n, t, ms)
  BY DEF Atomic!LatestPage, LatestPage, Atomic!OlderPage, OlderPage, Atomic!SyncPage, SyncPage,
         Atomic!FirstSeq, FirstSeq, Atomic!HasMoreBefore, HasMoreBefore, Atomic!NoCursor, NoCursor,
         Atomic!Last, Last
<1>7. Atomic!LatestOf(s) = LatestOf(s)
  BY <1>1, <1>2, <1>4, <1>6 DEF Atomic!LatestOf, LatestOf
<1>8. Atomic!OlderOf(s, q) = OlderOf(s, q)
  BY <1>1, <1>2, <1>4, <1>6 DEF Atomic!OlderOf, OlderOf
<1>9. Atomic!AfterOf(s, q) = AfterOf(s, q)
  BY <1>1, <1>2, <1>5, <1>6 DEF Atomic!AfterOf, AfterOf, Atomic!NoCursor, NoCursor
<1>10. Atomic!IsBehind(s, q) <=> IsBehind(s, q)
  BY DEF Atomic!IsBehind, IsBehind
<1>11. Atomic!BadCursor = BadCursor
  BY DEF Atomic!BadCursor, BadCursor
<1> QED
  BY <1>7, <1>8, <1>9, <1>10, <1>11 DEF Atomic!AnswerOf, AnswerOf

\* A question, and what is settled of its reply, as AtomicReads sees them.
Question == IF read.stage = "none" THEN [kind |-> "none"] ELSE read.query

QuestionUndecided == [status |-> "undecided"]

LEMMA AtomicStutters ==
    ASSUME UNCHANGED log, Question' = Question, Settled' = Settled
    PROVE  UNCHANGED Atomic!vars
BY DEF Atomic!vars, Question

LEMMA AtomicAsks ==
    ASSUME UNCHANGED log, IsQuery(Question'), Settled' = QuestionUndecided
    PROVE  Atomic!Next
<1>1. Question' # [kind |-> "none"]
  <2>1. \A q : IsQuery(q) => q # [kind |-> "none"]
    BY QueryShape
  <2> QED
    BY <2>1
<1> QED
  BY <1>1 DEF Atomic!Next, Atomic!Ask, Atomic!None, Atomic!Undecided, Question, QuestionUndecided

LEMMA AtomicIsDone ==
    ASSUME UNCHANGED log, Question' = [kind |-> "none"], Settled' = QuestionUndecided
    PROVE  Atomic!Next
BY DEF Atomic!Next, Atomic!Done, Atomic!None, Atomic!Undecided, Question, QuestionUndecided

LEMMA AtomicDecides ==
    ASSUME UNCHANGED log, Question' = Question, IsQuery(Question), Settled = QuestionUndecided,
           Settled' \in {AnswerOf(log, Question), StreamUnavailable, Unanswered}
    PROVE  Atomic!Next
<1>1. Question # [kind |-> "none"]
  <2>1. \A q : IsQuery(q) => q # [kind |-> "none"]
    BY QueryShape
  <2> QED
    BY <2>1
<1>2. Settled' \in {Atomic!AnswerOf(log, Question), StreamUnavailable, Unanswered}
  BY SameAnswers
<1> QED
  BY <1>1, <1>2 DEF Atomic!Next, Atomic!Decide, Atomic!None, Atomic!Undecided, Atomic!Refusal,
     Atomic!Failed, Question, QuestionUndecided, StreamUnavailable, Unanswered

LEMMA AtomicLoses ==
    ASSUME UNCHANGED log, Question' = Question, Settled.status = "page", Settled' = Unanswered
    PROVE  Atomic!Next
BY DEF Atomic!Next, Atomic!Lose, Atomic!Failed, Question, Unanswered

LEMMA AtomicChanges ==
    ASSUME UNCHANGED read, IsLog(log), IsLog(log'), log' # log,
           Len(log') = Len(log) \/ Len(log') = Len(log) + 1,
           \A n \in DOMAIN log : log[n].deleted => log'[n] = log[n]
    PROVE  Atomic!Next
<1>1. \A n \in DOMAIN log' : log'[n].seq = n
  BY DEF IsLog
<1>2. Question' = Question /\ Settled' = Settled
  BY DEF Question, Settled
<1> QED
  BY <1>1, <1>2 DEF Atomic!Next, Atomic!Change, Atomic!HeadSeq, Question

\* What is settled, by the stage of a read.
LEMMA SettledAt ==
    /\ read.stage \notin {"rows", "fit", "answered"} => Settled = QuestionUndecided
    /\ read.stage \in {"rows", "fit"} => Settled = AnswerOf(read.snapshot, read.query)
    /\ read.stage = "answered" => Settled = read.outcome
    /\ read.stage # "none" => Question = read.query
    /\ read = NoRead => Question = [kind |-> "none"] /\ Settled = QuestionUndecided
BY DEF Settled, Question, QuestionUndecided, NoRead

LEMMA SettledThen ==
    /\ read'.stage \notin {"rows", "fit", "answered"} => Settled' = QuestionUndecided
    /\ read'.stage \in {"rows", "fit"} => Settled' = AnswerOf(read'.snapshot, read'.query)
    /\ read'.stage = "answered" => Settled' = read'.outcome
    /\ read'.stage # "none" => Question' = read'.query
    /\ read' = NoRead => Question' = [kind |-> "none"] /\ Settled' = QuestionUndecided
BY DEF Settled, Question, QuestionUndecided, NoRead

\* The answer of a stream is a page when no cursor is ahead of it.
LEMMA AnswerIsPage ==
    ASSUME NEW s, IsLog(s), NEW q, IsQuery(q)
    PROVE  /\ IsAhead(q, Len(s)) => AnswerOf(s, q) = InvalidCursor
           /\ ~IsAhead(q, Len(s)) => AnswerOf(s, q).status = "page"
<1>1. Len(s) \in Nat
  BY DEF IsLog
<1>2. IsBehind(s, q) <=> ~IsAhead(q, Len(s))
  <2>1. CASE q.kind = "latest"
    BY <2>1 DEF IsBehind, IsAhead
  <2>2. CASE q.kind = "older" /\ q.before \in Nat
    <3>1. PICK before \in Nat : before = q.before
      BY <2>2
    <3>2. before <= Len(s) + 1 <=> ~(before > Len(s) + 1)
      BY <1>1, <3>1
    <3> QED
      BY <2>2, <3>1, <3>2 DEF IsBehind, IsAhead
  <2>3. CASE q.kind = "sync" /\ q.after \in Nat /\ q.through \in Nat \cup {NoCursor}
    <3>1. q.through \in Int /\ q.after \in Int
      BY <2>3 DEF NoCursor
    <3>2. (q.after <= Len(s) /\ q.through <= Len(s)) <=> ~(q.after > Len(s) \/ q.through > Len(s))
      BY <1>1, <3>1
    <3> QED
      BY <2>3, <3>2 DEF IsBehind, IsAhead
  <2> QED
    BY <2>1, <2>2, <2>3, QueryShape
<1> QED
  BY <1>2 DEF AnswerOf, BadCursor, InvalidCursor

\* One lemma for each action that is more than a stutter.
LEMMA MutateIsChange ==
    ASSUME IInv, IInv', NEW n, NEW row, Mutate(n, row)
    PROVE  [Atomic!Next]_Atomic!vars
<1>1. UNCHANGED read /\ log' = [log EXCEPT ![n] = row] /\ ~log[n].deleted
  BY DEF Mutate
<1>2. IsLog(log) /\ IsLog(log') /\ log \in Seq(Rows)
  BY DEF IInv, WorldFits, IsLog
<1>3. Len(log') = Len(log) /\ DOMAIN log' = DOMAIN log
  BY <1>1, <1>2
<1>4. \A m \in DOMAIN log : log[m].deleted => log'[m] = log[m]
  BY <1>1, <1>2
<1>5. CASE log' = log
  <2>1. Question' = Question /\ Settled' = Settled
    BY <1>1 DEF Question, Settled
  <2> QED
    BY <1>5, <2>1, AtomicStutters
<1>6. CASE log' # log
  BY <1>1, <1>2, <1>3, <1>4, <1>6, AtomicChanges
<1> QED
  BY <1>5, <1>6

LEMMA AppendIsChange ==
    ASSUME IInv, IInv', NEW text, Append1(text)
    PROVE  [Atomic!Next]_Atomic!vars
<1>1. IsLog(log) /\ IsLog(log') /\ log \in Seq(Rows) /\ UNCHANGED read
  BY DEF IInv, WorldFits, IsLog, Append1
<1>2. PICK row : log' = Append(log, row)
  BY DEF Append1
<1>3. /\ Len(log') = Len(log) + 1 /\ Len(log) \in Nat
      /\ \A n \in DOMAIN log : log'[n] = log[n]
  BY <1>1, <1>2
<1>4. log' # log
  <2>1. Len(log) + 1 # Len(log)
    BY <1>3
  <2> QED
    BY <1>3, <2>1
<1> QED
  BY <1>1, <1>3, <1>4, AtomicChanges

LEMMA RefusalIsDecided ==
    ASSUME IInv, read.stage \in {"resolve", "authorize", "metadata"}, UNCHANGED log,
           NEW outcome, Answer(outcome),
           outcome \in {AnswerOf(log, read.query), StreamUnavailable, Unanswered}
    PROVE  [Atomic!Next]_Atomic!vars
<1>1. read'.stage = "answered" /\ read'.query = read.query /\ read'.outcome = outcome
  BY DEF Answer, Answered
<1>2. IsQuery(read.query)
  BY StageFits
<1>3. Settled = QuestionUndecided /\ Question = read.query
  BY SettledAt
<1>4. Settled' = outcome /\ Question' = read.query
  BY <1>1, SettledThen
<1> QED
  BY <1>2, <1>3, <1>4, AtomicDecides

LEMMA GotoIsStutter ==
    ASSUME IInv, read.stage \in {"resolve", "authorize"}, UNCHANGED log,
           NEW stage \in {"authorize", "metadata"}, Goto(stage)
    PROVE  [Atomic!Next]_Atomic!vars
<1>1. read = [stage |-> read.stage, query |-> read.query]
  BY StageFits DEF IsAsked
<1>2. read' = [stage |-> stage, query |-> read.query]
  BY <1>1 DEF Goto
<1>3. read'.stage = stage /\ read'.query = read.query
  BY <1>2
<1>4. Settled = QuestionUndecided /\ Question = read.query
  BY SettledAt
<1>5. Settled' = QuestionUndecided /\ Question' = read.query
  BY <1>3, SettledThen
<1> QED
  BY <1>4, <1>5, AtomicStutters

LEMMA MetadataDecides ==
    ASSUME IInv, ReadMetadata
    PROVE  [Atomic!Next]_Atomic!vars
<1>1. read.stage = "metadata" /\ UNCHANGED log
  BY DEF ReadMetadata, databaseUnchanged
<1>2. IsQuery(read.query) /\ IsLog(log)
  BY <1>1, StageFits DEF IInv, WorldFits
<1>3. CASE IsAhead(read.query, Len(log))
  <2>1. Answer(InvalidCursor)
    BY <1>3 DEF ReadMetadata, HeadSequence
  <2>2. InvalidCursor = AnswerOf(log, read.query)
    BY <1>2, <1>3, AnswerIsPage
  <2> QED
    BY <1>1, <2>1, <2>2, RefusalIsDecided
<1>4. CASE ~IsAhead(read.query, Len(log))
  <2>1. read'.stage \in {"rows", "fit"} /\ read'.query = read.query /\ read'.snapshot = log
    BY <1>4 DEF ReadMetadata, HeadSequence
  <2>2. Settled = QuestionUndecided /\ Question = read.query
    BY <1>1, SettledAt
  <2>3. Settled' = AnswerOf(log, read.query) /\ Question' = read.query
    BY <2>1, SettledThen
  <2> QED
    BY <1>1, <1>2, <2>2, <2>3, AtomicDecides
<1> QED
  BY <1>3, <1>4

LEMMA RowsAreSettled ==
    ASSUME IInv, ReadRows
    PROVE  [Atomic!Next]_Atomic!vars
<1>1. UNCHANGED log
  BY DEF ReadRows, databaseUnchanged
<1>2. /\ read.stage = "rows" /\ read'.stage = "fit"
      /\ read'.query = read.query /\ read'.snapshot = read.snapshot
  BY RowsAreFound
<1>3. Settled = AnswerOf(read.snapshot, read.query) /\ Question = read.query
  BY <1>2, SettledAt
<1>4. Settled' = AnswerOf(read.snapshot, read.query) /\ Question' = read.query
  BY <1>2, SettledThen
<1> QED
  BY <1>1, <1>3, <1>4, AtomicStutters

\* The page that was settled when the metadata were read is the one that is
\* answered.
LEMMA PageIsSettled ==
    ASSUME EveryMessageFits, IInv, Respond
    PROVE  [Atomic!Next]_Atomic!vars
<1>1. read.stage = "fit" /\ UNCHANGED log
  BY DEF Respond, databaseUnchanged
<1>2. PICK outcome : Answer(outcome) /\ outcome = AnswerOf(read.snapshot, read.query)
  BY PageIsFitted
<1>3. read'.stage = "answered" /\ read'.query = read.query /\ read'.outcome = outcome
  BY <1>2 DEF Answer, Answered
<1>4. Settled = outcome /\ Question = read.query
  BY <1>1, <1>2, SettledAt
<1>5. Settled' = outcome /\ Question' = read.query
  BY <1>3, SettledThen
<1> QED
  BY <1>1, <1>4, <1>5, AtomicStutters

LEMMA FailureIsDecidedOrLost ==
    ASSUME IInv, Fail
    PROVE  [Atomic!Next]_Atomic!vars
<1>1. UNCHANGED log /\ Answer(Unanswered) /\ read.stage \notin {"none", "answered"}
  BY DEF Fail, databaseUnchanged
<1>2. CASE read.stage \in {"resolve", "authorize", "metadata"}
  BY <1>1, <1>2, RefusalIsDecided
<1>3. CASE read.stage \in {"rows", "fit"}
  <2>1. IsQuery(read.query) /\ IsLookedUp(read, Len(log))
    BY <1>1, <1>3, StageFits DEF IsReading, IsFitting
  <2>2. AnswerOf(read.snapshot, read.query).status = "page"
    BY <2>1, AnswerIsPage DEF IsLookedUp
  <2>3. Settled = AnswerOf(read.snapshot, read.query) /\ Question = read.query
    BY <1>3, SettledAt
  <2>4. read'.stage = "answered" /\ read'.query = read.query /\ read'.outcome = Unanswered
    BY <1>1 DEF Answer, Answered
  <2>5. Settled' = Unanswered /\ Question' = read.query
    BY <2>4, SettledThen
  <2> QED
    BY <1>1, <2>2, <2>3, <2>5, AtomicLoses
<1>4. read.stage \in {"resolve", "authorize", "metadata", "rows", "fit"}
  BY <1>1 DEF IInv, ReadFits, IsAsked, IsReading, IsFitting, IsAnswered, NoRead
<1> QED
  BY <1>2, <1>3, <1>4

LEMMA StartAsks ==
    ASSUME NEW q, IsQuery(q), NEW c, Start(q, c), UNCHANGED log
    PROVE  [Atomic!Next]_Atomic!vars
<1>1. read'.stage = "resolve" /\ read'.query = q
  BY DEF Start
<1>2. Settled' = QuestionUndecided /\ Question' = q
  BY <1>1, SettledThen
<1> QED
  BY <1>2, AtomicAsks

LEMMA EndIsDone ==
    ASSUME read' = NoRead, UNCHANGED log
    PROVE  [Atomic!Next]_Atomic!vars
<1>1. Settled' = QuestionUndecided /\ Question' = [kind |-> "none"]
  BY SettledThen
<1> QED
  BY <1>1, AtomicIsDone

\* The queries that a client begins are admitted.
LEMMA ClientAsks ==
    ASSUME IInv, IInv', Client
    PROVE  [Atomic!Next]_Atomic!vars
<1>1. UNCHANGED log
  BY DEF Client, Begin, TakePage, TakeFailure, databaseUnchanged
<1>2. ASSUME NEW q, NEW c, Start(q, c) PROVE IsQuery(q)
  <2>1. read'.stage = "resolve" /\ read'.query = q
    BY <1>2 DEF Start
  <2>2. ReadFits(read', Len(log'), chain')
    BY DEF IInv
  <2> QED
    BY <2>1, <2>2 DEF ReadFits, NoRead
<1>3. (\E q, c : Start(q, c)) \/ read' = NoRead
  <2>1. CASE \E q \in Queries : Begin(q)
    BY <2>1 DEF Begin
  <2>2. CASE TakePage
    BY <2>2 DEF TakePage
  <2>3. CASE TakeFailure
    BY <2>3 DEF TakeFailure
  <2> QED
    BY <2>1, <2>2, <2>3 DEF Client
<1> QED
  BY <1>1, <1>2, <1>3, StartAsks, EndIsDone

LEMMA AtomicStep ==
    ASSUME EveryMessageFits, IInv, IInv', [Next]_vars
    PROVE  [Atomic!Next]_Atomic!vars
<1>0. ASSUME UNCHANGED <<log, read>> PROVE [Atomic!Next]_Atomic!vars
  <2>1. UNCHANGED log /\ Question' = Question /\ Settled' = Settled
    BY <1>0 DEF Question, Settled
  <2> QED
    BY <2>1, AtomicStutters
<1>1. CASE UNCHANGED vars
  BY <1>0, <1>1 DEF vars
<1>2. ASSUME NEW text \in Sizes, Append1(text) PROVE [Atomic!Next]_Atomic!vars
  BY <1>2, AppendIsChange
<1>3. ASSUME NEW n \in DOMAIN log, Delete(n) PROVE [Atomic!Next]_Atomic!vars
  BY <1>3, MutateIsChange DEF Delete
<1>4. ASSUME NEW n \in DOMAIN log, NEW text \in Sizes, Edit(n, text)
      PROVE  [Atomic!Next]_Atomic!vars
  BY <1>4, MutateIsChange DEF Edit
<1>5. CASE ChangeMembership
  BY <1>0, <1>5 DEF ChangeMembership
<1>6. CASE Resolve
  <2>1. read.stage = "resolve" /\ UNCHANGED log
    BY <1>6 DEF Resolve, databaseUnchanged
  <2>2. Answer(StreamUnavailable) \/ Goto("authorize")
    BY <1>6 DEF Resolve
  <2> QED
    BY <2>1, <2>2, RefusalIsDecided, GotoIsStutter
<1>7. CASE Authorize
  <2>1. read.stage = "authorize" /\ UNCHANGED log
    BY <1>7 DEF Authorize, databaseUnchanged
  <2>2. Answer(StreamUnavailable) \/ Goto("metadata")
    BY <1>7 DEF Authorize
  <2> QED
    BY <2>1, <2>2, RefusalIsDecided, GotoIsStutter
<1>8. CASE ReadMetadata
  BY <1>8, MetadataDecides
<1>9. CASE ReadRows
  BY <1>9, RowsAreSettled
<1>10. CASE Respond
  BY <1>10, PageIsSettled
<1>11. CASE Fail
  BY <1>11, FailureIsDecidedOrLost
<1>12. CASE Client
  BY <1>12, ClientAsks
<1> QED
  BY <1>1, <1>2, <1>3, <1>4, <1>5, <1>6, <1>7, <1>8, <1>9, <1>10, <1>11, <1>12
     DEF Next, Write, Serve

\* A read in three statements, fitted afterwards and perhaps lost, is to its
\* reader one look at the stream: the reads implement AtomicReads, where every
\* message alone fits the envelope.
THEOREM ReadsAreOneLook ==
    ASSUME EveryMessageFits
    PROVE  Spec => ReadsAreAtomic
<1>1. Init => Atomic!Init
  <2> SUFFICES ASSUME Init PROVE Atomic!Init
    OBVIOUS
  <2>1. log = <<>> /\ read = NoRead
    BY DEF Init
  <2>2. Question = [kind |-> "none"] /\ Settled = QuestionUndecided
    BY <2>1, SettledAt
  <2> QED
    BY <2>1, <2>2 DEF Atomic!Init, Atomic!None, Atomic!Undecided, Question, QuestionUndecided
<1>2. IInv /\ IInv' /\ [Next]_vars => [Atomic!Next]_Atomic!vars
  BY AtomicStep
<1> QED
  BY <1>1, <1>2, Invariant, PTL DEF Spec, ReadsAreAtomic, Atomic!Spec

-----------------------------------------------------------------------------
(***************************************************************************)
(* The relay                                                               *)
(***************************************************************************)
Runs == [session : Sessions, target : Targets, stage : {"limiting", "api", "sending", "over"}]

Events == {"gateway.not_ready", "synced", "rejected", "failed"}

TypeFits ==
    /\ RelayTypeOK
    /\ request \in [Requests -> {NotReceived} \cup Runs]
    /\ sent \in [Requests -> SUBSET Events]
    /\ registered \in BOOLEAN /\ limited \in BOOLEAN

\* A request that can still be answered has not been.
NotAnswered ==
    \A r \in Requests : request[r].stage \in {"none", "limiting", "api"} => sent[r] = {}

\* Without a rate limiter the entry of a request under way is its own: this is
\* what OnePerTarget rests on.  A request is aborted only after it has run.
Exact ==
    /\ \A r \in Requests : request[r].stage # "limiting"
    /\ \A r \in aborted : request[r].stage # "none"
    /\ \A k \in DOMAIN inFlight :
         Running(inFlight[k]) /\ Key(inFlight[k]) = k /\ registered /\ IsReady(k[1])
    /\ \A r \in Requests : Running(r) => Key(r) \in DOMAIN inFlight /\ inFlight[Key(r)] = r

RelayInv == TypeFits /\ NotAnswered /\ (~limited => Exact)

LEMMA RelayInitially == RelayInit => RelayInv
<1> SUFFICES ASSUME RelayInit PROVE RelayInv
  OBVIOUS
<1>1. \A r \in Requests : request[r] = NotReceived /\ request[r].stage = "none"
  BY DEF RelayInit, NotReceived
<1>2. DOMAIN inFlight = {} /\ aborted = {}
  BY DEF RelayInit
<1>3. TypeFits
  BY <1>1, <1>2 DEF RelayInit, TypeFits, RelayTypeOK
<1>4. NotAnswered
  BY DEF RelayInit, NotAnswered
<1>5. Exact
  BY <1>1, <1>2 DEF Exact, Running
<1> QED
  BY <1>3, <1>4, <1>5 DEF RelayInv

-----------------------------------------------------------------------------
(* Sessions.                                                               *)

\* A session gets ready or its socket closes: it is ready, for the relay, if
\* it was.
LEMMA SessionMovesKeep ==
    ASSUME RelayInv, NEW s \in Sessions, SessionReady(s) \/ SocketCloses(s)
    PROVE  RelayInv'
<1>1. UNCHANGED <<request, inFlight, aborted, sent, registered, limited>>
  BY DEF SessionReady, SocketCloses
<1>2. session' \in [Sessions -> {"authenticating", "ready", "closing", "closed"}]
      /\ \A x \in Sessions : IsReady(x) => IsReady(x)'
  BY DEF SessionReady, SocketCloses, RelayInv, TypeFits, RelayTypeOK, IsReady
<1>3. TypeFits'
  BY <1>1, <1>2 DEF RelayInv, TypeFits, RelayTypeOK
<1>4. NotAnswered'
  BY <1>1 DEF RelayInv, NotAnswered
<1>5. ASSUME ~limited PROVE Exact'
  <2>1. \A k \in DOMAIN inFlight : k[1] \in Sessions
    BY DEF RelayInv, TypeFits, RelayTypeOK
  <2> QED BY <1>1, <1>2, <1>5, <2>1 DEF RelayInv, Exact, Running, Key
<1> QED
  BY <1>1, <1>3, <1>4, <1>5 DEF RelayInv

\* The entries in keys leave the map and their requests are aborted.
Aborts(keys) ==
    /\ aborted' = aborted \cup {inFlight[k] : k \in keys}
    /\ DOMAIN inFlight' = DOMAIN inFlight \ keys
    /\ \A k \in DOMAIN inFlight \ keys : inFlight'[k] = inFlight[k]

LEMMA AbortsKeep ==
    ASSUME RelayInv, NEW keys \in SUBSET DOMAIN inFlight, Aborts(keys),
           UNCHANGED <<request, sent, limited>>,
           session' \in [Sessions -> {"authenticating", "ready", "closing", "closed"}],
           registered' \in BOOLEAN,
           ~limited => \A k \in DOMAIN inFlight \ keys :
                          registered' = registered /\ session'[k[1]] = session[k[1]]
    PROVE  RelayInv'
<1>1. TypeFits /\ NotAnswered
  BY DEF RelayInv
<1>2. DOMAIN inFlight' = DOMAIN inFlight \ keys
      /\ (\A k \in DOMAIN inFlight' : inFlight'[k] = inFlight[k])
      /\ (\A k \in keys : inFlight[k] \in aborted') /\ aborted \subseteq aborted'
  BY DEF Aborts
<1>3. aborted' \subseteq Requests
  BY <1>1 DEF Aborts, TypeFits, RelayTypeOK
<1>4. TypeFits'
  BY <1>1, <1>2, <1>3 DEF TypeFits, RelayTypeOK
<1>5. NotAnswered'
  BY <1>1 DEF NotAnswered
<1>6. ASSUME ~limited PROVE Exact'
  <2>1. Exact
    BY <1>6 DEF RelayInv
  <2>2. \A r \in aborted' : request[r].stage # "none"
    BY <2>1 DEF Exact, Aborts, Running
  <2>3. ASSUME NEW k \in DOMAIN inFlight'
        PROVE  Running(inFlight[k])'
    <3>1. Running(inFlight[k]) /\ Key(inFlight[k]) = k /\ inFlight[k] \in Requests
      BY <1>1, <1>2, <2>1 DEF Exact, TypeFits, RelayTypeOK
    <3>2. \A x \in keys : inFlight[x] # inFlight[k]
      BY <1>2, <2>1, <3>1 DEF Exact
    <3> QED BY <1>2, <3>1, <3>2 DEF Running, Aborts
  <2>4. ASSUME NEW k \in DOMAIN inFlight'
        PROVE  Key(inFlight[k])' = k /\ registered' /\ IsReady(k[1])'
    <3>1. k \in DOMAIN inFlight \ keys /\ inFlight'[k] = inFlight[k]
      BY <1>2
    <3>2. Key(inFlight[k]) = k /\ registered /\ IsReady(k[1])
      BY <2>1, <3>1 DEF Exact
    <3> QED BY <1>6, <3>1, <3>2 DEF Key, IsReady
  <2>5. ASSUME NEW r \in Requests, Running(r)'
        PROVE  Key(r)' \in DOMAIN inFlight' /\ inFlight'[Key(r)'] = r
    <3>1. Running(r) /\ Key(r)' = Key(r)
      BY <1>2, <2>5 DEF Running, Key
    <3>2. Key(r) \in DOMAIN inFlight /\ inFlight[Key(r)] = r /\ Key(r) \notin keys
      BY <1>2, <2>1, <2>5, <3>1 DEF Exact, Running
    <3> QED BY <1>2, <3>1, <3>2
  <2> QED BY <2>1, <2>2, <2>3, <2>4, <2>5 DEF Exact, Running
<1> QED
  BY <1>4, <1>5, <1>6 DEF RelayInv

LEMMA SessionClosesKeeps ==
    ASSUME RelayInv, NEW s \in Sessions, SessionCloses(s)
    PROVE  RelayInv'
<1>1. /\ session' = [session EXCEPT ![s] = "closed"]
      /\ UNCHANGED <<request, sent, registered, limited>>
  BY DEF SessionCloses
<1>2. session' \in [Sessions -> {"authenticating", "ready", "closing", "closed"}]
      /\ \A x \in Sessions \ {s} : session'[x] = session[x]
  BY <1>1 DEF RelayInv, TypeFits, RelayTypeOK
<1>3. \A k \in DOMAIN inFlight : k[1] \in Sessions
  BY DEF RelayInv, TypeFits, RelayTypeOK
<1>4. registered' \in BOOLEAN
  BY <1>1 DEF RelayInv, TypeFits
<1>5. CASE registered
  <2>1. PICK keys \in SUBSET DOMAIN inFlight : keys = {k \in DOMAIN inFlight : k[1] = s}
    OBVIOUS
  <2>2. Aborts(keys)
    BY <1>5, <2>1 DEF SessionCloses, AbortSession, Aborts, Without
  <2>3. \A k \in DOMAIN inFlight \ keys : session'[k[1]] = session[k[1]]
    BY <1>2, <1>3, <2>1
  <2> QED BY <1>1, <1>2, <1>4, <2>2, <2>3, AbortsKeep
<1>6. CASE ~registered
  <2>1. Aborts({})
    BY <1>6 DEF SessionCloses, Aborts
  <2>2. ~limited => DOMAIN inFlight = {}
    BY <1>6 DEF RelayInv, Exact
  <2> QED BY <1>1, <1>2, <1>4, <2>1, <2>2, AbortsKeep
<1> QED
  BY <1>5, <1>6

LEMMA UnregisterKeeps ==
    ASSUME RelayInv, Unregister
    PROVE  RelayInv'
<1>1. PICK keys \in SUBSET DOMAIN inFlight : keys = DOMAIN inFlight
  OBVIOUS
<1>2. Aborts(keys)
  BY <1>1 DEF Unregister, Aborts, Without
<1>3. UNCHANGED <<session, request, sent, limited>> /\ registered' \in BOOLEAN
      /\ session' \in [Sessions -> {"authenticating", "ready", "closing", "closed"}]
  BY DEF Unregister, RelayInv, TypeFits, RelayTypeOK
<1> QED
  BY <1>1, <1>2, <1>3, AbortsKeep

-----------------------------------------------------------------------------
(* Frames and answers.                                                     *)

\* Told sends at most one event, and none to a session that is closed.
LEMMA ToldSends ==
    ASSUME TypeFits, NEW r \in Requests, NEW s \in Sessions, NEW event \in Events
    PROVE  /\ Told(r, s, event) \in [Requests -> SUBSET Events]
           /\ \A q \in Requests : q # r => Told(r, s, event)[q] = sent[q]
           /\ Told(r, s, event) # sent => session[s] # "closed"
BY DEF Told, TypeFits

\* Only the run of r moves, and what it sends is the first that it sends.
OnlyRun(r) ==
    /\ request' \in [Requests -> {NotReceived} \cup Runs]
    /\ sent' \in [Requests -> SUBSET Events]
    /\ \A q \in Requests : q # r => request'[q] = request[q] /\ sent'[q] = sent[q]
    /\ request'[r].stage \in {"limiting", "api"} => sent'[r] = sent[r] /\ sent[r] = {}
    /\ request'[r].stage \in {"limiting", "api", "sending", "over"}
    /\ UNCHANGED <<aborted, registered, limited>>

\* The session of an entry stays as it is, or its socket closes.
StayReady ==
    /\ session' \in [Sessions -> {"authenticating", "ready", "closing", "closed"}]
    /\ \A x \in Sessions : IsReady(x) => IsReady(x)'

LEMMA OnlyRunTypes ==
    ASSUME RelayInv, NEW r \in Requests, OnlyRun(r), StayReady,
           DOMAIN inFlight' \subseteq Sessions \X Targets,
           \A k \in DOMAIN inFlight' : inFlight'[k] \in Requests
    PROVE  TypeFits' /\ NotAnswered'
<1> USE DEF OnlyRun, StayReady
<1>1. TypeFits /\ NotAnswered
  BY DEF RelayInv
<1>2. \A q \in Requests : request'[q] # NotReceived =>
         /\ request'[q].session \in Sessions /\ request'[q].target \in Targets
         /\ request'[q].stage \in {"limiting", "api", "sending", "over"}
  BY DEF Runs
<1>3. \A q \in Requests : sent'[q] \subseteq Events
  OBVIOUS
<1>4. TypeFits'
  BY <1>1, <1>2, <1>3 DEF TypeFits, RelayTypeOK, Events
<1>5. NotAnswered'
  BY <1>1 DEF NotAnswered
<1> QED
  BY <1>4, <1>5

\* A run that is over, and has taken its entry from the map or had none.
LEMMA RunEndsKeeps ==
    ASSUME RelayInv, NEW r \in Requests, OnlyRun(r), StayReady, request'[r].stage = "over",
           \A k \in DOMAIN inFlight' : k \in DOMAIN inFlight /\ inFlight'[k] = inFlight[k],
           ~limited => \A k \in DOMAIN inFlight : k \in DOMAIN inFlight' <=> inFlight[k] # r
    PROVE  RelayInv'
<1> USE DEF OnlyRun, StayReady
<1>1. TypeFits /\ NotAnswered
  BY DEF RelayInv
<1>2. \A k \in DOMAIN inFlight' : k \in Sessions \X Targets /\ inFlight'[k] \in Requests
  BY <1>1 DEF TypeFits, RelayTypeOK
<1>3. TypeFits' /\ NotAnswered'
  BY <1>2, OnlyRunTypes
<1>4. ASSUME ~limited PROVE Exact'
  <2>1. Exact
    BY <1>4 DEF RelayInv
  <2>2. \A q \in aborted : q \in Requests
    BY <1>1 DEF TypeFits, RelayTypeOK
  <2>3. ASSUME NEW k \in DOMAIN inFlight'
        PROVE  (Running(inFlight[k]) /\ Key(inFlight[k]) = k)' /\ registered' /\ IsReady(k[1])'
    <3>1. k \in DOMAIN inFlight /\ inFlight'[k] = inFlight[k] /\ inFlight[k] \in Requests
          /\ k[1] \in Sessions
      BY <1>1 DEF TypeFits, RelayTypeOK
    <3>2. Running(inFlight[k]) /\ Key(inFlight[k]) = k /\ registered /\ IsReady(k[1])
      BY <2>1, <3>1 DEF Exact
    <3>3. inFlight[k] # r
      BY <1>4, <3>1
    <3> QED BY <3>1, <3>2, <3>3 DEF Running, Key
  <2>4. ASSUME NEW q \in Requests, Running(q)'
        PROVE  Key(q)' \in DOMAIN inFlight' /\ inFlight'[Key(q)'] = q
    <3>1. q # r
      BY <2>4 DEF Running
    <3>2. Running(q) /\ Key(q)' = Key(q)
      BY <2>4, <3>1 DEF Running, Key
    <3>3. Key(q) \in DOMAIN inFlight /\ inFlight[Key(q)] = q
      BY <2>1, <3>2 DEF Exact
    <3> QED BY <1>4, <3>1, <3>2, <3>3
  <2> QED BY <2>1, <2>2, <2>3, <2>4 DEF Exact
<1> QED
  BY <1>3, <1>4 DEF RelayInv

\* A run that goes to the API: it has the entry of its target.
LEMMA RegisteredKeeps ==
    ASSUME RelayInv, NEW r \in Requests, NEW s \in Sessions, NEW t \in Targets,
           OnlyRun(r), UNCHANGED session, Registered(r, s, t),
           ~limited => /\ request[r] = NotReceived /\ registered /\ IsReady(s)
                       /\ ~UnderWay(s, t)
    PROVE  RelayInv'
<1> USE DEF OnlyRun
<1>1. TypeFits
  BY DEF RelayInv
<1>2. PICK key : key = <<s, t>> /\ key \in Sessions \X Targets /\ key[1] = s
  <2>1. <<s, t>> \in Sessions \X Targets /\ <<s, t>>[1] = s
    OBVIOUS
  <2> QED BY <2>1
<1>3. DOMAIN inFlight' = DOMAIN inFlight \cup {key} /\ inFlight'[key] = r
      /\ \A k \in DOMAIN inFlight : k # key => inFlight'[k] = inFlight[k]
  BY <1>2 DEF Registered
<1>4. request'[r] = [session |-> s, target |-> t, stage |-> "api"]
  BY <1>1 DEF Registered, TypeFits
<1>5. StayReady
  BY <1>1 DEF StayReady, IsReady, TypeFits, RelayTypeOK
<1>6. TypeFits' /\ NotAnswered'
  <2>1. DOMAIN inFlight' \subseteq Sessions \X Targets
        /\ \A k \in DOMAIN inFlight' : inFlight'[k] \in Requests
    BY <1>1, <1>2, <1>3 DEF TypeFits, RelayTypeOK
  <2> QED BY <1>5, <2>1, OnlyRunTypes
<1>7. ASSUME ~limited PROVE Exact'
  <2>1. Exact /\ request[r].stage = "none" /\ registered /\ IsReady(s) /\ key \notin DOMAIN inFlight
    BY <1>2, <1>7 DEF RelayInv, NotReceived, UnderWay
  <2>2. r \notin aborted /\ ~Running(r) /\ \A q \in aborted : q \in Requests
    BY <1>1, <2>1 DEF Exact, Running, TypeFits, RelayTypeOK
  <2>3. ASSUME NEW k \in DOMAIN inFlight
        PROVE  (Running(inFlight[k]) /\ Key(inFlight[k]) = k)' /\ registered' /\ IsReady(k[1])'
    <3>1. inFlight'[k] = inFlight[k] /\ inFlight[k] \in Requests
      BY <1>1, <1>3, <2>1 DEF TypeFits, RelayTypeOK
    <3>2. Running(inFlight[k]) /\ Key(inFlight[k]) = k /\ registered /\ IsReady(k[1])
      BY <2>1 DEF Exact
    <3>3. inFlight[k] # r
      BY <2>2, <3>2
    <3> QED BY <3>1, <3>2, <3>3 DEF Running, Key, IsReady
  <2>4. (Running(inFlight[key]) /\ Key(inFlight[key]) = key)' /\ registered' /\ IsReady(key[1])'
    BY <1>2, <1>3, <1>4, <2>1, <2>2 DEF Running, Key, IsReady
  <2>5. ASSUME NEW q \in Requests, Running(q)'
        PROVE  Key(q)' \in DOMAIN inFlight' /\ inFlight'[Key(q)'] = q
    <3>1. CASE q = r
      BY <1>2, <1>3, <1>4, <3>1 DEF Key
    <3>2. CASE q # r
      <4>1. Running(q) /\ Key(q)' = Key(q)
        BY <2>5, <3>2 DEF Running, Key
      <4>2. Key(q) \in DOMAIN inFlight /\ inFlight[Key(q)] = q
        BY <2>1, <4>1 DEF Exact
      <4> QED BY <1>3, <2>1, <4>1, <4>2
    <3> QED BY <3>1, <3>2
  <2>6. (\A q \in Requests : request'[q].stage # "limiting") /\ \A q \in aborted' : request'[q].stage # "none"
    BY <1>4, <2>1, <2>2 DEF Exact
  <2> QED BY <1>3, <2>3, <2>4, <2>5, <2>6 DEF Exact
<1> QED
  BY <1>6, <1>7 DEF RelayInv

\* A run that moves and leaves the map alone: it waits for the rate limiter, or
\* its answer is on its way.
LEMMA MovesKeeps ==
    ASSUME RelayInv, NEW r \in Requests, OnlyRun(r), UNCHANGED <<session, inFlight>>,
           ~limited => /\ request[r].stage = "api" /\ request'[r].stage = "sending"
                       /\ Key(r)' = Key(r)
    PROVE  RelayInv'
<1> USE DEF OnlyRun
<1>1. TypeFits
  BY DEF RelayInv
<1>2. StayReady
  BY <1>1 DEF StayReady, IsReady, TypeFits, RelayTypeOK
<1>3. TypeFits' /\ NotAnswered'
  <2>1. DOMAIN inFlight' \subseteq Sessions \X Targets
        /\ \A k \in DOMAIN inFlight' : inFlight'[k] \in Requests
    BY <1>1 DEF TypeFits, RelayTypeOK
  <2> QED BY <1>2, <2>1, OnlyRunTypes
<1>4. ASSUME ~limited PROVE Exact'
  <2>1. Exact /\ request[r].stage = "api" /\ request'[r].stage = "sending" /\ Key(r)' = Key(r)
    BY <1>4 DEF RelayInv
  <2>2. \A q \in Requests : /\ Running(q)' <=> Running(q)
                            /\ Key(q)' = Key(q)
    BY <2>1 DEF Running, Key
  <2>3. \A q \in aborted : q \in Requests
    BY <1>1 DEF TypeFits, RelayTypeOK
  <2>4. \A k \in DOMAIN inFlight : inFlight[k] \in Requests
    BY <1>1 DEF TypeFits, RelayTypeOK
  <2>5. \A q \in Requests : request'[q].stage # "limiting"
    BY <2>1 DEF Exact
  <2>6. \A q \in aborted' : request'[q].stage # "none"
    BY <2>1, <2>3 DEF Exact
  <2>7. ASSUME NEW k \in DOMAIN inFlight
        PROVE  (Running(inFlight[k]) /\ Key(inFlight[k]) = k)' /\ registered' /\ IsReady(k[1])'
    <3>1. Running(inFlight[k]) /\ Key(inFlight[k]) = k /\ registered /\ IsReady(k[1])
      BY <2>1 DEF Exact
    <3>2. inFlight'[k] = inFlight[k] /\ inFlight[k] \in Requests
      BY <2>4
    <3>3. PICK q \in Requests : q = inFlight[k] /\ q = inFlight'[k]
      BY <3>2
    <3>4. Running(q)' /\ Key(q)' = k
      BY <2>2, <3>1, <3>3
    <3> QED BY <3>1, <3>3, <3>4 DEF Running, Key, IsReady
  <2>8. ASSUME NEW q \in Requests, Running(q)'
        PROVE  Key(q)' \in DOMAIN inFlight' /\ inFlight'[Key(q)'] = q
    BY <2>1, <2>2, <2>8 DEF Exact
  <2> QED BY <2>5, <2>6, <2>7, <2>8 DEF Exact
<1> QED
  BY <1>3, <1>4 DEF RelayInv

\* The step writes the run of r, and sends at most one event to its session.
Writes(r, run) ==
    /\ run \in Runs /\ request' = [request EXCEPT ![r] = run]
    /\ sent' = sent \/ \E event \in Events : sent' = Told(r, run.session, event)
    /\ UNCHANGED <<aborted, registered, limited>>

LEMMA WritesOnlyRun ==
    ASSUME RelayInv, NEW r \in Requests, NEW run, Writes(r, run),
           run.stage \in {"limiting", "api"} => sent' = sent /\ sent[r] = {}
    PROVE  OnlyRun(r) /\ request'[r] = run
<1>1. TypeFits
  BY DEF RelayInv
<1>2. request' \in [Requests -> {NotReceived} \cup Runs] /\ request'[r] = run
      /\ \A q \in Requests : q # r => request'[q] = request[q]
  BY <1>1 DEF Writes, TypeFits
<1>3. run.session \in Sessions /\ run.stage \in {"limiting", "api", "sending", "over"}
  BY DEF Writes, Runs
<1>4. sent' \in [Requests -> SUBSET Events]
      /\ \A q \in Requests : q # r => sent'[q] = sent[q]
  BY <1>1, <1>3, ToldSends DEF Writes, TypeFits
<1>5. UNCHANGED <<aborted, registered, limited>>
  BY DEF Writes
<1> QED
  BY <1>2, <1>3, <1>4, <1>5 DEF OnlyRun

\* A frame that is not relayed: nobody waits for it.
LEMMA AnsweredKeeps ==
    ASSUME RelayInv, NEW r \in Requests, NEW run, request[r] = NotReceived, Writes(r, run),
           run.stage = "over", StayReady, UNCHANGED inFlight
    PROVE  RelayInv'
<1>1. OnlyRun(r) /\ request'[r] = run
  BY WritesOnlyRun
<1>2. ~limited => \A k \in DOMAIN inFlight : inFlight[k] # r
  BY DEF RelayInv, Exact, Running, NotReceived
<1> QED
  BY <1>1, <1>2, RunEndsKeeps

LEMMA RefusedKeeps ==
    ASSUME RelayInv, NEW r \in Requests, NEW s \in Sessions, NEW t \in Targets, NEW form,
           Refused(r, s, t, form)
    PROVE  RelayInv'
<1>1. PICK run : run = [session |-> s, target |-> t, stage |-> "over"]
  OBVIOUS
<1>2. run \in Runs /\ run.stage = "over" /\ run.session = s
  BY <1>1 DEF Runs
<1>3. request[r] = NotReceived /\ request' = [request EXCEPT ![r] = run]
      /\ UNCHANGED <<inFlight, aborted, registered, limited>>
  BY <1>1 DEF Refused, EndsAtOnce
<1>4. sent' = sent \/ \E event \in Events : sent' = Told(r, s, event)
  BY DEF Refused, EndsAtOnce, Events
<1>5. Writes(r, run)
  BY <1>2, <1>3, <1>4 DEF Writes
<1>6. session' = session \/ session' = [session EXCEPT ![s] = IF @ = "ready" THEN "closing" ELSE @]
  BY DEF Refused, EndsAtOnce
<1>7. StayReady
  BY <1>6 DEF StayReady, IsReady, RelayInv, TypeFits, RelayTypeOK
<1> QED
  BY <1>2, <1>3, <1>5, <1>7, AnsweredKeeps

LEMMA DuplicateKeeps ==
    ASSUME RelayInv, NEW r \in Requests, NEW s \in Sessions, NEW t \in Targets,
           Duplicate(r, s, t)
    PROVE  RelayInv'
<1>1. PICK run : run = [session |-> s, target |-> t, stage |-> "over"]
  OBVIOUS
<1>2. run \in Runs /\ run.stage = "over" /\ run.session = s
  BY <1>1 DEF Runs
<1>3. request[r] = NotReceived /\ Writes(r, run) /\ UNCHANGED <<session, inFlight>>
  BY <1>1, <1>2 DEF Duplicate, EndsAtOnce, Writes, Events
<1>4. StayReady
  BY <1>3 DEF StayReady, IsReady, RelayInv, TypeFits, RelayTypeOK
<1> QED
  BY <1>2, <1>3, <1>4, AnsweredKeeps

LEMMA ReceiveKeeps ==
    ASSUME RelayInv, NEW r \in Requests, NEW s \in Sessions, NEW t \in Targets,
           Receive(r, s, t)
    PROVE  RelayInv'
<1>1. request[r] = NotReceived /\ registered /\ IsReady(s) /\ ~UnderWay(s, t)
      /\ UNCHANGED <<session, aborted, sent, registered, limited>> /\ sent[r] = {}
  BY DEF Receive, RelayInv, NotAnswered, NotReceived
<1>2. CASE limited
  <2>1. PICK run : run = [session |-> s, target |-> t, stage |-> "limiting"]
    OBVIOUS
  <2>2. Writes(r, run) /\ UNCHANGED inFlight
    BY <1>1, <1>2, <2>1 DEF Receive, Writes, Runs
  <2>3. OnlyRun(r)
    BY <1>1, <2>2, WritesOnlyRun
  <2> QED BY <1>1, <1>2, <2>2, <2>3, MovesKeeps
<1>3. CASE ~limited
  <2>1. PICK run : run = [session |-> s, target |-> t, stage |-> "api"]
    OBVIOUS
  <2>2. Writes(r, run) /\ Registered(r, s, t)
    BY <1>1, <1>3, <2>1 DEF Receive, Writes, Runs, Registered
  <2>3. OnlyRun(r)
    BY <1>1, <2>2, WritesOnlyRun
  <2> QED BY <1>1, <2>2, <2>3, RegisteredKeeps
<1> QED
  BY <1>2, <1>3

\* What a run is at a stage after the frame has arrived.
LEMMA StageIsOfARun ==
    ASSUME RelayInv, NEW r \in Requests, request[r].stage # "none"
    PROVE  /\ request[r] \in Runs
           /\ \A stage \in {"limiting", "api", "sending", "over"} :
                 /\ [request[r] EXCEPT !.stage = stage] \in Runs
                 /\ [request[r] EXCEPT !.stage = stage].stage = stage
                 /\ [request[r] EXCEPT !.stage = stage].session = request[r].session
                 /\ [request[r] EXCEPT !.stage = stage].target = request[r].target
<1>1. request[r] \in Runs
  BY DEF RelayInv, TypeFits, NotReceived
<1> QED
  BY <1>1 DEF Runs

LEMMA LimiterAnswersKeeps ==
    ASSUME RelayInv, NEW r \in Requests, LimiterAnswers(r)
    PROVE  RelayInv'
<1>1. request[r].stage = "limiting" /\ limited
      /\ UNCHANGED <<session, aborted, registered, limited>> /\ sent[r] = {}
  BY DEF LimiterAnswers, RelayInv, Exact, TypeFits, NotAnswered
<1>2. request[r] \in Runs /\ request[r].session \in Sessions /\ request[r].target \in Targets
  BY <1>1, StageIsOfARun DEF Runs
<1>3. CASE Registered(r, request[r].session, request[r].target) /\ UNCHANGED sent
  <2>1. PICK run : run = [session |-> request[r].session, target |-> request[r].target,
                          stage |-> "api"]
    OBVIOUS
  <2>2. Writes(r, run)
    BY <1>1, <1>2, <1>3, <2>1 DEF Writes, Runs, Registered
  <2>3. OnlyRun(r)
    BY <1>1, <1>3, <2>2, WritesOnlyRun
  <2> QED BY <1>1, <1>2, <1>3, <2>3, RegisteredKeeps
<1>4. CASE \E event \in {"rejected", "failed"} :
              /\ request' = [request EXCEPT ![r] = Over(r)]
              /\ sent' = Told(r, request[r].session, event)
              /\ UNCHANGED inFlight
  <2>1. PICK run : run = Over(r)
    OBVIOUS
  <2>2. run \in Runs /\ run.stage = "over" /\ run.session = request[r].session
    BY <1>1, <2>1, StageIsOfARun DEF Over
  <2>3. Writes(r, run) /\ UNCHANGED inFlight
    BY <1>1, <1>4, <2>1, <2>2 DEF Writes, Events
  <2>4. OnlyRun(r)
    BY <2>2, <2>3, WritesOnlyRun
  <2> QED BY <1>1, <2>3, <2>4, MovesKeeps
<1> QED
  BY <1>3, <1>4 DEF LimiterAnswers

\* finally: the entry that leaves the map is that of the run.
LEMMA OverKeeps ==
    ASSUME RelayInv, NEW r \in Requests, request[r].stage \in {"api", "sending"},
           request' = [request EXCEPT ![r] = Over(r)], Forget(r),
           UNCHANGED <<session, aborted, sent, registered, limited>>
    PROVE  RelayInv'
<1>1. PICK run : run = Over(r) /\ run \in Runs /\ run.stage = "over"
  BY StageIsOfARun DEF Over
<1>2. OnlyRun(r) /\ request'[r].stage = "over"
  <2>1. Writes(r, run)
    BY <1>1 DEF Writes
  <2> QED BY <1>1, <2>1, WritesOnlyRun
<1>3. StayReady
  BY DEF StayReady, IsReady, RelayInv, TypeFits, RelayTypeOK
<1>4. \A k \in DOMAIN inFlight' : k \in DOMAIN inFlight /\ inFlight'[k] = inFlight[k]
  BY DEF Forget, Without
<1>5. ~limited => \A k \in DOMAIN inFlight : inFlight[k] = r => k = Key(r)
  BY DEF RelayInv, Exact
<1>6. ~limited => \A k \in DOMAIN inFlight : k \in DOMAIN inFlight' <=> inFlight[k] # r
  BY <1>5 DEF Forget, Without
<1> QED
  BY <1>2, <1>3, <1>4, <1>6, RunEndsKeeps

LEMMA ApiAnswersKeeps ==
    ASSUME RelayInv, NEW r \in Requests, NEW result \in Results, ApiAnswers(r, result)
    PROVE  RelayInv'
<1>1. request[r].stage = "api" /\ UNCHANGED <<session, inFlight, aborted, registered, limited>>
  BY DEF ApiAnswers
<1>2. PICK run : run = [request[r] EXCEPT !.stage = "sending"]
  OBVIOUS
<1>3. run \in Runs /\ run.stage = "sending" /\ run.session = request[r].session
      /\ run.target = request[r].target
  BY <1>1, <1>2, StageIsOfARun
<1>4. EventFor(result) \in Events
  BY DEF EventFor, Events
<1>5. Writes(r, run)
  BY <1>1, <1>2, <1>3, <1>4 DEF ApiAnswers, Writes
<1>6. OnlyRun(r) /\ request'[r] = run
  BY <1>3, <1>5, WritesOnlyRun
<1>7. Key(r)' = Key(r)
  BY <1>3, <1>6 DEF Key
<1> QED
  BY <1>1, <1>3, <1>6, <1>7, MovesKeeps

LEMMA RelayStepKeeps == RelayInv /\ [RelayNext]_relayVars => RelayInv'
<1> SUFFICES ASSUME RelayInv, [RelayNext]_relayVars PROVE RelayInv'
  OBVIOUS
<1>1. CASE \E s \in Sessions : SessionReady(s) \/ SocketCloses(s) \/ SessionCloses(s)
  BY <1>1, SessionMovesKeep, SessionClosesKeeps
<1>2. CASE Unregister
  BY <1>2, UnregisterKeeps
<1>3. CASE \E r \in Requests, s \in Sessions, t \in Targets :
             \/ \E form \in Forms : Refused(r, s, t, form)
             \/ Duplicate(r, s, t)
             \/ Receive(r, s, t)
  BY <1>3, RefusedKeeps, DuplicateKeeps, ReceiveKeeps
<1>4. CASE \E r \in Requests : LimiterAnswers(r)
  BY <1>4, LimiterAnswersKeeps
<1>5. CASE \E r \in Requests : Dropped(r) \/ SendReturns(r)
  BY <1>5, OverKeeps DEF Dropped, SendReturns
<1>6. CASE \E r \in Requests : \E result \in Results : ApiAnswers(r, result)
  BY <1>6, ApiAnswersKeeps
<1>7. CASE UNCHANGED relayVars
  <2>1. UNCHANGED <<session, request, inFlight, aborted, sent, registered, limited>>
    BY <1>7 DEF relayVars
  <2>2. TypeFits' /\ NotAnswered'
    BY <2>1 DEF RelayInv, TypeFits, RelayTypeOK, NotAnswered
  <2>3. ~limited => Exact'
    BY <2>1 DEF RelayInv, Exact, Running, Key, IsReady
  <2> QED BY <2>1, <2>2, <2>3 DEF RelayInv
<1> QED
  BY <1>1, <1>2, <1>3, <1>4, <1>5, <1>6, <1>7 DEF RelayNext

\* The entries of the map and the requests under way agree in every reachable
\* state.
THEOREM RelayInvariantHolds == RelaySpec => []RelayInv
BY RelayInitially, RelayStepKeeps, PTL DEF RelaySpec

-----------------------------------------------------------------------------
(* What the invariant says of the map and of the answers.                  *)

\* Without a rate limiter, a session has at most one sync request of a target
\* under way, and the map holds the requests under way and nothing else.
THEOREM RelayStaysSound == RelaySpec => []RelayIsSound
<1>1. RelayInv => RelayIsSound
  <2> SUFFICES ASSUME RelayInv PROVE RelayIsSound
    OBVIOUS
  <2>1. OnePerTarget /\ MapIsExact
    BY DEF RelayInv, Exact, OnePerTarget, MapIsExact
  <2> QED BY <2>1 DEF RelayInv, TypeFits, RelayIsSound
<1> QED
  BY <1>1, RelayInvariantHolds, PTL

AnswersFirst ==
    \A r \in Requests : sent'[r] /= sent[r] =>
        sent[r] = {} /\ session[request'[r].session] /= "closed"

OwnEntriesLeave ==
    \A k \in DOMAIN inFlight :
        k \notin DOMAIN inFlight' =>
            request'[inFlight[k]].stage = "over" \/ inFlight[k] \in aborted'

\* A run sends its first event, while its session is there.
LEMMA TellingIsFirst ==
    ASSUME RelayInv, NEW r \in Requests, NEW run \in Runs, NEW event \in Events,
           request[r].stage \in {"none", "limiting", "api"},
           request' = [request EXCEPT ![r] = run], sent' = Told(r, run.session, event)
    PROVE  AnswersFirst
<1>1. TypeFits /\ sent[r] = {}
  BY DEF RelayInv, NotAnswered
<1>2. run.session \in Sessions /\ request'[r] = run
  BY <1>1 DEF Runs, TypeFits
<1>3. (\A q \in Requests : q # r => sent'[q] = sent[q])
      /\ (sent' # sent => session[run.session] # "closed")
  BY <1>1, <1>2, ToldSends
<1> QED
  BY <1>1, <1>2, <1>3 DEF AnswersFirst

LEMMA StepAnswersFirst == RelayInv /\ [RelayNext]_relayVars => AnswersFirst
<1> SUFFICES ASSUME RelayInv, [RelayNext]_relayVars PROVE AnswersFirst
  OBVIOUS
<1>1. CASE \E s \in Sessions : SessionReady(s) \/ SocketCloses(s) \/ SessionCloses(s)
  BY <1>1 DEF AnswersFirst, SessionReady, SocketCloses, SessionCloses
<1>2. CASE Unregister \/ UNCHANGED relayVars
  BY <1>2 DEF AnswersFirst, Unregister, relayVars
<1>3. ASSUME NEW r \in Requests, NEW s \in Sessions, NEW t \in Targets,
             (\E form \in Forms : Refused(r, s, t, form)) \/ Duplicate(r, s, t)
      PROVE  AnswersFirst
  <2>1. UNCHANGED sent
        \/ \E event \in Events : EndsAtOnce(r, s, t, event)
    BY <1>3 DEF Refused, Duplicate, EndsAtOnce, Events
  <2>2. request[r].stage = "none"
    BY <1>3 DEF Refused, Duplicate, NotReceived
  <2>3. CASE UNCHANGED sent
    BY <2>3 DEF AnswersFirst
  <2>4. CASE \E event \in Events : EndsAtOnce(r, s, t, event)
    <3>1. PICK event \in Events : EndsAtOnce(r, s, t, event)
      BY <2>4
    <3>2. PICK run : run = [session |-> s, target |-> t, stage |-> "over"]
      OBVIOUS
    <3>3. run \in Runs /\ run.session = s
      BY <3>2 DEF Runs
    <3>4. request' = [request EXCEPT ![r] = run] /\ sent' = Told(r, run.session, event)
      BY <3>1, <3>2, <3>3 DEF EndsAtOnce
    <3> QED BY <2>2, <3>3, <3>4, TellingIsFirst
  <2> QED BY <2>1, <2>3, <2>4
<1>4. CASE \E r \in Requests, s \in Sessions, t \in Targets : Receive(r, s, t)
  BY <1>4 DEF AnswersFirst, Receive
<1>5. ASSUME NEW r \in Requests, LimiterAnswers(r) PROVE AnswersFirst
  <2>1. request[r].stage = "limiting"
    BY <1>5 DEF LimiterAnswers
  <2>2. CASE UNCHANGED sent
    BY <2>2 DEF AnswersFirst
  <2>3. CASE \E event \in {"rejected", "failed"} :
               /\ request' = [request EXCEPT ![r] = Over(r)]
               /\ sent' = Told(r, request[r].session, event)
    <3>1. PICK run : run = Over(r) /\ run \in Runs /\ run.session = request[r].session
      BY <2>1, StageIsOfARun DEF Over
    <3>2. PICK event \in Events : sent' = Told(r, run.session, event)
                                  /\ request' = [request EXCEPT ![r] = run]
      BY <2>3, <3>1 DEF Events
    <3> QED BY <2>1, <3>1, <3>2, TellingIsFirst
  <2> QED BY <1>5, <2>2, <2>3 DEF LimiterAnswers
<1>6. CASE \E r \in Requests : Dropped(r) \/ SendReturns(r)
  BY <1>6 DEF AnswersFirst, Dropped, SendReturns
<1>7. ASSUME NEW r \in Requests, NEW result \in Results, ApiAnswers(r, result)
      PROVE  AnswersFirst
  <2>1. request[r].stage = "api"
    BY <1>7 DEF ApiAnswers
  <2>2. PICK run : /\ run = [request[r] EXCEPT !.stage = "sending"] /\ run \in Runs
                   /\ run.session = request[r].session
    BY <2>1, StageIsOfARun
  <2>3. EventFor(result) \in Events
    BY DEF EventFor, Events
  <2>4. request' = [request EXCEPT ![r] = run] /\ sent' = Told(r, run.session, EventFor(result))
    BY <1>7, <2>2 DEF ApiAnswers
  <2> QED BY <2>1, <2>2, <2>3, <2>4, TellingIsFirst
<1> QED
  BY <1>1, <1>2, <1>3, <1>4, <1>5, <1>6, <1>7 DEF RelayNext

LEMMA StepTakesOwnEntries == RelayInv /\ [RelayNext]_relayVars => OwnEntriesLeave
<1> SUFFICES ASSUME RelayInv, [RelayNext]_relayVars PROVE OwnEntriesLeave
  OBVIOUS
<1>1. CASE \E s \in Sessions : SessionReady(s) \/ SocketCloses(s)
  BY <1>1 DEF OwnEntriesLeave, SessionReady, SocketCloses
<1>2. CASE \E s \in Sessions : SessionCloses(s)
  BY <1>2 DEF OwnEntriesLeave, SessionCloses, AbortSession, Without
<1>3. CASE Unregister
  BY <1>3 DEF OwnEntriesLeave, Unregister, Without
<1>4. CASE \E r \in Requests, s \in Sessions, t \in Targets :
             (\E form \in Forms : Refused(r, s, t, form)) \/ Duplicate(r, s, t)
  BY <1>4 DEF OwnEntriesLeave, Refused, Duplicate, EndsAtOnce
<1>5. CASE \E r \in Requests, s \in Sessions, t \in Targets : Receive(r, s, t)
  BY <1>5 DEF OwnEntriesLeave, Receive, Registered
<1>6. CASE \E r \in Requests : LimiterAnswers(r)
  BY <1>6 DEF OwnEntriesLeave, LimiterAnswers, Registered
<1>7. ASSUME NEW r \in Requests, Dropped(r) \/ SendReturns(r) PROVE OwnEntriesLeave
  <2>1. request' = [request EXCEPT ![r] = Over(r)] /\ Forget(r)
        /\ request[r].stage \in {"api", "sending"}
    BY <1>7 DEF Dropped, SendReturns
  <2>2. Over(r).stage = "over"
    BY <2>1, StageIsOfARun DEF Over
  <2>3. request'[r].stage = "over"
    BY <2>1, <2>2 DEF RelayInv, TypeFits
  <2>4. \A k \in DOMAIN inFlight : k \notin DOMAIN inFlight' => inFlight[k] = r
    BY <2>1 DEF Forget, Without
  <2> QED BY <2>3, <2>4 DEF OwnEntriesLeave
<1>8. CASE \E r \in Requests : \E result \in Results : ApiAnswers(r, result)
  BY <1>8 DEF OwnEntriesLeave, ApiAnswers
<1>9. CASE UNCHANGED relayVars
  BY <1>9 DEF OwnEntriesLeave, relayVars
<1> QED
  BY <1>1, <1>2, <1>3, <1>4, <1>5, <1>6, <1>7, <1>8, <1>9 DEF RelayNext

\* With a rate limiter or without one, an answer is sent once and only to an
\* open session, and the end of a run removes only its own entry.
THEOREM RequestsStayApart == RelaySpec => RequestsKeepApart
<1>1. RelayInv /\ [RelayNext]_relayVars => [AnswersFirst]_relayVars /\ [OwnEntriesLeave]_relayVars
  BY StepAnswersFirst, StepTakesOwnEntries
<1>2. RelaySpec => [][AnswersFirst]_relayVars /\ [][OwnEntriesLeave]_relayVars
  BY <1>1, RelayInvariantHolds, PTL DEF RelaySpec
<1> QED
  BY <1>2 DEF RequestsKeepApart, AnsweredOnce, EntriesAreOwn, AnswersFirst, OwnEntriesLeave

=============================================================================
