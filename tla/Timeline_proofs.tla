-------------------------- MODULE Timeline_proofs --------------------------
(***************************************************************************)
(* What the operators of Timeline do, for a stream of any length: each one *)
(* keeps the type of a timeline, and each one that moves the delivery      *)
(* cursor puts in view exactly the messages between its old and new value. *)
(***************************************************************************)
EXTENDS Timeline, TLAPS, WellFoundedInduction

\* A timeline moves forward from t to u: the cursor grows, and the sequences
\* it passes are what comes into view.
Advances(t, u) ==
    /\ u.cursor >= t.cursor
    /\ u.visible = t.visible \cup ((t.cursor + 1)..u.cursor)

\* The buffer lies beyond the cursor and out of view.
Buffered(t) ==
    /\ \A s \in t.buffered : s > t.cursor
    /\ t.buffered \cap t.visible = {}

\* The accepted messages of a are in view or wait in the buffer, marked.
Holds(t, a) ==
    /\ t.accepted \subseteq a
    /\ a \subseteq t.visible \cup (t.buffered \cap t.accepted)

\* The same, except for the one message s that is about to arrive.
HoldsBut(t, a, s) ==
    /\ t.accepted \subseteq a
    /\ a \ {s} \subseteq t.visible \cup (t.buffered \cap t.accepted)

\* A nonempty set of natural numbers has a smallest element.
LEMMA SmallestElement ==
    ASSUME NEW T \in SUBSET Nat, T # {}
    PROVE  \E m \in T : \A n \in T : m <= n
<1>1. PICK m \in T : \A n \in T : <<n, m>> \notin OpToRel(<, Nat)
  BY WFMin, NatLessThanWellFounded, Zenon
<1>2. \A n \in T : ~(n < m)
  BY <1>1, Zenon DEF OpToRel
<1> QED BY <1>2

\* The CHOOSE of EndOfRun has a witness when the buffer is bounded.
LEMMA EndOfRunProperties ==
    ASSUME NEW N \in Nat, NEW c \in 0..N, NEW B \in SUBSET (1..N)
    PROVE  /\ EndOfRun(c, B) \in c..N
           /\ (c + 1)..EndOfRun(c, B) \subseteq B
           /\ EndOfRun(c, B) + 1 \notin B
<1> DEFINE T == {n \in Nat : n >= c /\ n + 1 \notin B}
<1>1. N \in T
  OBVIOUS
<1>2. PICK m \in T : \A n \in T : m <= n
  BY <1>1, SmallestElement
<1>3. (c + 1)..m \subseteq B
  <2> SUFFICES ASSUME NEW k \in (c + 1)..m PROVE k \in B
    OBVIOUS
  <2>1. k - 1 \in Nat /\ k - 1 >= c /\ k - 1 < m
    BY <1>2
  <2>2. k - 1 \notin T
    BY <2>1, <1>2
  <2> QED BY <2>1, <2>2
<1>4. m \in B \cup {c}
  BY <1>2, <1>3
<1> HIDE DEF T
<1>5. \E n \in B \cup {c} : n >= c /\ (c + 1)..n \subseteq B /\ n + 1 \notin B
  BY <1>2, <1>3, <1>4 DEF T
<1>6. /\ EndOfRun(c, B) \in B \cup {c}
      /\ EndOfRun(c, B) >= c
      /\ (c + 1)..EndOfRun(c, B) \subseteq B
      /\ EndOfRun(c, B) + 1 \notin B
  BY <1>5 DEF EndOfRun
<1>7. \A x \in B \cup {c} : x >= c => x \in c..N
  OBVIOUS
<1> QED BY <1>6, <1>7, Zenon

\* Showing known messages takes them out of the buffer and of acceptedOutsideVisible.
LEMMA ShowProperties ==
    ASSUME NEW S, NEW t, IsTimeline(t, S),
           NEW V \in SUBSET Known(t)
    PROVE  LET u == Show(t, V)
           IN  /\ IsTimeline(u, S)
               /\ u.records = t.records
               /\ u.visible = t.visible \cup V
               /\ u.accepted = t.accepted \ V
               /\ u.buffered = t.buffered \ V
               /\ u.cursor = t.cursor /\ u.before = t.before /\ u.more = t.more
BY DEF Show, IsTimeline, Known, IsContentOf

\* Draining the buffer moves the cursor over exactly what comes into view.
LEMMA DrainProperties ==
    ASSUME NEW N \in Nat, NEW t, IsTimeline(t, 1..N), t.cursor # Null, Buffered(t)
    PROVE  LET u == Drain(t)
           IN  /\ IsTimeline(u, 1..N)
               /\ Advances(t, u) /\ Buffered(u) /\ u.cursor # Null
               /\ u.records = t.records
               /\ \A a : Holds(t, a) => Holds(u, a)
               /\ u.before = t.before /\ u.more = t.more
<1> DEFINE end == EndOfRun(t.cursor, t.buffered)
           V == (t.cursor + 1)..end
           w == Show(t, V)
           u == [w EXCEPT !.cursor = end]
<1>1. t.cursor \in 0..N /\ t.buffered \in SUBSET (1..N) /\ t.buffered \subseteq Known(t)
  BY DEF IsTimeline, Null
<1>2. end \in t.cursor..N /\ V \subseteq t.buffered /\ end + 1 \notin t.buffered
  BY <1>1, EndOfRunProperties
<1>3. V \in SUBSET Known(t)
  BY <1>1, <1>2
<1> HIDE DEF V, end
<1>4. /\ IsTimeline(w, 1..N)
      /\ w.records = t.records
      /\ w.visible = t.visible \cup V
      /\ w.accepted = t.accepted \ V
      /\ w.buffered = t.buffered \ V
      /\ w.cursor = t.cursor /\ w.before = t.before /\ w.more = t.more
  BY <1>3, ShowProperties
<1> HIDE DEF w
<1>5. /\ IsTimeline(u, 1..N)
      /\ u.records = w.records
      /\ u.visible = w.visible
      /\ u.accepted = w.accepted
      /\ u.buffered = w.buffered
      /\ u.cursor = end /\ u.before = w.before /\ u.more = w.more
  BY <1>4, <1>1, <1>2 DEF IsTimeline, Known, IsContentOf
<1> HIDE DEF u
<1>6. u = Drain(t)
  BY DEF Drain, u, w, V, end
<1>7. Advances(t, u)
  BY <1>1, <1>2, <1>4, <1>5 DEF Advances, V
<1>8. Buffered(u)
  BY <1>1, <1>2, <1>4, <1>5 DEF Buffered, V
<1>9. \A a : Holds(t, a) => Holds(u, a)
  BY <1>4, <1>5 DEF Holds
<1>10. u.cursor # Null
  BY <1>1, <1>2, <1>5 DEF Null
<1> QED BY <1>4, <1>5, <1>6, <1>7, <1>8, <1>9, <1>10

\* Merging a page into the records loses no record.
LEMMA MergedProperties ==
    ASSUME NEW S, NEW records, IsContentOf(records, S),
           NEW page, IsContentOf(page, S)
    PROVE  /\ IsContentOf(MergedRecords(records, page), S)
           /\ DOMAIN MergedRecords(records, page) = DOMAIN records \cup DOMAIN page
BY DEF MergedRecords, Reconciled, IsContentOf

\* A timeline whose records are exchanged for a larger set of them.
LEMMA RecordsExchanged ==
    ASSUME NEW S, NEW t, IsTimeline(t, S),
           NEW records, IsContentOf(records, S), Known(t) \subseteq DOMAIN records
    PROVE  LET u == [t EXCEPT !.records = records]
           IN  /\ IsTimeline(u, S)
               /\ u.records = records
               /\ u.visible = t.visible
               /\ u.accepted = t.accepted
               /\ u.buffered = t.buffered
               /\ u.cursor = t.cursor /\ u.before = t.before /\ u.more = t.more
BY DEF IsTimeline, Known

\* Inserting a page shows its messages and moves no cursor.
LEMMA InsertHistoryProperties ==
    ASSUME NEW S, NEW t, IsTimeline(t, S),
           NEW page, IsContentOf(page, S)
    PROVE  LET u == InsertHistory(t, page)
           IN  /\ IsTimeline(u, S)
               /\ u.visible = t.visible \cup DOMAIN page
               /\ u.accepted = t.accepted \ DOMAIN page
               /\ u.buffered = t.buffered \ DOMAIN page
               /\ u.cursor = t.cursor /\ u.before = t.before /\ u.more = t.more
<1> DEFINE records == MergedRecords(t.records, page)
           w == [t EXCEPT !.records = records]
<1>1. /\ IsContentOf(records, S)
      /\ DOMAIN records = Known(t) \cup DOMAIN page
  BY MergedProperties DEF IsTimeline, Known
<1> HIDE DEF records
<1>2. /\ IsTimeline(w, S)
      /\ w.records = records
      /\ w.visible = t.visible
      /\ w.accepted = t.accepted
      /\ w.buffered = t.buffered
      /\ w.cursor = t.cursor /\ w.before = t.before /\ w.more = t.more
  BY <1>1, RecordsExchanged
<1>3. DOMAIN page \in SUBSET Known(w)
  BY <1>1, <1>2 DEF Known
<1> HIDE DEF w
<1>4. InsertHistory(t, page) = Show(w, DOMAIN page)
  BY DEF InsertHistory, w, records
<1> QED BY <1>2, <1>3, <1>4, ShowProperties

\* A buffered message waits unless it is in view already.
LEMMA BufferProperties ==
    ASSUME NEW N \in Nat, NEW t, IsTimeline(t, 1..N), Buffered(t),
           NEW s \in 1..N, NEW c \in Content, s > t.cursor
    PROVE  LET u == Buffer(t, s, c)
           IN  /\ IsTimeline(u, 1..N) /\ Buffered(u)
               /\ u.visible = t.visible
               /\ u.accepted = t.accepted
               /\ u.buffered = t.buffered \cup ({s} \ t.visible)
               /\ u.cursor = t.cursor /\ u.before = t.before /\ u.more = t.more
               /\ Known(t) \subseteq Known(u)
<1> DEFINE records == Register(t.records, s, c)
           u == [t EXCEPT !.records = records, !.buffered = @ \cup {s}]
<1>0. IsContentOf(t.records, 1..N)
  BY DEF IsTimeline
<1>1. IsContentOf(records, 1..N) /\ DOMAIN records = Known(t) \cup {s}
  BY <1>0 DEF Known, Register, IsContentOf
<1> HIDE DEF records
<1>2. /\ IsTimeline(u, 1..N)
      /\ u.records = records
      /\ u.visible = t.visible
      /\ u.accepted = t.accepted
      /\ u.buffered = t.buffered \cup {s}
      /\ u.cursor = t.cursor /\ u.before = t.before /\ u.more = t.more
  BY <1>1 DEF IsTimeline, Known
<1> HIDE DEF u
<1>3. Buffer(t, s, c) = IF s \in t.visible THEN t ELSE u
  BY DEF Buffer, u, records
<1>4. CASE s \in t.visible
  BY <1>3, <1>4
<1>5. CASE s \notin t.visible
  <2>1. Buffered(u)
    BY <1>2, <1>5 DEF Buffered
  <2> QED BY <1>1, <1>2, <1>3, <1>5, <2>1 DEF Known
<1> QED BY <1>4, <1>5

\* Discarding what a read has passed keeps every accepted message, in view.
LEMMA DiscardProperties ==
    ASSUME NEW N \in Nat, NEW t, IsTimeline(t, 1..N), t.cursor # Null,
           t.buffered \cap t.visible = {}
    PROVE  LET u == Discard(t)
           IN  /\ IsTimeline(u, 1..N) /\ Buffered(u)
               /\ u.visible = t.visible \cup {s \in t.buffered \cap t.accepted : s <= t.cursor}
               /\ u.cursor = t.cursor /\ u.before = t.before /\ u.more = t.more
               /\ \A a : Holds(t, a) => Holds(u, a)
<1> DEFINE passed == {s \in t.buffered : s <= t.cursor}
           V == passed \cap t.accepted
           w == Show(t, V)
           u == [w EXCEPT !.buffered = @ \ passed]
<1>1. /\ t.cursor \in 0..N /\ t.buffered \subseteq 1..N
      /\ V \in SUBSET Known(t)
  BY DEF IsTimeline, Null
<1>2. passed \subseteq t.buffered
      /\ V = {s \in t.buffered \cap t.accepted : s <= t.cursor}
      /\ V = passed \cap t.accepted
      /\ \A s \in t.buffered : s \in passed <=> s <= t.cursor
  OBVIOUS
<1> HIDE DEF passed, V
<1>3. /\ IsTimeline(w, 1..N)
      /\ w.records = t.records
      /\ w.visible = t.visible \cup V
      /\ w.accepted = t.accepted \ V
      /\ w.buffered = t.buffered \ V
      /\ w.cursor = t.cursor /\ w.before = t.before /\ w.more = t.more
  BY <1>1, ShowProperties
<1> HIDE DEF w
<1>4. /\ IsTimeline(u, 1..N)
      /\ u.visible = w.visible
      /\ u.accepted = w.accepted
      /\ u.buffered = w.buffered \ passed
      /\ u.cursor = w.cursor /\ u.before = w.before /\ u.more = w.more
  BY <1>3 DEF IsTimeline, Known
<1> HIDE DEF u
<1>5. u = Discard(t)
  BY DEF Discard, u, w, V, passed
<1>6. Buffered(u)
  BY <1>1, <1>2, <1>3, <1>4 DEF Buffered
<1>7. \A a : Holds(t, a) => Holds(u, a)
  BY <1>2, <1>3, <1>4 DEF Holds
<1> QED BY <1>2, <1>3, <1>4, <1>5, <1>6, <1>7
-----------------------------------------------------------------------------
(***************************************************************************)
(* The public methods                                                      *)
(***************************************************************************)

\* applyLive: nothing comes into view except what the cursor passes.
LEMMA ApplyLiveProperties ==
    ASSUME NEW N \in Nat, NEW t, IsTimeline(t, 1..N), Buffered(t),
           t.cursor = Null => t.visible = {},
           NEW s \in 1..N, NEW c \in Content
    PROVE  LET u == ApplyLive(t, s, c)
           IN  /\ IsTimeline(u, 1..N) /\ Buffered(u)
               /\ \A a : Holds(t, a) => Holds(u, a)
               /\ u.before = t.before /\ u.more = t.more
               /\ t.cursor = Null => u.cursor = Null /\ u.visible = t.visible
               /\ t.cursor # Null => u.cursor # Null /\ Advances(t, u)
               /\ s > t.cursor /\ s \notin t.visible => s \in u.visible \cup u.buffered
               /\ \A a : /\ HoldsBut(t, a, s) /\ s > t.cursor
                        /\ s \in t.accepted \cup t.visible
                       => Holds(u, a)
<1>1. t.cursor \in 0..N \cup {Null} /\ t.buffered \subseteq 1..N
  BY DEF IsTimeline
<1>2. CASE t.cursor = Null \/ s > t.cursor + 1
  <2>1. ApplyLive(t, s, c) = Buffer(t, s, c) /\ s > t.cursor
    BY <1>1, <1>2 DEF ApplyLive, Null
  <2> QED BY <1>1, <1>2, <2>1, BufferProperties DEF Holds, HoldsBut, Advances, Null
<1>3. CASE t.cursor # Null /\ s <= t.cursor
  <2>1. ApplyLive(t, s, c) = t
    BY <1>1, <1>3 DEF ApplyLive, Null
  <2> QED BY <1>1, <1>3, <2>1 DEF Advances, Null
<1>4. CASE t.cursor # Null /\ s = t.cursor + 1
  <2> DEFINE records == Register(t.records, s, c)
             r == [t EXCEPT !.records = records]
             w == Show(r, {s})
             v == [w EXCEPT !.cursor = s]
  <2>1. IsContentOf(t.records, 1..N)
    BY DEF IsTimeline
  <2>2. IsContentOf(records, 1..N) /\ DOMAIN records = Known(t) \cup {s}
    BY <2>1 DEF Known, Register, IsContentOf
  <2> HIDE DEF records
  <2>3. /\ IsTimeline(r, 1..N)
        /\ r.records = records
        /\ r.visible = t.visible
        /\ r.accepted = t.accepted
        /\ r.buffered = t.buffered
        /\ r.cursor = t.cursor /\ r.before = t.before /\ r.more = t.more
    BY <2>2, RecordsExchanged
  <2>4. {s} \in SUBSET Known(r)
    BY <2>2, <2>3 DEF Known
  <2> HIDE DEF r
  <2>5. /\ IsTimeline(w, 1..N)
        /\ w.visible = t.visible \cup {s}
        /\ w.accepted = t.accepted \ {s}
        /\ w.buffered = t.buffered \ {s}
        /\ w.before = t.before /\ w.more = t.more
    BY <2>3, <2>4, ShowProperties
  <2> HIDE DEF w
  <2>6. /\ IsTimeline(v, 1..N)
        /\ v.visible = w.visible
        /\ v.accepted = w.accepted
        /\ v.buffered = w.buffered
        /\ v.cursor = s /\ v.before = w.before /\ v.more = w.more
    BY <2>5 DEF IsTimeline, Known
  <2> HIDE DEF v
  <2>7. ApplyLive(t, s, c) = Drain(v)
    BY <1>1, <1>4 DEF ApplyLive, Null, v, w, r, records
  <2>8. v.cursor # Null /\ Buffered(v)
    BY <1>1, <1>4, <2>5, <2>6 DEF Buffered, Null
  <2>9. Advances(t, v)
    BY <1>1, <1>4, <2>5, <2>6 DEF Advances, Null
  <2>10. /\ \A a : Holds(t, a) => Holds(v, a)
         /\ \A a : HoldsBut(t, a, s) => Holds(v, a)
    BY <2>5, <2>6 DEF Holds, HoldsBut
  <2> DEFINE u == Drain(v)
  <2>11. /\ IsTimeline(u, 1..N)
         /\ Advances(v, u) /\ Buffered(u) /\ u.cursor # Null
         /\ \A a : Holds(v, a) => Holds(u, a)
         /\ u.before = v.before /\ u.more = v.more
    BY <2>6, <2>8, DrainProperties
  <2> HIDE DEF u
  <2>12. u.cursor \in 0..N
    BY <2>11 DEF IsTimeline
  <2>13. Advances(t, u)
    BY <1>1, <1>4, <2>6, <2>9, <2>11, <2>12 DEF Advances, Null
  <2>14. s \in u.visible
    BY <2>5, <2>6, <2>11 DEF Advances
  <2> QED BY <1>4, <2>5, <2>6, <2>7, <2>10, <2>11, <2>13, <2>14 DEF u
<1> QED BY <1>1, <1>2, <1>3, <1>4 DEF Null
\* applyAccepted: the message counts as accepted from now on, and what the
\* cursor has passed already comes into view at once.
LEMMA ApplyAcceptedProperties ==
    ASSUME NEW N \in Nat, NEW t, IsTimeline(t, 1..N), Buffered(t),
           t.cursor = Null => t.visible = {},
           NEW s \in 1..N, NEW c \in Content
    PROVE  LET u == ApplyAccepted(t, s, c)
           IN  /\ IsTimeline(u, 1..N) /\ Buffered(u)
               /\ \A a : Holds(t, a) => Holds(u, a \cup {s})
               /\ u.before = t.before /\ u.more = t.more
               /\ t.cursor = Null => u.cursor = Null /\ u.visible = t.visible
               /\ t.cursor # Null =>
                    /\ u.cursor # Null
                    /\ IF s <= t.cursor
                       THEN u.cursor = t.cursor /\ u.visible = t.visible \cup {s}
                       ELSE Advances(t, u)
<1> DEFINE records  == Register(t.records, s, c)
           accepted == IF s \in t.visible THEN t.accepted ELSE t.accepted \cup {s}
           known    == [t EXCEPT !.records = records, !.accepted = accepted]
           u        == ApplyAccepted(t, s, c)
<1>1. t.cursor \in 0..N \cup {Null} /\ t.buffered \subseteq 1..N
  BY DEF IsTimeline
<1>2. IsContentOf(t.records, 1..N)
  BY DEF IsTimeline
<1>3. IsContentOf(records, 1..N) /\ DOMAIN records = Known(t) \cup {s}
  BY <1>2 DEF Known, Register, IsContentOf
<1>4. /\ accepted \subseteq t.accepted \cup {s} /\ t.accepted \subseteq accepted
      /\ s \in accepted \cup t.visible
  OBVIOUS
<1> HIDE DEF records, accepted
<1>5. /\ IsTimeline(known, 1..N)
      /\ known.records = records
      /\ known.visible = t.visible
      /\ known.accepted = accepted
      /\ known.buffered = t.buffered
      /\ known.cursor = t.cursor /\ known.before = t.before /\ known.more = t.more
  BY <1>3, <1>4 DEF IsTimeline, Known
<1> HIDE DEF known
<1>6. u = IF t.cursor # Null /\ s <= t.cursor
          THEN Show(known, {s}) ELSE ApplyLive(known, s, c)
  BY DEF ApplyAccepted, known, records, accepted
<1> HIDE DEF u
<1>7. Buffered(known) /\ (known.cursor = Null => known.visible = {})
  BY <1>5 DEF Buffered
<1>8. CASE t.cursor # Null /\ s <= t.cursor
  <2>1. {s} \in SUBSET Known(known)
    BY <1>3, <1>5 DEF Known
  <2>2. /\ IsTimeline(u, 1..N)
        /\ u.visible = t.visible \cup {s}
        /\ u.accepted = accepted \ {s}
        /\ u.buffered = t.buffered \ {s}
        /\ u.cursor = t.cursor /\ u.before = t.before /\ u.more = t.more
    BY <1>5, <1>6, <1>8, <2>1, ShowProperties
  <2>3. Buffered(u)
    BY <1>1, <1>8, <2>2 DEF Buffered, Null
  <2>4. \A a : Holds(t, a) => Holds(u, a \cup {s})
    BY <1>4, <2>2 DEF Holds
  <2> QED BY <1>8, <2>2, <2>3, <2>4 DEF u
<1>9. CASE ~(t.cursor # Null /\ s <= t.cursor)
  <2>1. s > t.cursor
    BY <1>1, <1>9 DEF Null
  <2>2. u = ApplyLive(known, s, c)
    BY <1>6, <1>9
  <2>3. /\ IsTimeline(u, 1..N) /\ Buffered(u)
        /\ u.before = known.before /\ u.more = known.more
        /\ known.cursor = Null => u.cursor = Null /\ u.visible = known.visible
        /\ known.cursor # Null => u.cursor # Null /\ Advances(known, u)
        /\ \A a : /\ HoldsBut(known, a, s) /\ s > known.cursor
                 /\ s \in known.accepted \cup known.visible
                => Holds(u, a)
    BY <1>5, <1>7, <2>2, ApplyLiveProperties
  <2>4. \A a : Holds(t, a) => HoldsBut(known, a \cup {s}, s)
    BY <1>4, <1>5 DEF Holds, HoldsBut
  <2>5. \A a : Holds(t, a) => Holds(u, a \cup {s})
    BY <1>4, <1>5, <2>1, <2>3, <2>4
  <2>6. t.cursor # Null => Advances(t, u)
    BY <1>5, <2>3 DEF Advances
  <2> QED BY <1>5, <1>9, <2>3, <2>5, <2>6 DEF u
<1> QED BY <1>8, <1>9

\* replaceKnown: only records change.
LEMMA ReplaceKnownProperties ==
    ASSUME NEW N \in Nat, NEW t, IsTimeline(t, 1..N), NEW s, NEW c \in Content
    PROVE  LET u == ReplaceKnown(t, s, c)
           IN  /\ IsTimeline(u, 1..N)
               /\ u.visible = t.visible
               /\ u.accepted = t.accepted
               /\ u.buffered = t.buffered
               /\ u.cursor = t.cursor /\ u.before = t.before /\ u.more = t.more
<1> DEFINE records == [t.records EXCEPT ![s] = c]
<1>1. IsContentOf(t.records, 1..N)
  BY DEF IsTimeline
<1>2. IsContentOf(records, 1..N) /\ DOMAIN records = Known(t)
  BY <1>1 DEF Known, IsContentOf
<1>3. ReplaceKnown(t, s, c) = IF s \in Known(t) THEN [t EXCEPT !.records = records] ELSE t
  BY DEF ReplaceKnown
<1> HIDE DEF records
<1> QED BY <1>2, <1>3, RecordsExchanged
\* applyLatest on a timeline without a cursor: the window is the page and the
\* messages buffered right behind it, and accepted ones before it stay.
LEMMA ApplyLatestProperties ==
    ASSUME NEW N \in Nat, NEW t, IsTimeline(t, 1..N), Buffered(t),
           NEW page, IsContentOf(page.content, 1..N), page.through \in 0..N,
           page.next \in (1..N) \cup {Null}, page.more \in BOOLEAN
    PROVE  LET u == ApplyLatest(t, page)
           IN  /\ IsTimeline(u, 1..N) /\ Buffered(u)
               /\ \A a : Holds(t, a) => Holds(u, a)
               /\ u.before = page.next /\ u.more = page.more
               /\ u.cursor \in page.through..N
               /\ DOMAIN page.content \cup ((page.through + 1)..u.cursor) \subseteq u.visible
               /\ \A s \in u.visible \ (DOMAIN page.content \cup ((page.through + 1)..u.cursor)) :
                     s \in t.visible \/ (s \in t.accepted /\ s <= page.through)
<1> DEFINE C == page.content
           P == DOMAIN C
           i == InsertHistory(t, C)
           l == [i EXCEPT !.cursor = page.through,
                          !.before = page.next,
                          !.more   = page.more]
           d == Discard(l)
           u == Drain(d)
<1>c. IsContentOf(C, 1..N)
  OBVIOUS
<1> HIDE DEF C
<1>1. /\ IsTimeline(i, 1..N)
      /\ i.visible = t.visible \cup P
      /\ i.accepted = t.accepted \ P
      /\ i.buffered = t.buffered \ P
  BY <1>c, InsertHistoryProperties
<1>2. P \subseteq 1..N /\ page.through # Null
  BY <1>c DEF IsContentOf, Null
<1> HIDE DEF i, P
<1>3. /\ IsTimeline(l, 1..N)
      /\ l.visible = t.visible \cup P
      /\ l.accepted = t.accepted \ P
      /\ l.buffered = t.buffered \ P
      /\ l.cursor = page.through /\ l.before = page.next /\ l.more = page.more
  <2>1. page.through \in (1..N) \cup {0, Null}
    OBVIOUS
  <2> DEFINE l1 == [i EXCEPT !.cursor = page.through]
             l2 == [l1 EXCEPT !.before = page.next]
  <2>2. /\ IsTimeline(l1, 1..N) /\ l1.cursor = page.through
        /\ l1.visible = i.visible /\ l1.accepted = i.accepted
        /\ l1.buffered = i.buffered
    BY <1>1, <2>1 DEF IsTimeline, Known
  <2> HIDE DEF l1
  <2>3. /\ IsTimeline(l2, 1..N) /\ l2.cursor = page.through /\ l2.before = page.next
        /\ l2.visible = i.visible /\ l2.accepted = i.accepted
        /\ l2.buffered = i.buffered
    BY <2>2 DEF IsTimeline, Known
  <2>4. l = [l2 EXCEPT !.more = page.more]
    BY DEF l1
  <2> HIDE DEF l2, l
  <2> QED BY <1>1, <2>3, <2>4 DEF IsTimeline, Known
<1> HIDE DEF l
<1>4. l.cursor # Null /\ l.buffered \cap l.visible = {}
  BY <1>2, <1>3 DEF Buffered
<1>5. \A a : Holds(t, a) => Holds(l, a)
  BY <1>3 DEF Holds
<1>6. /\ IsTimeline(d, 1..N) /\ Buffered(d)
      /\ d.visible = l.visible \cup {s \in l.buffered \cap l.accepted : s <= l.cursor}
      /\ d.cursor = l.cursor /\ d.before = l.before /\ d.more = l.more
      /\ \A a : Holds(l, a) => Holds(d, a)
  BY <1>3, <1>4, DiscardProperties
<1> HIDE DEF d
<1>7. /\ IsTimeline(u, 1..N)
      /\ Advances(d, u) /\ Buffered(u) /\ u.cursor # Null
      /\ \A a : Holds(d, a) => Holds(u, a)
      /\ u.before = d.before /\ u.more = d.more
  BY <1>4, <1>6, DrainProperties
<1>8. ApplyLatest(t, page) = u
  BY DEF ApplyLatest, d, l, i, C
<1> HIDE DEF u
<1>9. u.cursor \in 0..N
  BY <1>7 DEF IsTimeline
<1>10. u.cursor \in page.through..N
  BY <1>3, <1>6, <1>7, <1>9 DEF Advances
<1>11. u.visible = (t.visible \cup P \cup {s \in l.buffered \cap l.accepted : s <= page.through})
                     \cup ((page.through + 1)..u.cursor)
  BY <1>3, <1>6, <1>7 DEF Advances
<1>12. \A s \in u.visible \ (P \cup ((page.through + 1)..u.cursor)) :
          s \in t.visible \/ (s \in t.accepted /\ s <= page.through)
  BY <1>3, <1>11
<1> QED BY <1>3, <1>5, <1>6, <1>7, <1>8, <1>10, <1>11, <1>12 DEF P, C

\* applyOlder: the page comes into view.
LEMMA ApplyOlderProperties ==
    ASSUME NEW N \in Nat, NEW t, IsTimeline(t, 1..N), Buffered(t),
           NEW page, IsContentOf(page.content, 1..N),
           page.next \in (1..N) \cup {Null}, page.more \in BOOLEAN
    PROVE  LET u == ApplyOlder(t, page)
           IN  /\ IsTimeline(u, 1..N) /\ Buffered(u)
               /\ \A a : Holds(t, a) => Holds(u, a)
               /\ u.visible = t.visible \cup DOMAIN page.content
               /\ u.cursor = t.cursor
               /\ u.before = page.next /\ u.more = page.more
<1> DEFINE P == DOMAIN page.content
           i == InsertHistory(t, page.content)
           u == [i EXCEPT !.before = page.next, !.more = page.more]
<1>1. /\ IsTimeline(i, 1..N)
      /\ i.visible = t.visible \cup P
      /\ i.accepted = t.accepted \ P
      /\ i.buffered = t.buffered \ P
      /\ i.cursor = t.cursor
  BY InsertHistoryProperties
<1> HIDE DEF i, P
<1>2. /\ IsTimeline(u, 1..N)
      /\ u.visible = t.visible \cup P
      /\ u.accepted = t.accepted \ P
      /\ u.buffered = t.buffered \ P
      /\ u.cursor = t.cursor /\ u.before = page.next /\ u.more = page.more
  BY <1>1 DEF IsTimeline, Known
<1>3. ApplyOlder(t, page) = u
  BY DEF ApplyOlder, i
<1> HIDE DEF u
<1>4. Buffered(u)
  BY <1>2 DEF Buffered
<1>5. \A a : Holds(t, a) => Holds(u, a)
  BY <1>2 DEF Holds
<1> QED BY <1>2, <1>3, <1>4, <1>5 DEF P

\* applySync of the page that follows the cursor: the window advances over
\* the page and, at the end, over what was buffered right behind it.
LEMMA ApplySyncProperties ==
    ASSUME NEW N \in Nat, NEW t, IsTimeline(t, 1..N), Buffered(t), t.cursor # Null,
           NEW page, IsContentOf(page.content, 1..N), page.next \in t.cursor..N,
           DOMAIN page.content = (t.cursor + 1)..page.next
    PROVE  LET u == ApplySync(t, page)
           IN  /\ IsTimeline(u, 1..N) /\ Buffered(u)
               /\ \A a : Holds(t, a) => Holds(u, a)
               /\ Advances(t, u) /\ u.cursor >= page.next
               /\ page.more => u.cursor = page.next
               /\ u.before = t.before /\ u.more = t.more
<1> DEFINE C == page.content
           P == DOMAIN C
           i == InsertHistory(t, C)
           l == [i EXCEPT !.cursor = page.next]
           d == Discard(l)
           u == ApplySync(t, page)
<1>0. t.cursor \in 0..N /\ t.buffered \subseteq 1..N
  BY DEF IsTimeline, Null
<1>c. IsContentOf(C, 1..N)
  OBVIOUS
<1> HIDE DEF C
<1>1. /\ IsTimeline(i, 1..N)
      /\ i.visible = t.visible \cup P
      /\ i.accepted = t.accepted \ P
      /\ i.buffered = t.buffered \ P
      /\ i.before = t.before /\ i.more = t.more
  BY <1>c, InsertHistoryProperties
<1>2. P = (t.cursor + 1)..page.next
  BY DEF C
<1> HIDE DEF i, P
<1>3. /\ IsTimeline(l, 1..N)
      /\ l.visible = t.visible \cup P
      /\ l.accepted = t.accepted \ P
      /\ l.buffered = t.buffered \ P
      /\ l.cursor = page.next /\ l.before = t.before /\ l.more = t.more
  BY <1>0, <1>1 DEF IsTimeline, Known
<1> HIDE DEF l
<1>4. l.cursor # Null /\ l.buffered \cap l.visible = {}
  BY <1>0, <1>3 DEF Buffered, Null
<1>5. \A a : Holds(t, a) => Holds(l, a)
  BY <1>3 DEF Holds
<1>6. {s \in l.buffered \cap l.accepted : s <= l.cursor} = {}
  BY <1>0, <1>2, <1>3 DEF Buffered
<1>7. /\ IsTimeline(d, 1..N) /\ Buffered(d)
      /\ d.visible = l.visible
      /\ d.cursor = l.cursor /\ d.before = l.before /\ d.more = l.more
      /\ \A a : Holds(l, a) => Holds(d, a)
  BY <1>3, <1>4, <1>6, DiscardProperties
<1> HIDE DEF d
<1>8. Advances(t, d)
  BY <1>0, <1>2, <1>3, <1>7 DEF Advances
<1>9. u = IF page.more THEN d ELSE Drain(d)
  BY DEF ApplySync, d, l, i, C
<1> HIDE DEF u
<1>10. CASE page.more
  BY <1>0, <1>3, <1>5, <1>7, <1>8, <1>9, <1>10 DEF u
<1>11. CASE ~page.more
  <2>1. /\ IsTimeline(u, 1..N)
        /\ Advances(d, u) /\ Buffered(u) /\ u.cursor # Null
        /\ \A a : Holds(d, a) => Holds(u, a)
        /\ u.before = d.before /\ u.more = d.more
    BY <1>3, <1>4, <1>7, <1>9, <1>11, DrainProperties
  <2>2. u.cursor \in 0..N
    BY <2>1 DEF IsTimeline, Null
  <2>3. Advances(t, u) /\ u.cursor >= page.next
    BY <1>0, <1>3, <1>7, <1>8, <2>1, <2>2 DEF Advances
  <2> QED BY <1>3, <1>5, <1>7, <1>11, <2>1, <2>3 DEF u
<1> QED BY <1>10, <1>11

-----------------------------------------------------------------------------
(***************************************************************************)
(* Nothing that a timeline knows or shows is ever forgotten                *)
(***************************************************************************)
Grows(t, u) == Known(t) \subseteq Known(u) /\ t.visible \subseteq u.visible

\* A record with the fields of a timeline, whatever they hold.
IsShaped(t) ==
    t = [records |-> t.records, visible |-> t.visible, accepted |-> t.accepted,
         buffered |-> t.buffered, cursor |-> t.cursor, before |-> t.before, more |-> t.more]

LEMMA TimelineIsShaped ==
    ASSUME NEW S, NEW t, IsTimeline(t, S)
    PROVE  IsShaped(t)
BY DEF IsTimeline, IsShaped

LEMMA ShowGrows ==
    ASSUME NEW t, IsShaped(t), NEW V
    PROVE  /\ IsShaped(Show(t, V)) /\ Show(t, V).records = t.records
           /\ Show(t, V).visible = t.visible \cup V
<1>1. PICK y : y = Show(t, V)
  OBVIOUS
<1>2. y = [records |-> t.records, visible |-> t.visible \cup V, accepted |-> t.accepted \ V,
           buffered |-> t.buffered \ V, cursor |-> t.cursor, before |-> t.before,
           more |-> t.more]
  BY <1>1 DEF Show, IsShaped
<1>3. IsShaped(y) /\ y.records = t.records /\ y.visible = t.visible \cup V
  BY <1>2 DEF IsShaped
<1> QED BY <1>1, <1>3

LEMMA DrainGrows ==
    ASSUME NEW t, IsShaped(t)
    PROVE  Grows(t, Drain(t))
<1>1. PICK end, w : w = Show(t, (t.cursor + 1)..end) /\ Drain(t) = [w EXCEPT !.cursor = end]
  BY DEF Drain
<1>2. IsShaped(w) /\ w.records = t.records /\ t.visible \subseteq w.visible
  BY <1>1, ShowGrows
<1>3. Drain(t).records = w.records /\ Drain(t).visible = w.visible
  BY <1>1, <1>2 DEF IsShaped
<1> QED BY <1>2, <1>3 DEF Grows, Known

LEMMA DiscardGrows ==
    ASSUME NEW t, IsShaped(t)
    PROVE  IsShaped(Discard(t)) /\ Grows(t, Discard(t))
<1>1. PICK p, w : w = Show(t, p \cap t.accepted) /\ Discard(t) = [w EXCEPT !.buffered = @ \ p]
  BY DEF Discard
<1>2. IsShaped(w) /\ w.records = t.records /\ t.visible \subseteq w.visible
  BY <1>1, ShowGrows
<1>3. /\ IsShaped(Discard(t))
      /\ Discard(t).records = w.records /\ Discard(t).visible = w.visible
  BY <1>1, <1>2 DEF IsShaped
<1> QED BY <1>2, <1>3 DEF Grows, Known

LEMMA InsertHistoryGrows ==
    ASSUME NEW t, IsShaped(t), NEW page
    PROVE  IsShaped(InsertHistory(t, page)) /\ Grows(t, InsertHistory(t, page))
<1>1. PICK w : /\ w = [t EXCEPT !.records = MergedRecords(@, page)]
               /\ InsertHistory(t, page) = Show(w, DOMAIN page)
  BY DEF InsertHistory
<1>2. /\ IsShaped(w) /\ w.visible = t.visible
      /\ w.records = MergedRecords(t.records, page)
  BY <1>1 DEF IsShaped
<1>3. Known(t) \subseteq DOMAIN w.records
  BY <1>2 DEF MergedRecords, Known
<1>4. PICK y : y = Show(w, DOMAIN page)
  OBVIOUS
<1>5. IsShaped(y) /\ y.records = w.records /\ t.visible \subseteq y.visible
  BY <1>2, <1>4, ShowGrows
<1> QED BY <1>1, <1>3, <1>4, <1>5 DEF Grows, Known

LEMMA BufferGrows ==
    ASSUME NEW t, IsShaped(t), NEW s, NEW c
    PROVE  Grows(t, Buffer(t, s, c))
<1>1. CASE s \in t.visible
  BY <1>1 DEF Buffer, Grows
<1>2. CASE s \notin t.visible
  <2>1. PICK w : /\ w = [t EXCEPT !.records = Register(@, s, c), !.buffered = @ \cup {s}]
                 /\ w = Buffer(t, s, c)
    BY <1>2 DEF Buffer
  <2>2. w.visible = t.visible /\ w.records = Register(t.records, s, c)
    BY <2>1 DEF IsShaped
  <2> QED BY <2>1, <2>2 DEF Grows, Known, Register
<1> QED BY <1>1, <1>2

LEMMA ApplyLiveGrows ==
    ASSUME NEW t, IsShaped(t), NEW s, NEW c
    PROVE  Grows(t, ApplyLive(t, s, c))
<1>1. CASE ApplyLive(t, s, c) = t
  BY <1>1 DEF Grows
<1>2. CASE ApplyLive(t, s, c) = Buffer(t, s, c)
  BY <1>2, BufferGrows
<1>3. ASSUME NEW w, NEW x, NEW y,
             w = [t EXCEPT !.records = Register(@, s, c)],
             x = Show(w, {s}), y = [x EXCEPT !.cursor = s], ApplyLive(t, s, c) = Drain(y)
      PROVE  Grows(t, ApplyLive(t, s, c))
  <2>1. IsShaped(w) /\ w.visible = t.visible /\ w.records = Register(t.records, s, c)
    BY <1>3 DEF IsShaped
  <2>2. IsShaped(x) /\ x.records = w.records /\ t.visible \subseteq x.visible
    <3>1. IsShaped(x) /\ x.records = w.records /\ x.visible = w.visible \cup {s}
      BY <1>3, <2>1, ShowGrows, Zenon
    <3> QED BY <2>1, <3>1
  <2>3. IsShaped(y) /\ y.records = x.records /\ y.visible = x.visible
    BY <1>3, <2>2 DEF IsShaped
  <2>4. Grows(y, Drain(y))
    BY <2>3, DrainGrows
  <2>5. Known(t) \subseteq DOMAIN w.records
    BY <2>1 DEF Known, Register
  <2> QED BY <1>3, <2>2, <2>3, <2>4, <2>5 DEF Grows, Known
<1> QED BY <1>1, <1>2, <1>3 DEF ApplyLive

\* A message that was accepted is known from then on.
LEMMA ApplyAcceptedGrows ==
    ASSUME NEW t, IsShaped(t), NEW s, NEW c
    PROVE  Grows(t, ApplyAccepted(t, s, c)) /\ s \in Known(ApplyAccepted(t, s, c))
<1>1. PICK w : /\ w = [t EXCEPT !.records  = Register(@, s, c),
                                !.accepted = IF s \in t.visible THEN @ ELSE @ \cup {s}]
               /\ \/ ApplyAccepted(t, s, c) = Show(w, {s})
                  \/ ApplyAccepted(t, s, c) = ApplyLive(w, s, c)
  BY DEF ApplyAccepted
<1>2. IsShaped(w) /\ w.visible = t.visible /\ w.records = Register(t.records, s, c)
  BY <1>1 DEF IsShaped
<1>3. s \in DOMAIN w.records /\ Known(t) \subseteq DOMAIN w.records
  BY <1>2 DEF Register, Known
<1>4. Grows(w, Show(w, {s})) /\ Grows(w, ApplyLive(w, s, c))
  <2>1. PICK y : y = Show(w, {s})
    OBVIOUS
  <2>2. y.records = w.records /\ w.visible \subseteq y.visible
    BY <1>2, <2>1, ShowGrows
  <2> QED BY <1>2, <2>1, <2>2, ApplyLiveGrows DEF Grows, Known
<1>5. Grows(w, ApplyAccepted(t, s, c))
  BY <1>1, <1>4, Zenon
<1> QED BY <1>2, <1>3, <1>5 DEF Grows, Known

LEMMA ApplyLatestGrows ==
    ASSUME NEW t, IsShaped(t), NEW page
    PROVE  Grows(t, ApplyLatest(t, page))
<1>1. PICK i, l : /\ i = InsertHistory(t, page.content)
                  /\ l = [i EXCEPT !.cursor = page.through, !.before = page.next,
                                   !.more = page.more]
                  /\ ApplyLatest(t, page) = Drain(Discard(l))
  BY DEF ApplyLatest
<1>2. IsShaped(i) /\ Grows(t, i)
  BY <1>1, InsertHistoryGrows
<1>3. IsShaped(l) /\ l.records = i.records /\ l.visible = i.visible
  BY <1>1, <1>2 DEF IsShaped
<1>4. Grows(l, Discard(l)) /\ Grows(Discard(l), Drain(Discard(l)))
  BY <1>3, DiscardGrows, DrainGrows
<1> QED BY <1>1, <1>2, <1>3, <1>4 DEF Grows, Known

LEMMA ApplySyncGrows ==
    ASSUME NEW t, IsShaped(t), NEW page
    PROVE  Grows(t, ApplySync(t, page))
<1>1. PICK i, l : /\ i = InsertHistory(t, page.content)
                  /\ l = [i EXCEPT !.cursor = page.next]
                  /\ ApplySync(t, page) = IF page.more THEN Discard(l) ELSE Drain(Discard(l))
  BY DEF ApplySync
<1>2. IsShaped(i) /\ Grows(t, i)
  BY <1>1, InsertHistoryGrows
<1>3. IsShaped(l) /\ l.records = i.records /\ l.visible = i.visible
  BY <1>1, <1>2 DEF IsShaped
<1>4. Grows(l, Discard(l)) /\ Grows(Discard(l), Drain(Discard(l)))
  BY <1>3, DiscardGrows, DrainGrows
<1>5. Grows(l, ApplySync(t, page))
  BY <1>1, <1>4 DEF Grows
<1> QED BY <1>2, <1>3, <1>5 DEF Grows, Known

-----------------------------------------------------------------------------
(***************************************************************************)
(* Known contents are kept, but for what a page brings                     *)
(***************************************************************************)

LEMMA DrainRecords ==
    ASSUME NEW t, IsShaped(t)
    PROVE  Drain(t).records = t.records
<1>1. PICK end, w : w = Show(t, (t.cursor + 1)..end) /\ Drain(t) = [w EXCEPT !.cursor = end]
  BY DEF Drain
<1>2. IsShaped(w) /\ w.records = t.records
  BY <1>1, ShowGrows
<1> QED BY <1>1, <1>2 DEF IsShaped

LEMMA DiscardRecords ==
    ASSUME NEW t, IsShaped(t)
    PROVE  Discard(t).records = t.records
<1>1. PICK p, w : w = Show(t, p \cap t.accepted) /\ Discard(t) = [w EXCEPT !.buffered = @ \ p]
  BY DEF Discard
<1>2. IsShaped(w) /\ w.records = t.records
  BY <1>1, ShowGrows
<1> QED BY <1>1, <1>2 DEF IsShaped

LEMMA InsertHistoryRecords ==
    ASSUME NEW t, IsShaped(t), NEW page
    PROVE  InsertHistory(t, page).records = MergedRecords(t.records, page)
<1>1. PICK w, V : /\ w = [t EXCEPT !.records = MergedRecords(@, page)]
                  /\ V = DOMAIN page /\ Show(w, V) = InsertHistory(t, page)
  BY DEF InsertHistory
<1>2. IsShaped(w) /\ w.records = MergedRecords(t.records, page)
  BY <1>1 DEF IsShaped
<1>3. Show(w, V).records = w.records
  BY <1>2, ShowGrows
<1> QED BY <1>1, <1>2, <1>3

\* Every known content of r is kept in q.
Keeps(r, q) == DOMAIN r \subseteq DOMAIN q /\ \A x \in DOMAIN r : q[x] = r[x]

\* #registerRecord keeps what is known.
LEMMA RegisterKeeps ==
    ASSUME NEW r, NEW s, NEW c
    PROVE  Keeps(r, Register(r, s, c))
BY DEF Register, Keeps

LEMMA ApplyLiveKeeps ==
    ASSUME NEW t, IsShaped(t), NEW s, NEW c
    PROVE  Keeps(t.records, ApplyLive(t, s, c).records)
<1>1. CASE ApplyLive(t, s, c) = t
  BY <1>1 DEF Keeps
<1>2. CASE ApplyLive(t, s, c) = Buffer(t, s, c)
  <2>1. CASE s \in t.visible
    BY <1>2, <2>1 DEF Buffer, Keeps
  <2>2. CASE s \notin t.visible
    <3>1. PICK w : /\ w = [t EXCEPT !.records = Register(@, s, c), !.buffered = @ \cup {s}]
                   /\ w = Buffer(t, s, c)
      BY <2>2 DEF Buffer
    <3>2. w.records = Register(t.records, s, c)
      BY <3>1 DEF IsShaped
    <3>3. Keeps(t.records, w.records)
      BY <3>2, RegisterKeeps
    <3> QED BY <1>2, <3>1, <3>3
  <2> QED BY <2>1, <2>2
<1>3. ASSUME NEW w, NEW x, NEW y,
             w = [t EXCEPT !.records = Register(@, s, c)],
             x = Show(w, {s}), y = [x EXCEPT !.cursor = s], ApplyLive(t, s, c) = Drain(y)
      PROVE  Keeps(t.records, ApplyLive(t, s, c).records)
  <2>1. IsShaped(w) /\ w.records = Register(t.records, s, c)
    BY <1>3 DEF IsShaped
  <2>2. IsShaped(x) /\ x.records = w.records
    BY <1>3, <2>1, ShowGrows, Zenon
  <2>3. IsShaped(y) /\ y.records = x.records
    BY <1>3, <2>2 DEF IsShaped
  <2>4. Drain(y).records = Register(t.records, s, c)
    BY <2>1, <2>2, <2>3, DrainRecords
  <2> QED BY <1>3, <2>4, RegisterKeeps
<1> QED BY <1>1, <1>2, <1>3 DEF ApplyLive

LEMMA ApplyAcceptedKeeps ==
    ASSUME NEW t, IsShaped(t), NEW s, NEW c
    PROVE  Keeps(t.records, ApplyAccepted(t, s, c).records)
<1>1. PICK w : /\ w = [t EXCEPT !.records  = Register(@, s, c),
                                !.accepted = IF s \in t.visible THEN @ ELSE @ \cup {s}]
               /\ \/ ApplyAccepted(t, s, c) = Show(w, {s})
                  \/ ApplyAccepted(t, s, c) = ApplyLive(w, s, c)
  BY DEF ApplyAccepted
<1>2. IsShaped(w) /\ w.records = Register(t.records, s, c)
  BY <1>1 DEF IsShaped
<1>3. Keeps(t.records, w.records)
  BY <1>2, RegisterKeeps
<1>4. Keeps(w.records, ApplyLive(w, s, c).records)
  BY <1>2, ApplyLiveKeeps
<1>5. CASE ApplyAccepted(t, s, c) = Show(w, {s})
  <2>1. PICK y : y = Show(w, {s})
    OBVIOUS
  <2>2. y.records = w.records
    BY <1>2, <2>1, ShowGrows
  <2> QED BY <1>3, <1>5, <2>1, <2>2
<1>6. CASE ApplyAccepted(t, s, c) = ApplyLive(w, s, c)
  BY <1>3, <1>4, <1>6 DEF Keeps
<1> QED BY <1>1, <1>5, <1>6

\* A page changes the known contents by Reconciled alone.
LEMMA ApplyPageRecords ==
    ASSUME NEW t, IsShaped(t), NEW page
    PROVE  /\ ApplyLatest(t, page).records = MergedRecords(t.records, page.content)
           /\ ApplyOlder(t, page).records = MergedRecords(t.records, page.content)
           /\ ApplySync(t, page).records = MergedRecords(t.records, page.content)
<1>1. PICK i : i = InsertHistory(t, page.content)
  OBVIOUS
<1>2. IsShaped(i) /\ i.records = MergedRecords(t.records, page.content)
  BY <1>1, InsertHistoryGrows, InsertHistoryRecords
<1>3. ApplyLatest(t, page).records = i.records
  <2>1. PICK l : /\ l = [i EXCEPT !.cursor = page.through, !.before = page.next,
                                  !.more = page.more]
                 /\ ApplyLatest(t, page) = Drain(Discard(l))
    BY <1>1 DEF ApplyLatest
  <2>2. IsShaped(l) /\ l.records = i.records
    BY <1>2, <2>1 DEF IsShaped
  <2> QED BY <2>1, <2>2, DiscardGrows, DiscardRecords, DrainRecords
<1>4. ApplyOlder(t, page).records = i.records
  BY <1>1, <1>2 DEF ApplyOlder, IsShaped
<1>5. ApplySync(t, page).records = i.records
  <2>1. PICK l : /\ l = [i EXCEPT !.cursor = page.next]
                 /\ ApplySync(t, page) = IF page.more THEN Discard(l) ELSE Drain(Discard(l))
    BY <1>1 DEF ApplySync
  <2>2. IsShaped(l) /\ l.records = i.records
    BY <1>2, <2>1 DEF IsShaped
  <2> QED BY <2>1, <2>2, DiscardGrows, DiscardRecords, DrainRecords
<1> QED BY <1>2, <1>3, <1>4, <1>5

-----------------------------------------------------------------------------
(***************************************************************************)
(* What waits in the buffer and lies beyond the cursor goes on waiting     *)
(***************************************************************************)
Waits(t, u) == \A s \in t.buffered : s > u.cursor => s \in u.buffered

LEMMA ShowWaits ==
    ASSUME NEW t, IsShaped(t), NEW V
    PROVE  /\ IsShaped(Show(t, V))
           /\ Show(t, V).buffered = t.buffered \ V /\ Show(t, V).cursor = t.cursor
<1>1. PICK y : y = Show(t, V)
  OBVIOUS
<1>2. y = [records |-> t.records, visible |-> t.visible \cup V, accepted |-> t.accepted \ V,
           buffered |-> t.buffered \ V, cursor |-> t.cursor, before |-> t.before,
           more |-> t.more]
  BY <1>1 DEF Show, IsShaped
<1>3. IsShaped(y) /\ y.buffered = t.buffered \ V /\ y.cursor = t.cursor
  BY <1>2 DEF IsShaped
<1> QED BY <1>1, <1>3

LEMMA DrainWaits ==
    ASSUME NEW N \in Nat, NEW t, IsShaped(t), t.cursor \in 0..N, t.buffered \in SUBSET (1..N)
    PROVE  Waits(t, Drain(t)) /\ Drain(t).cursor \in t.cursor..N
<1>1. PICK end, w : /\ end = EndOfRun(t.cursor, t.buffered)
                    /\ w = Show(t, (t.cursor + 1)..end)
                    /\ Drain(t) = [w EXCEPT !.cursor = end]
  BY DEF Drain
<1>2. end \in t.cursor..N
  BY <1>1, EndOfRunProperties
<1>3. IsShaped(w) /\ w.buffered = t.buffered \ ((t.cursor + 1)..end)
  BY <1>1, ShowWaits
<1>4. Drain(t).buffered = t.buffered \ ((t.cursor + 1)..end) /\ Drain(t).cursor = end
  BY <1>1, <1>3 DEF IsShaped
<1> QED BY <1>2, <1>4 DEF Waits

LEMMA DiscardWaits ==
    ASSUME NEW t, IsShaped(t)
    PROVE  /\ IsShaped(Discard(t)) /\ Discard(t).cursor = t.cursor
           /\ Discard(t).buffered = {s \in t.buffered : ~(s <= t.cursor)}
<1>1. PICK p, w, u : /\ p = {s \in t.buffered : s <= t.cursor}
                     /\ w = Show(t, p \cap t.accepted)
                     /\ u = [w EXCEPT !.buffered = @ \ p] /\ u = Discard(t)
  BY DEF Discard
<1>2. IsShaped(w) /\ w.buffered = t.buffered \ (p \cap t.accepted) /\ w.cursor = t.cursor
  BY <1>1, ShowWaits
<1>3. IsShaped(u) /\ u.buffered = w.buffered \ p /\ u.cursor = t.cursor
  BY <1>1, <1>2 DEF IsShaped
<1>4. u.buffered = {s \in t.buffered : ~(s <= t.cursor)}
  BY <1>1, <1>2, <1>3
<1> QED BY <1>1, <1>3, <1>4

LEMMA InsertHistoryWaits ==
    ASSUME NEW t, IsShaped(t), NEW page
    PROVE  /\ IsShaped(InsertHistory(t, page)) /\ InsertHistory(t, page).cursor = t.cursor
           /\ InsertHistory(t, page).buffered = t.buffered \ DOMAIN page
<1>1. PICK w, V : /\ w = [t EXCEPT !.records = MergedRecords(@, page)]
                  /\ V = DOMAIN page /\ Show(w, V) = InsertHistory(t, page)
  BY DEF InsertHistory
<1>2. IsShaped(w) /\ w.buffered = t.buffered /\ w.cursor = t.cursor
  BY <1>1 DEF IsShaped
<1>3. /\ IsShaped(Show(w, V)) /\ Show(w, V).buffered = w.buffered \ V
      /\ Show(w, V).cursor = w.cursor
  BY <1>2, ShowWaits
<1> QED BY <1>1, <1>2, <1>3

\* A live message is passed by the cursor or waits, and so is what waited.
LEMMA ApplyLiveWaits ==
    ASSUME NEW N \in Nat, NEW t, IsShaped(t), t.cursor \in (0..N) \cup {Null},
           t.buffered \in SUBSET (1..N), t.cursor = Null => t.visible = {},
           NEW s \in 1..N, NEW c, s > t.cursor => s \notin t.visible
    PROVE  LET u == ApplyLive(t, s, c)
           IN  Waits(t, u) /\ (s > u.cursor => s \in u.buffered)
<1>1. CASE t.cursor # Null /\ s <= t.cursor
  BY <1>1 DEF ApplyLive, Waits, Null
<1>2. CASE ~(t.cursor # Null /\ s <= t.cursor) /\ ApplyLive(t, s, c) = Buffer(t, s, c)
  <2>1. s \notin t.visible
    BY <1>2 DEF Null
  <2>2. PICK w : /\ w = [t EXCEPT !.records = Register(@, s, c), !.buffered = @ \cup {s}]
                 /\ w = Buffer(t, s, c)
    BY <2>1 DEF Buffer
  <2>3. w.buffered = t.buffered \cup {s}
    BY <2>2 DEF IsShaped
  <2> QED BY <1>2, <2>2, <2>3 DEF Waits
<1>3. ASSUME NEW w, NEW x, NEW y,
             w = [t EXCEPT !.records = Register(@, s, c)],
             x = Show(w, {s}), y = [x EXCEPT !.cursor = s], ApplyLive(t, s, c) = Drain(y)
      PROVE  LET u == ApplyLive(t, s, c)
             IN  Waits(t, u) /\ (s > u.cursor => s \in u.buffered)
  <2>1. IsShaped(w) /\ w.buffered = t.buffered
    BY <1>3 DEF IsShaped
  <2>2. IsShaped(x) /\ x.buffered = t.buffered \ {s}
    <3>1. IsShaped(x) /\ x.buffered = w.buffered \ {s}
      BY <1>3, <2>1, ShowWaits, ZenonT(60)
    <3> QED BY <2>1, <3>1
  <2>3. IsShaped(y) /\ y.buffered = t.buffered \ {s} /\ y.cursor = s
    BY <1>3, <2>2 DEF IsShaped
  <2>4. Waits(y, Drain(y)) /\ Drain(y).cursor \in s..N
    <3>1. y.cursor \in 0..N /\ y.buffered \in SUBSET (1..N)
      BY <2>3
    <3> QED BY <2>3, <3>1, DrainWaits
  <2>5. PICK z : z = Drain(y) /\ z = ApplyLive(t, s, c)
    BY <1>3
  <2>6. Waits(t, z)
    <3>1. \A q \in t.buffered : q > z.cursor => q \in y.buffered
      <4> SUFFICES ASSUME NEW q \in t.buffered, q > z.cursor  PROVE q # s
        BY <2>3
      <4>1. z.cursor \in s..N
        BY <2>4, <2>5
      <4> QED BY <4>1
    <3>2. Waits(y, z)
      BY <2>4, <2>5
    <3> QED BY <3>1, <3>2 DEF Waits
  <2>7. ~(s > z.cursor)
    <3>1. z.cursor \in s..N
      BY <2>4, <2>5
    <3> QED BY <3>1
  <2> QED BY <2>5, <2>6, <2>7
<1> QED BY <1>1, <1>2, <1>3 DEF ApplyLive

LEMMA ApplyAcceptedWaits ==
    ASSUME NEW N \in Nat, NEW t, IsShaped(t), t.cursor \in (0..N) \cup {Null},
           t.buffered \in SUBSET (1..N), t.cursor = Null => t.visible = {},
           NEW s \in 1..N, NEW c, s > t.cursor => s \notin t.visible
    PROVE  Waits(t, ApplyAccepted(t, s, c))
<1>1. PICK w : /\ w = [t EXCEPT !.records  = Register(@, s, c),
                                !.accepted = IF s \in t.visible THEN @ ELSE @ \cup {s}]
               /\ ApplyAccepted(t, s, c) = IF t.cursor # Null /\ s <= t.cursor
                                           THEN Show(w, {s}) ELSE ApplyLive(w, s, c)
  BY DEF ApplyAccepted
<1>2. /\ IsShaped(w) /\ w.buffered = t.buffered /\ w.visible = t.visible
      /\ w.cursor = t.cursor
  BY <1>1 DEF IsShaped
<1>3. CASE t.cursor # Null /\ s <= t.cursor
  <2>1. PICK y : y = Show(w, {s})
    OBVIOUS
  <2>2. y.buffered = t.buffered \ {s} /\ y.cursor = t.cursor
    <3>1. y.buffered = w.buffered \ {s} /\ y.cursor = w.cursor
      BY <1>2, <2>1, ShowWaits, ZenonT(60)
    <3> QED BY <1>2, <3>1
  <2>3. y = ApplyAccepted(t, s, c)
    BY <1>1, <1>3, <2>1, Zenon
  <2> QED BY <1>3, <2>2, <2>3 DEF Waits, Null
<1>4. CASE ~(t.cursor # Null /\ s <= t.cursor)
  <2>1. Waits(w, ApplyLive(w, s, c))
    BY <1>2, ApplyLiveWaits
  <2>2. ApplyAccepted(t, s, c) = ApplyLive(w, s, c)
    BY <1>1, <1>4, Zenon
  <2> QED BY <1>2, <2>1, <2>2 DEF Waits
<1> QED BY <1>3, <1>4

\* A first page empties the buffer only up to the cursor that it sets.
LEMMA ApplyLatestWaits ==
    ASSUME NEW N \in Nat, NEW t, IsShaped(t), t.buffered \in SUBSET (1..N),
           NEW page, page.through \in 0..N, DOMAIN page.content \subseteq 1..page.through
    PROVE  Waits(t, ApplyLatest(t, page))
<1>1. PICK i, l, d : /\ i = InsertHistory(t, page.content)
                     /\ l = [i EXCEPT !.cursor = page.through, !.before = page.next,
                                      !.more = page.more]
                     /\ d = Discard(l) /\ ApplyLatest(t, page) = Drain(d)
  BY DEF ApplyLatest
<1>2. IsShaped(i) /\ i.buffered = t.buffered \ DOMAIN page.content
  BY <1>1, InsertHistoryWaits
<1>3. /\ IsShaped(l) /\ l.cursor = page.through
      /\ l.buffered = t.buffered \ DOMAIN page.content
  BY <1>1, <1>2 DEF IsShaped
<1>4. IsShaped(d) /\ d.cursor = l.cursor /\ d.buffered = {s \in l.buffered : ~(s <= l.cursor)}
  <2>1. /\ IsShaped(Discard(l)) /\ Discard(l).cursor = l.cursor
        /\ Discard(l).buffered = {s \in l.buffered : ~(s <= l.cursor)}
    BY <1>3, DiscardWaits
  <2> QED BY <1>1, <1>3, <2>1
<1>5. Waits(d, Drain(d)) /\ Drain(d).cursor \in page.through..N
  <2>1. d.cursor \in 0..N /\ d.buffered \in SUBSET (1..N)
    BY <1>3, <1>4
  <2> QED BY <1>3, <1>4, <2>1, DrainWaits
<1>6. \A s \in t.buffered : s > page.through => s \in d.buffered
  BY <1>3, <1>4
<1> QED BY <1>1, <1>5, <1>6 DEF Waits

\* So does a page of a recovery.
LEMMA ApplySyncWaits ==
    ASSUME NEW N \in Nat, NEW t, IsShaped(t), t.buffered \in SUBSET (1..N), t.cursor \in 0..N,
           NEW page, page.next \in t.cursor..N, DOMAIN page.content = (t.cursor + 1)..page.next
    PROVE  Waits(t, ApplySync(t, page))
<1>1. PICK i, l, d : /\ i = InsertHistory(t, page.content)
                     /\ l = [i EXCEPT !.cursor = page.next]
                     /\ d = Discard(l)
                     /\ ApplySync(t, page) = IF page.more THEN d ELSE Drain(d)
  BY DEF ApplySync
<1>2. IsShaped(i) /\ i.buffered = t.buffered \ DOMAIN page.content
  BY <1>1, InsertHistoryWaits
<1>3. /\ IsShaped(l) /\ l.cursor = page.next
      /\ l.buffered = t.buffered \ DOMAIN page.content
  BY <1>1, <1>2 DEF IsShaped
<1>4. IsShaped(d) /\ d.cursor = page.next /\ d.buffered = {s \in l.buffered : ~(s <= l.cursor)}
  <2>1. /\ IsShaped(Discard(l)) /\ Discard(l).cursor = l.cursor
        /\ Discard(l).buffered = {s \in l.buffered : ~(s <= l.cursor)}
    BY <1>3, DiscardWaits
  <2> QED BY <1>1, <1>3, <2>1
<1>5. Waits(d, Drain(d)) /\ Drain(d).cursor \in page.next..N
  <2>1. d.cursor \in 0..N /\ d.buffered \in SUBSET (1..N)
    BY <1>3, <1>4
  <2> QED BY <1>4, <2>1, DrainWaits
<1>6. \A s \in t.buffered : s > page.next => s \in d.buffered
  BY <1>3, <1>4
<1>7. Waits(t, d) /\ Waits(t, Drain(d))
  BY <1>4, <1>5, <1>6 DEF Waits
<1> QED BY <1>1, <1>7, Zenon

\* A page of older messages takes out of the buffer only what the cursor has passed.
LEMMA ApplyOlderWaits ==
    ASSUME NEW t, IsShaped(t), NEW page, \A s \in DOMAIN page.content : ~(s > t.cursor)
    PROVE  Waits(t, ApplyOlder(t, page)) /\ ApplyOlder(t, page).cursor = t.cursor
<1>1. PICK i, u : /\ i = InsertHistory(t, page.content)
                  /\ u = [i EXCEPT !.before = page.next, !.more = page.more]
                  /\ u = ApplyOlder(t, page)
  BY DEF ApplyOlder
<1>2. /\ IsShaped(i) /\ i.cursor = t.cursor
      /\ i.buffered = t.buffered \ DOMAIN page.content
  BY <1>1, InsertHistoryWaits
<1>3. u.cursor = t.cursor /\ u.buffered = t.buffered \ DOMAIN page.content
  BY <1>1, <1>2 DEF IsShaped
<1> QED BY <1>1, <1>3 DEF Waits

=============================================================================
