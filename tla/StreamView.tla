----------------------------- MODULE StreamView -----------------------------
(***************************************************************************)
(* What the timeline of a client promises its user, without connections,   *)
(* pages or buffers: a contiguous window of the message stream that grows  *)
(* at both ends, plus own messages the server has accepted, which may lie  *)
(* before the window.  A new session starts from nothing or from the end   *)
(* of an earlier window.                                                   *)
(***************************************************************************)
EXTENDS Integers

NoCursor == -1

VARIABLES
    size,   \* length of the stream
    own,    \* sequences of the stream this client sent
    lo, hi, \* the window lo..hi; hi is NoCursor before the first page
    shown   \* the sequences in view

view == <<lo, hi, shown>>
vars == <<size, own, view>>

Init ==
    /\ size \in Nat
    /\ own = {}
    /\ lo = 1 /\ hi = NoCursor /\ shown = {}

\* A message joins the stream.
Grow ==
    /\ size' = size + 1
    /\ own' \in {own, own \cup {size + 1}}
    /\ UNCHANGED view

\* The first page opens the window at the end of what the server read.
Open ==
    /\ hi = NoCursor
    /\ hi' \in 0..size
    /\ lo' \in 1..(hi' + 1)
    /\ lo'..hi' \subseteq shown'
    /\ shown' \subseteq (lo'..hi') \cup {s \in own : s <= hi'}
    /\ UNCHANGED <<size, own>>

\* Live messages, pages of a recovery and accepted messages at the end.
Forward ==
    /\ hi # NoCursor
    /\ hi' \in (hi + 1)..size
    /\ shown' = shown \cup (hi + 1)..hi'
    /\ UNCHANGED <<size, own, lo>>

\* A page of older messages.
Backward ==
    /\ hi # NoCursor
    /\ lo' \in 1..(lo - 1)
    /\ shown' = shown \cup (lo'..(lo - 1))
    /\ UNCHANGED <<size, own, hi>>

\* An accepted message of one's own that lies before the window.
Accept(s) ==
    /\ hi # NoCursor
    /\ s \in own /\ s <= hi
    /\ shown' = shown \cup {s}
    /\ UNCHANGED <<size, own, lo, hi>>

\* The session ends; the next one starts from nothing or from a cursor this
\* window had reached.
Restart ==
    /\ hi' \in {NoCursor} \cup 0..hi
    /\ lo' = IF hi' = NoCursor THEN 1 ELSE hi' + 1
    /\ shown' = {}
    /\ UNCHANGED <<size, own>>

Next ==
    \/ Grow \/ Open \/ Forward \/ Backward \/ Restart
    \/ \E s \in own : Accept(s)

Spec == Init /\ [][Next]_vars

-----------------------------------------------------------------------------
\* The promise: the window is in view without a hole, and whatever else is in
\* view is an own message of the stream.
WindowInView ==
    hi # NoCursor =>
        /\ lo..hi \subseteq shown
        /\ shown \subseteq (lo..hi) \cup own
        /\ hi <= size

=============================================================================
