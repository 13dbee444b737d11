--------------------------- MODULE StreamAnswers ---------------------------
(***************************************************************************)
(* The answer that a state of a message stream gives to a question: the    *)
(* page that a reader would get who looked at the stream alone and at      *)
(* once.  A stream is the sequence of its rows.                            *)
(***************************************************************************)
EXTENDS StreamPages

\* The messages i to j of the stream.
Messages(s, i, j) == [n \in 1..j - i + 1 |-> MessageOf(s[i + n - 1])]

\* What a page with the messages i to j takes.
Size(s, i, j) ==
    LET size[n \in i - 1..j] == Overhead + IF n < i THEN 0 ELSE size[n - 1] + s[n].text
    IN  size[j]

\* The longest run of at most n messages up to j, or from i on, that fits.
StartOf(s, j, n) == Min({i \in j - n + 1..j + 1 : Size(s, i, j) <= Limit})
EndOf(s, i, n) == Max({j \in i - 1..i + n - 1 : Size(s, i, j) <= Limit})

LatestOf(s) ==
    LET j == Len(s)
    IN  LatestPage(j, Messages(s, StartOf(s, j, Min({j, LatestCount})), j))

OlderOf(s, q) ==
    LET j == q.before - 1
    IN  OlderPage(q.before, Messages(s, StartOf(s, j, Min({j, q.limit})), j))

AfterOf(s, q) ==
    LET through == IF q.through = NoCursor THEN Len(s) ELSE q.through
        i == q.after + 1
    IN  SyncPage(q.after, through,
                 Messages(s, i, EndOf(s, i, Min({through - q.after, q.limit}))))

\* The cursors of the question lie in the stream.
IsBehind(s, q) ==
    CASE q.kind = "latest" -> TRUE
      [] q.kind = "older" -> q.before <= Len(s) + 1
      [] q.kind = "sync" -> q.after <= Len(s) /\ q.through <= Len(s)

BadCursor == [status |-> "failure", code |-> "invalid_cursor"]

AnswerOf(s, q) ==
    IF ~IsBehind(s, q) THEN BadCursor
    ELSE [status |-> "page",
          page |-> CASE q.kind = "latest" -> LatestOf(s)
                     [] q.kind = "older" -> OlderOf(s, q)
                     [] q.kind = "sync" -> AfterOf(s, q)]

=============================================================================
