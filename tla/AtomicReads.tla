---------------------------- MODULE AtomicReads ----------------------------
(***************************************************************************)
(* What a read of a message stream promises: its answer is the page of one *)
(* state that the stream had between the question and the answer, as if    *)
(* the whole read had happened at that moment.  A read may also be refused *)
(* or fail.                                                                *)
(***************************************************************************)
EXTENDS StreamAnswers

VARIABLES
    stream,   \* the messages, by sequence
    question, \* what is asked, if anything
    reply     \* what will be answered, once that is settled

vars == <<stream, question, reply>>

None == [kind |-> "none"]
Undecided == [status |-> "undecided"]
Refusal == [status |-> "failure", code |-> "stream_unavailable"]
Failed == [status |-> "failed"]

HeadSeq == Len(stream)

-----------------------------------------------------------------------------
Init ==
    /\ stream = <<>>
    /\ question = None
    /\ reply = Undecided

\* Messages are appended and changed where they are, but for the deleted ones.
Change ==
    /\ stream' # stream
    /\ Len(stream') \in {HeadSeq, HeadSeq + 1}
    /\ \A n \in DOMAIN stream' : stream'[n].seq = n
    /\ \A n \in DOMAIN stream : stream[n].deleted => stream'[n] = stream[n]
    /\ UNCHANGED <<question, reply>>

Ask ==
    /\ question' # None
    /\ reply' = Undecided
    /\ UNCHANGED stream

Decide ==
    /\ question # None
    /\ reply = Undecided
    /\ reply' \in {AnswerOf(stream, question), Refusal, Failed}
    /\ UNCHANGED <<stream, question>>

\* An answer that was settled is lost.
Lose ==
    /\ reply.status = "page"
    /\ reply' = Failed
    /\ UNCHANGED <<stream, question>>

\* The answer is given.
Done ==
    /\ question' = None
    /\ reply' = Undecided
    /\ UNCHANGED stream

Next == Change \/ Ask \/ Decide \/ Lose \/ Done

Spec == Init /\ [][Next]_vars

=============================================================================
