-------------------------- MODULE MCMessageStore --------------------------
(* MessageStore for TLC.                                                   *)
EXTENDS MessageStore

\* One request, by name, sends to the channel, with one key, by name: unless a
\* request sends there no message is ever stored.
ChannelInit ==
    /\ Init
    /\ LET first == task[CHOOSE r \in Requests : TRUE] IN
          first.target = Channel /\ first.key = CHOOSE k \in Keys : TRUE

ChannelSpec == ChannelInit /\ [][Next]_vars /\ Fairness

=============================================================================
