----------------------------- MODULE StreamLog -----------------------------
(***************************************************************************)
(* What the server promises of one message stream: a log that grows by one *)
(* message at a time, whose messages change by one revision at a time and  *)
(* stay deleted once they are.  The store of the messages implements it,   *)
(* and it is all that a session of the client takes for granted.           *)
(***************************************************************************)
EXTENDS Integers, Sequences

VARIABLE log

Fresh == [rev |-> 0, deleted |-> FALSE]

Init == log \in Seq([rev : Nat, deleted : BOOLEAN])

Grow == log' = Append(log, Fresh)

Change(i) ==
    /\ ~log[i].deleted
    /\ \E delete \in BOOLEAN :
          log' = [log EXCEPT ![i] = [rev |-> @.rev + 1, deleted |-> delete]]

Next == Grow \/ \E i \in DOMAIN log : Change(i)

Spec == Init /\ [][Next]_log

=============================================================================
