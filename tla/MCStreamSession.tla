-------------------------- MODULE MCStreamSession --------------------------
(***************************************************************************)
(* StreamSession for TLC, with what the repository's documents and comments*)
(* say of it and the code does not keep.                                   *)
(***************************************************************************)
EXTENDS StreamSession

\* FS-SYNC-001: a session that reconnects with a cursor catches up with
\* everything committed while it was away.
ReadyIsCaughtUp ==
    phase = "ready" /\ link = "joined" => Missed \cap 1..owed = {}

=============================================================================
