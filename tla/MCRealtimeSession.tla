------------------------- MODULE MCRealtimeSession -------------------------
(* RealtimeSession for TLC: one sync request, one channel and one thread.  *)
EXTENDS RealtimeSession
=============================================================================
