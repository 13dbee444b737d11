----------------------------- MODULE MCChatApi -----------------------------
(* Two requests at a pool of one connection: each meets the other in every *)
(* state, and one of them may find the pool empty.                         *)
EXTENDS ChatApi
=============================================================================
