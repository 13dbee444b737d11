---------------------------- MODULE MCStreamReads ----------------------------
(* An envelope of twelve: one long text fits beside two short ones, two long *)
(* ones do not, and each of them fits alone.                                 *)
EXTENDS StreamReads

\* The hypothesis of what is proved about integrity errors and of the refinement.
ASSUME EveryMessageFits
=============================================================================
