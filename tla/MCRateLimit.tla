----------------------------- MODULE MCRateLimit -----------------------------
(***************************************************************************)
(* A small instance of RateLimit for TLC.                                  *)
(***************************************************************************)
EXTENDS RateLimit, TLC

\* Workers and processes are interchangeable.
Symmetry == Permutations(Workers) \cup Permutations(Processes)

=============================================================================
