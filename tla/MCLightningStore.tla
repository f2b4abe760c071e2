--------------------------- MODULE MCLightningStore ---------------------------
(* A small instance of LightningStore for TLC. *)
EXTENDS LightningStore, TLC

\* Sound for the safety runs: no constant names one of these values.
Symmetry ==
    Permutations(Keys) \cup Permutations(Tokens) \cup Permutations(Requests)
        \cup Permutations(Hashes) \cup Permutations(Replies)

=============================================================================
