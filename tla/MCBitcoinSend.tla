---------------------------- MODULE MCBitcoinSend ----------------------------
(* A small instance of BitcoinSend for TLC. *)
EXTENDS BitcoinSend, TLC

\* Sound for the safety runs: no constant names one of these values.
Symmetry ==
    Permutations(Keys) \cup Permutations(Tokens) \cup Permutations(TxIds)
        \cup Permutations(Requests) \cup Permutations(Workers)
        \cup Permutations(Coins)

=============================================================================
