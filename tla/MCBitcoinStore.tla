--------------------------- MODULE MCBitcoinStore ---------------------------
(* A small instance of BitcoinStore for TLC, with BitcoinPsbt as one client. *)
EXTENDS BitcoinPsbt, TLC

\* Keys and tokens are interchangeable, and so are transactions.
Symmetry == Permutations(Keys) \cup Permutations(Tokens) \cup Permutations(TxIds)

=============================================================================
