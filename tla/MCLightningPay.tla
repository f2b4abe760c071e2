---------------------------- MODULE MCLightningPay ----------------------------
(* A small instance of LightningPay for TLC. *)
EXTENDS LightningPay, TLC

\* Every request pays the same invoice: they differ in the fee limit, say.
OneInvoice == [r \in Requests |-> CHOOSE h \in Hashes : TRUE]

\* Sound for the safety runs: no constant names one of these values.
Symmetry ==
    Permutations(Keys) \cup Permutations(Tokens) \cup Permutations(Requests)
        \cup Permutations(Workers)

=============================================================================
