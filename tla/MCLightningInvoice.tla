-------------------------- MODULE MCLightningInvoice --------------------------
(* A small instance of LightningInvoice for TLC. *)
EXTENDS LightningInvoice, TLC

\* Sound for the safety runs: no constant names one of these values.
Symmetry ==
    Permutations(Keys) \cup Permutations(Tokens) \cup Permutations(Invoices)
        \cup Permutations(Workers)

=============================================================================
