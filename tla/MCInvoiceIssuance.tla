-------------------------- MODULE MCInvoiceIssuance --------------------------
(* Small instances of InvoiceIssuance for TLC. *)
EXTENDS InvoiceIssuance, TLC

AttemptSymmetry == Permutations(Attempts)
=============================================================================
