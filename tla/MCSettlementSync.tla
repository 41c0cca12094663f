--------------------------- MODULE MCSettlementSync ---------------------------
(* Small instances of SettlementSync for TLC. *)
EXTENDS SettlementSync, TLC

AttemptSymmetry == Permutations(Attempts)
=============================================================================
