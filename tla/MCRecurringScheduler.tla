------------------------- MODULE MCRecurringScheduler -------------------------
(* Small instances of RecurringScheduler for TLC. *)
EXTENDS RecurringScheduler, TLC

\* the idempotency keys of the approvals
MCKeys == Approvals \X (1 .. CapCycles)

SchedulerSymmetry == Permutations(Attempts)
=============================================================================
