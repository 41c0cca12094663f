-------------------------- MODULE RecurringScheduler --------------------------
(***************************************************************************)
(* The payer's scheduler of recurring payments (FiberRecurringPayment-     *)
(* Scheduler).  A pass lists the approvals and pays one cycle of each that *)
(* is due, one after the other, through payOffer; then it puts back the    *)
(* whole approval it listed, with the outcome written in.  The payer may   *)
(* revoke an approval meanwhile.  Passes overlap when runDue is called     *)
(* while the timer's pass is under way, or by a second tab or process over *)
(* the same store.                                                         *)
(*                                                                         *)
(* Time is abstracted: which active approvals are due, their retry delay   *)
(* over, is any set.  The amount of every cycle is that of the signed      *)
(* terms, so spending_total is cycles_paid times CycleAmount.              *)
(***************************************************************************)
EXTENDS PaymentFlow

CONSTANTS
  Approvals,      \* approvals of the payer, all of one recurring offer
  MaxFailures     \* maxConsecutiveFailures

KeyOf(a, n) == <<a, n>>     \* `${approval.id}:${nextCycle}`

ASSUME SchedulerAssumption ==
  /\ Recurring /\ ~SingleUse
  /\ MaxFailures \in Nat \ {0}
  /\ CycleAmount \in Amounts /\ 1 .. CapCycles \subseteq AskedCycles
  /\ \A a \in Approvals, n \in 1 .. CapCycles : KeyOf(a, n) \in Keys

VARIABLES
  row,       \* approval -> its row in the approval store
  copy,      \* pass -> the rows it listed and has yet to put back
  left,      \* pass -> approvals it has yet to run
  running,   \* pass -> the approval it pays a cycle of (at most one)
  revoking,  \* approval -> the row that revoke read (at most one)
  stopped    \* approvals whose revoke has returned

schedulerVars == <<row, copy, left, running, revoking, stopped>>
vars == <<ledgerVars, flowVars, schedulerVars>>

Rows == [state : {"none", "active", "revoked", "cap_reached", "failed"}, cycles : Nat, failures : Nat]
NoRow == [state |-> "none", cycles |-> 0, failures |-> 0]
NoRows == [a \in Approvals |-> NoRow]

TypeOK ==
  /\ FlowTypeOK
  /\ row \in [Approvals -> Rows]
  /\ copy \in [Flows -> [Approvals -> Rows]]
  /\ left \in [Flows -> SUBSET Approvals]
  /\ running \in [Flows -> SUBSET Approvals]
  /\ revoking \in [Approvals -> SUBSET Rows]
  /\ stopped \subseteq Approvals

Init ==
  /\ FlowInit
  /\ row = NoRows
  /\ copy = [p \in Flows |-> NoRows]
  /\ left = [p \in Flows |-> {}]
  /\ running = [p \in Flows |-> {}]
  /\ revoking = [a \in Approvals |-> {}]
  /\ stopped = {}

-----------------------------------------------------------------------------
(* The payer. *)

Approve(a) ==
  /\ row[a].state = "none"
  /\ row' = [row EXCEPT ![a] = [NoRow EXCEPT !.state = "active"]]
  /\ UNCHANGED <<ledgerVars, flowVars, copy, left, running, revoking, stopped>>

\* revoke reads the approval, whatever its state; once for each approval
BeginRevoke(a) ==
  /\ row[a].state # "none" /\ revoking[a] = {} /\ a \notin stopped
  /\ revoking' = [revoking EXCEPT ![a] = {row[a]}]
  /\ UNCHANGED <<ledgerVars, flowVars, row, copy, left, running, stopped>>

FinishRevoke(a) ==
  /\ \E r \in revoking[a] : row' = [row EXCEPT ![a] = [r EXCEPT !.state = "revoked"]]
  /\ revoking' = [revoking EXCEPT ![a] = {}]
  /\ stopped' = stopped \cup {a}
  /\ UNCHANGED <<ledgerVars, flowVars, copy, left, running>>

-----------------------------------------------------------------------------
(* Passes. *)

\* runDue lists the approvals and keeps those that are active and due
List(p, due) ==
  /\ left[p] = {} /\ running[p] = {}
  /\ left' = [left EXCEPT ![p] = {a \in due : row[a].state = "active"}]
  /\ left'[p] # {}
  /\ copy' = [copy EXCEPT ![p] = [a \in Approvals |-> IF a \in left'[p] THEN row[a] ELSE NoRow]]
  /\ UNCHANGED <<ledgerVars, flowVars, row, running, revoking, stopped>>

NextOf(r) == r.cycles + 1

\* Mutant of Exhausted: the caps stop the schedule one cycle early.
ExhaustedEarly(r) == NextOf(r) >= CapCycles \/ NextOf(r) * CycleAmount >= SpendingCap

Exhausted(r) == NextOf(r) > CapCycles \/ NextOf(r) * CycleAmount > SpendingCap

\* #runApproval up to payOffer
Run(p, a) ==
  LET r == copy[p][a]
      n == NextOf(r)
  IN /\ running[p] = {} /\ a \in left[p] /\ ~Exhausted(r)
     /\ left' = [left EXCEPT ![p] = @ \ {a}]
     /\ running' = [running EXCEPT ![p] = {a}]
     /\ PayOffer(p, KeyOf(a, n), [amount |-> CycleAmount, cycle |-> n])
     /\ UNCHANGED <<row, copy, revoking, stopped>>

\* #block: a cap is reached
Block(p, a) ==
  /\ running[p] = {} /\ a \in left[p] /\ Exhausted(copy[p][a])
  /\ left' = [left EXCEPT ![p] = @ \ {a}]
  /\ row' = [row EXCEPT ![a] = [copy[p][a] EXCEPT !.state = "cap_reached"]]
  /\ copy' = [copy EXCEPT ![p][a] = NoRow]
  /\ UNCHANGED <<ledgerVars, flowVars, running, revoking, stopped>>

\* Mutant of Outcome: a failed cycle is passed over.
OutcomeAdvancing(r, res) ==
  IF res \in {"payment_sent", "payment_failed"}
  THEN [r EXCEPT !.cycles = @ + 1, !.failures = 0]
  ELSE [r EXCEPT !.failures = @ + 1,
                 !.state = IF r.failures + 1 >= MaxFailures THEN "failed" ELSE @]
\* Mutant of Outcome: failures are not counted.
OutcomeUncounted(r, res) ==
  IF res = "payment_sent" THEN [r EXCEPT !.cycles = @ + 1, !.failures = 0] ELSE r

\* Mutant of Outcome: the result of the flow becomes the approval's status.
OutcomeAsStatus(r, res) ==
  IF res = "payment_sent" THEN [r EXCEPT !.cycles = @ + 1, !.failures = 0]
  ELSE [r EXCEPT !.failures = @ + 1, !.state = IF r.failures + 1 >= MaxFailures THEN res ELSE @]

\* what #runApproval writes into the approval it was given
Outcome(r, res) ==
  IF res = "payment_sent" THEN [r EXCEPT !.cycles = @ + 1, !.failures = 0]
  ELSE [r EXCEPT !.failures = @ + 1,
                 !.state = IF r.failures + 1 >= MaxFailures THEN "failed" ELSE @]

\* #runApproval from the result of payOffer on
Settle(p) ==
  /\ at[p] = "done" /\ result[p] # "thrown"
  /\ \E a \in running[p] :
       /\ row' = [row EXCEPT ![a] = Outcome(copy[p][a], result[p])]
       /\ copy' = [copy EXCEPT ![p][a] = NoRow]
  /\ running' = [running EXCEPT ![p] = {}]
  /\ Forget(p)
  /\ UNCHANGED <<ledgerVars, paid, faults, left, revoking, stopped>>

\* payOffer rejects: runDue rejects, with the approvals left not run
Abort(p) ==
  /\ at[p] = "done" /\ result[p] = "thrown"
  /\ left' = [left EXCEPT ![p] = {}]
  /\ copy' = [copy EXCEPT ![p] = NoRows]
  /\ running' = [running EXCEPT ![p] = {}]
  /\ Forget(p)
  /\ UNCHANGED <<ledgerVars, paid, faults, row, revoking, stopped>>

\* The payer's process dies, or a write of the store fails.  While the
\* resolver works on its request, ReceiveInvoice loses the reply first.
Die(p) ==
  /\ faults < MaxFaults /\ faults' = faults + 1
  /\ running[p] # {} /\ at[p] # "minting"
  /\ left' = [left EXCEPT ![p] = {}]
  /\ copy' = [copy EXCEPT ![p] = NoRows]
  /\ running' = [running EXCEPT ![p] = {}]
  /\ Forget(p)
  /\ UNCHANGED <<ledgerVars, paid, row, revoking, stopped>>

PassStep(p) ==
  \/ \E a \in Approvals : Run(p, a) \/ Block(p, a)
  \/ FlowStep(p) /\ UNCHANGED schedulerVars
  \/ Settle(p)
  \/ Abort(p)

Next ==
  \/ \E a \in Approvals : Approve(a) \/ BeginRevoke(a) \/ FinishRevoke(a)
  \/ \E p \in Flows, due \in SUBSET Approvals : List(p, due)
  \/ \E p \in Flows : PassStep(p) \/ Die(p)
  \/ \E a \in Attempts : Expire(a) /\ UNCHANGED schedulerVars
  \/ Revoke /\ UNCHANGED <<flowVars, schedulerVars>>

\* The timer starts passes, a pass goes on, and an active approval falls due
\* again and again.
Fairness ==
  \A p \in Flows :
    /\ WF_vars(PassStep(p))
    /\ \A a \in Approvals : SF_vars(\E due \in SUBSET Approvals : List(p, due) /\ a \in left'[p])

SafetySpec == Init /\ [][Next]_vars
Spec == SafetySpec /\ Fairness

-----------------------------------------------------------------------------
(* Safety. *)

\* the cycles of approval a that were paid
PaidCycles(a) == {n \in 1 .. CapCycles : \E i \in paid : terms[i].key = KeyOf(a, n)}

\* "Retries without advancing a failed schedule": a cycle that counts as paid
\* was paid, and no cycle is paid while an earlier one is not.
PaidInOrder ==
  \A a \in Approvals :
    /\ 1 .. row[a].cycles \subseteq PaidCycles(a)
    /\ \A n \in PaidCycles(a) : 1 .. n \subseteq PaidCycles(a)

\* The payer pays what it consented to: no cycle twice, never more than the
\* caps, and a schedule that stops for its caps has paid every cycle they allow.
ConsentKept ==
  /\ \A i, j \in paid : terms[i].key = terms[j].key => i = j
  /\ Cardinality(paid) <= CapCycles /\ Cardinality(paid) * CycleAmount <= SpendingCap
  /\ \A a \in Approvals :
       row[a].state = "cap_reached" =>
         \A n \in 1 .. CapCycles : n * CycleAmount <= SpendingCap => n \in PaidCycles(a)

\* "The payer can stop future cycles immediately": no cycle begins after
\* revoke has returned.
NoCycleAfterRevocation ==
  [][\A p \in Flows : running[p] = {} => running'[p] \cap stopped = {}]_vars

-----------------------------------------------------------------------------
(* Liveness. *)

\* Every approval comes to an end, paid up, revoked or given up, and stays
\* there: no pass keeps it alive with what it read before.
EveryApprovalEnds ==
  \A a \in Approvals : row[a].state # "none" ~> [](row[a].state \notin {"none", "active"})
=============================================================================
