---------------------- MODULE RecurringSchedulerProofs ----------------------
(***************************************************************************)
(* Theorems about RecurringScheduler, for any number of approvals, passes, *)
(* cycles and faults: its types, that cycles are paid in order and counted *)
(* only when they were paid, none twice nor beyond the caps, that a        *)
(* schedule stops for its caps only when it has used them up, and that a   *)
(* revocation holds when it returns while no pass has the approval in hand.*)
(***************************************************************************)
EXTENDS RecurringScheduler, InvoiceLedgerProofs

-----------------------------------------------------------------------------
(* Types. *)

LEMMA PlaceHolders ==
  /\ NoAsk \in [key : Keys \cup {NoKey}, request : Request]
  /\ NoInvoice \in Attempts
  /\ NoRow \in Rows /\ NoRows \in [Approvals -> Rows]
<1>1. NoAsk \in [key : Keys \cup {NoKey}, request : Request]
  BY NoTermsType DEF NoAsk, Terms
<1>2. NoInvoice \in Attempts
  BY LedgerAssumption DEF NoInvoice
<1> QED BY <1>1, <1>2 DEF NoRow, NoRows, Rows

LEMMA FreshType ==
  ASSUME Fresh # {}
  PROVE  (CHOOSE b \in Fresh : TRUE) \in Attempts /\ status[CHOOSE b \in Fresh : TRUE] = "unused"
BY DEF Fresh

\* Operations on the ledger that need no request.
LEMMA PlainLedgerTypes ==
  ASSUME LedgerTypeOK, NEW a \in Attempts,
         Lapse(a) \/ Finalize(a) \/ Abandon(a) \/ Revoke \/ UNCHANGED ledgerVars
  PROVE  LedgerTypeOK'
BY NoTermsType, LedgerTypes DEF Terms

LEMMA FaultType ==
  ASSUME FlowTypeOK, faults' = faults \/ (faults < MaxFaults /\ faults' = faults + 1)
  PROVE  faults' \in 0 .. MaxFaults
BY FlowAssumption DEF FlowTypeOK

\* What Continue, Return, Fault and Forget leave of the types of a flow.
FlowPartOK ==
  /\ at \in [Flows -> {"idle", "checking", "requesting", "minting", "rechecking", "sending", "done"}]
  /\ ask \in [Flows -> [key : Keys \cup {NoKey}, request : Request]]
  /\ result \in [Flows -> Results]
  /\ faults \in 0 .. MaxFaults

LEMMA ContinueType ==
  ASSUME FlowTypeOK, NEW f \in Flows, NEW from,
         NEW to \in {"requesting", "minting", "rechecking", "sending"}, Continue(f, from, to)
  PROVE  FlowPartOK'
BY DEF Continue, FlowTypeOK, FlowPartOK

LEMMA ReturnType ==
  ASSUME FlowTypeOK, NEW f \in Flows, NEW from, NEW r \in Results,
         (Return(f, from, r) /\ UNCHANGED faults) \/ Fault(f, from, r)
  PROVE  FlowPartOK' /\ inv' = inv
BY FaultType DEF Return, Fault, FlowTypeOK, FlowPartOK

LEMMA ForgetType ==
  ASSUME FlowTypeOK, NEW f \in Flows, Forget(f), UNCHANGED <<ledgerVars, paid>>,
         faults' \in 0 .. MaxFaults
  PROVE  FlowTypeOK'
BY PlaceHolders DEF Forget, FlowTypeOK, LedgerTypeOK, ledgerVars, Results

LEMMA FlowTypes ==
  ASSUME FlowTypeOK, NEW f \in Flows, FlowStep(f)
  PROVE  FlowTypeOK'
<1>t. LedgerTypeOK /\ inv \in [Flows -> Attempts] /\ paid \subseteq Attempts
  BY DEF FlowTypeOK
<1>u. UNCHANGED ledgerVars => LedgerTypeOK'
  BY <1>t DEF LedgerTypeOK, ledgerVars
<1>r. \A r \in {"payment_sent", "payment_failed", "blocked", "thrown"} : r \in Results
  BY DEF Results
<1>1. CASE CheckPayment(f)
  BY <1>1, <1>t, <1>u, <1>r, ContinueType, ReturnType DEF CheckPayment, FlowTypeOK, FlowPartOK
<1>2. CASE RequestInvoice(f)
  <2> DEFINE k == ask[f].key
             q == ask[f].request
             a == CHOOSE b \in Fresh : TRUE
  <2>1. k \in Keys \cup {NoKey} /\ q \in Request
    BY DEF FlowTypeOK
  <2>2. paid' = paid
    BY <1>2 DEF RequestInvoice
  <2>3. CASE /\ Fresh # {} /\ Reserve(a, k, q) /\ Continue(f, "requesting", "minting")
             /\ inv' = [inv EXCEPT ![f] = a]
    <3>1. a \in Attempts
      BY <2>3, FreshType
    <3>2. LedgerTypeOK'
      BY <1>t, <2>1, <2>3, <3>1, LedgerTypes
    <3> QED BY <1>t, <2>2, <2>3, <3>1, <3>2, ContinueType DEF FlowTypeOK, FlowPartOK
  <2>4. ASSUME NEW b \in Attempts, Replay(k, q, b), Continue(f, "requesting", "rechecking"),
               inv' = [inv EXCEPT ![f] = b]
        PROVE  FlowTypeOK'
    <3>1. LedgerTypeOK'
      BY <1>t, <2>1, <2>4, LedgerTypes
    <3> QED BY <1>t, <2>2, <2>4, <3>1, ContinueType DEF FlowTypeOK, FlowPartOK
  <2>5. CASE Fresh # {} /\ Refuse(a, k, q) /\ Return(f, "requesting", "thrown") /\ UNCHANGED faults
    <3>1. a \in Attempts
      BY <2>5, FreshType
    <3>2. LedgerTypeOK'
      BY <1>t, <2>1, <2>5, <3>1, LedgerTypes
    <3> QED BY <1>t, <1>r, <2>2, <2>5, <3>2, ReturnType DEF FlowTypeOK, FlowPartOK
  <2>6. CASE UNCHANGED ledgerVars /\ Fault(f, "requesting", "thrown")
    BY <1>t, <1>u, <1>r, <2>2, <2>6, ReturnType DEF FlowTypeOK, FlowPartOK
  <2> QED BY <1>2, <2>3, <2>4, <2>5, <2>6 DEF RequestInvoice
<1>3. CASE ReceiveInvoice(f)
  <2>1. LedgerTypeOK'
    BY <1>3, <1>t, PlainLedgerTypes DEF ReceiveInvoice
  <2>2. FlowPartOK' /\ inv' = inv /\ paid' = paid
    BY <1>3, <1>r, ContinueType, ReturnType DEF ReceiveInvoice
  <2> QED BY <1>t, <2>1, <2>2 DEF FlowTypeOK, FlowPartOK
<1>4. CASE CheckInvoice(f)
  BY <1>4, <1>t, <1>u, <1>r, ContinueType, ReturnType DEF CheckInvoice, FlowTypeOK, FlowPartOK
<1>5. CASE SendPayment(f)
  <2>1. paid' \subseteq Attempts
    BY <1>5, <1>t DEF SendPayment
  <2>2. FlowPartOK' /\ inv' = inv
    BY <1>5, <1>r, ReturnType DEF SendPayment
  <2> QED BY <1>5, <1>t, <1>u, <2>1, <2>2 DEF SendPayment, FlowTypeOK, FlowPartOK
<1> QED BY <1>1, <1>2, <1>3, <1>4, <1>5 DEF FlowStep

LEMMA RowWithState ==
  ASSUME NEW r \in Rows, NEW s \in {"active", "revoked", "cap_reached", "failed"}
  PROVE  [r EXCEPT !.state = s] \in Rows /\ [r EXCEPT !.state = s].cycles = r.cycles
<1>1. r.cycles \in Nat /\ r.failures \in Nat
  BY DEF Rows
<1>2. [r EXCEPT !.state = s] = [state |-> s, cycles |-> r.cycles, failures |-> r.failures]
  BY DEF Rows
<1> QED BY <1>1, <1>2 DEF Rows

LEMMA OutcomeType ==
  ASSUME NEW r \in Rows, NEW res
  PROVE  /\ Outcome(r, res) \in Rows
         /\ Outcome(r, res).cycles = IF res = "payment_sent" THEN r.cycles + 1 ELSE r.cycles
<1>1. r.state \in {"none", "active", "revoked", "cap_reached", "failed"} /\ r.cycles \in Nat /\ r.failures \in Nat
  BY DEF Rows
<1>2. CASE res = "payment_sent"
  <2>1. Outcome(r, res) = [state |-> r.state, cycles |-> r.cycles + 1, failures |-> 0]
    BY <1>2 DEF Outcome, Rows
  <2> QED BY <1>1, <1>2, <2>1 DEF Rows
<1>3. CASE res # "payment_sent"
  <2> DEFINE s == IF r.failures + 1 >= MaxFailures THEN "failed" ELSE r.state
  <2>1. Outcome(r, res) = [state |-> s, cycles |-> r.cycles, failures |-> r.failures + 1]
    BY <1>3 DEF Outcome, Rows
  <2> QED BY <1>1, <1>3, <2>1 DEF Rows
<1> QED BY <1>2, <1>3

LEMMA SchedulerTypeInit == Init => TypeOK
<1> SUFFICES ASSUME Init PROVE TypeOK
  OBVIOUS
<1>1. LedgerTypeOK
  BY NoTermsType DEF Init, FlowInit, LedgerInit, LedgerTypeOK, Statuses
<1>2. 0 \in 0 .. MaxFaults
  BY FlowAssumption
<1> QED BY <1>1, <1>2, PlaceHolders DEF Init, FlowInit, FlowTypeOK, TypeOK, Results

LEMMA SchedulerTypeNext == TypeOK /\ [Next]_vars => TypeOK'
<1> SUFFICES ASSUME TypeOK, [Next]_vars PROVE TypeOK'
  OBVIOUS
<1>t. FlowTypeOK /\ LedgerTypeOK
  BY DEF TypeOK, FlowTypeOK
<1>u. UNCHANGED <<ledgerVars, flowVars>> => FlowTypeOK'
  BY <1>t DEF ledgerVars, flowVars, FlowTypeOK, LedgerTypeOK
<1>1. ASSUME NEW a \in Approvals, Approve(a) PROVE TypeOK'
  <2>1. [NoRow EXCEPT !.state = "active"] \in Rows
    BY DEF NoRow, Rows
  <2> QED BY <1>1, <1>u, <2>1 DEF Approve, TypeOK
<1>2. ASSUME NEW a \in Approvals, BeginRevoke(a) PROVE TypeOK'
  BY <1>2, <1>u DEF BeginRevoke, TypeOK
<1>3. ASSUME NEW a \in Approvals, FinishRevoke(a) PROVE TypeOK'
  <2>1. \A r \in revoking[a] : [r EXCEPT !.state = "revoked"] \in Rows
    BY RowWithState DEF TypeOK
  <2> QED BY <1>3, <1>u, <2>1 DEF FinishRevoke, TypeOK
<1>4. ASSUME NEW p \in Flows, NEW due \in SUBSET Approvals, List(p, due) PROVE TypeOK'
  BY <1>4, <1>u, PlaceHolders DEF List, TypeOK
<1>5. ASSUME NEW p \in Flows, NEW a \in Approvals, Run(p, a) PROVE TypeOK'
  <2>1. KeyOf(a, NextOf(copy[p][a])) \in Keys /\ [amount |-> CycleAmount, cycle |-> NextOf(copy[p][a])] \in Request
    <3>1. NextOf(copy[p][a]) \in 1 .. CapCycles
      BY <1>5, LedgerAssumption DEF Run, Exhausted, NextOf, TypeOK, Rows
    <3> QED BY <3>1, SchedulerAssumption DEF Request
  <2>2. FlowTypeOK'
    BY <1>5, <1>t, <2>1 DEF Run, PayOffer, FlowTypeOK, LedgerTypeOK, ledgerVars
  <2> QED BY <1>5, <2>2 DEF Run, TypeOK
<1>6. ASSUME NEW p \in Flows, NEW a \in Approvals, Block(p, a) PROVE TypeOK'
  <2>1. copy[p][a] \in Rows
    BY DEF TypeOK
  <2>2. [copy[p][a] EXCEPT !.state = "cap_reached"] \in Rows
    BY <2>1, RowWithState
  <2> QED BY <1>6, <1>u, <2>2, PlaceHolders DEF Block, TypeOK
<1>7. ASSUME NEW p \in Flows, FlowStep(p), UNCHANGED schedulerVars PROVE TypeOK'
  BY <1>7, <1>t, FlowTypes DEF schedulerVars, TypeOK
<1>8. ASSUME NEW p \in Flows, Settle(p) PROVE TypeOK'
  <2>1. FlowTypeOK'
    BY <1>8, <1>t, ForgetType DEF Settle, FlowTypeOK
  <2>2. PICK a \in running[p] :
          /\ row' = [row EXCEPT ![a] = Outcome(copy[p][a], result[p])]
          /\ copy' = [copy EXCEPT ![p][a] = NoRow]
    BY <1>8 DEF Settle
  <2>3. a \in Approvals /\ Outcome(copy[p][a], result[p]) \in Rows
    BY OutcomeType DEF TypeOK
  <2> QED BY <1>8, <2>1, <2>2, <2>3, PlaceHolders DEF Settle, TypeOK
<1>9. ASSUME NEW p \in Flows, Abort(p) PROVE TypeOK'
  <2>1. FlowTypeOK'
    BY <1>9, <1>t, ForgetType DEF Abort, FlowTypeOK
  <2> QED BY <1>9, <2>1, PlaceHolders DEF Abort, TypeOK
<1>10. ASSUME NEW p \in Flows, Die(p) PROVE TypeOK'
  <2>1. FlowTypeOK'
    BY <1>10, <1>t, ForgetType, FaultType DEF Die
  <2> QED BY <1>10, <2>1, PlaceHolders DEF Die, TypeOK
<1>11. ASSUME NEW a \in Attempts, Expire(a), UNCHANGED schedulerVars PROVE TypeOK'
  <2>1. LedgerTypeOK'
    BY <1>11, <1>t, PlainLedgerTypes DEF Expire
  <2>2. faults' \in 0 .. MaxFaults
    BY <1>11, <1>t, FlowAssumption DEF Expire, FlowTypeOK
  <2> QED BY <1>11, <2>1, <2>2 DEF Expire, schedulerVars, FlowTypeOK, TypeOK
<1>12. CASE Revoke /\ UNCHANGED <<flowVars, schedulerVars>>
  <2>1. LedgerTypeOK'
    BY <1>12, <1>t, LedgerAssumption, PlainLedgerTypes
  <2> QED BY <1>12, <2>1 DEF flowVars, schedulerVars, FlowTypeOK, TypeOK
<1>13. CASE UNCHANGED vars
  BY <1>13, <1>u DEF vars, schedulerVars, TypeOK
<1> QED BY <1>1, <1>2, <1>3, <1>4, <1>5, <1>6, <1>7, <1>8, <1>9, <1>10, <1>11, <1>12, <1>13
        DEF Next, PassStep

\* Every variable of the scheduler, its payment flows and the ledger keeps
\* its type.
THEOREM SchedulerTypeCorrect == SafetySpec => []TypeOK
<1> QED BY SchedulerTypeInit, SchedulerTypeNext, PTL DEF SafetySpec

-----------------------------------------------------------------------------
(* Cycles are paid in order. *)

\* Every cycle a row counts was paid; a paid cycle follows paid cycles.
Backed(a, r) == 1 .. r.cycles \subseteq PaidCycles(a)
Gapless(a) == \A n \in PaidCycles(a) : 1 .. n \subseteq PaidCycles(a)

\* A flow works on the cycle after those its listed row counts, and the
\* invoice it holds was reserved under that cycle's key.
FlowHolds(p) ==
  /\ at[p] = "idle" => running[p] = {}
  /\ \A a, b \in running[p] : a = b
  /\ \A a \in running[p] :
       /\ NextOf(copy[p][a]) \in 1 .. CapCycles
       /\ ask[p].key = KeyOf(a, NextOf(copy[p][a]))
  /\ at[p] # "idle" => running[p] # {}
  /\ at[p] \in {"minting", "rechecking", "sending"} =>
       status[inv[p]] # "unused" /\ terms[inv[p]].key = ask[p].key
  /\ at[p] # "done" => result[p] = "none"
  /\ result[p] = "payment_sent" => \E i \in paid : terms[i].key = ask[p].key

OrderInv ==
  /\ TypeOK
  /\ \A i \in paid : status[i] # "unused"
  /\ \A a \in Approvals : Gapless(a) /\ Backed(a, row[a])
  /\ \A a \in Approvals : \A r \in revoking[a] : Backed(a, r)
  /\ \A p \in Flows, a \in Approvals : Backed(a, copy[p][a])
  /\ \A p \in Flows : FlowHolds(p)

\* What every step keeps of the ledger and of the payments.
Kept ==
  /\ paid \subseteq paid'
  /\ \A i \in Attempts : status[i] # "unused" => status'[i] # "unused" /\ terms'[i] = terms[i]

LEMMA LedgerKept ==
  ASSUME LedgerTypeOK, NEW a \in Attempts, NEW k, NEW q,
         \/ status[a] = "unused" /\ Reserve(a, k, q)
         \/ \E b \in Attempts : Replay(k, q, b)
         \/ Refuse(a, k, q)
         \/ Lapse(a) \/ Finalize(a) \/ Abandon(a) \/ Revoke
         \/ UNCHANGED ledgerVars
  PROVE  \A i \in Attempts : status[i] # "unused" => status'[i] # "unused" /\ terms'[i] = terms[i]
BY DEF LedgerTypeOK, Reserve, Replay, Refuse, Lapse, Finalize, Abandon, Revoke, ledgerVars, Purged

\* Payments are never forgotten, so a row stays backed.
LEMMA KeptCycles ==
  ASSUME OrderInv, Kept, NEW a \in Approvals
  PROVE  PaidCycles(a) \subseteq PaidCycles(a)'
<1>1. \A i \in paid : i \in paid' /\ terms'[i] = terms[i]
  BY DEF OrderInv, Kept, TypeOK, FlowTypeOK
<1> QED BY <1>1 DEF PaidCycles

LEMMA SamePaidCycles ==
  ASSUME OrderInv, Kept, paid' = paid, NEW a \in Approvals
  PROVE  PaidCycles(a)' = PaidCycles(a)
<1>1. \A i \in paid : terms'[i] = terms[i]
  BY DEF OrderInv, Kept, TypeOK, FlowTypeOK
<1> QED BY <1>1 DEF PaidCycles

LEMMA FlowUntouched ==
  ASSUME OrderInv, Kept, NEW p \in Flows,
         at'[p] = at[p], ask'[p] = ask[p], inv'[p] = inv[p], result'[p] = result[p],
         running'[p] = running[p], copy'[p] = copy[p]
  PROVE  FlowHolds(p)'
<1>1. FlowHolds(p) /\ inv[p] \in Attempts /\ paid \subseteq Attempts /\ \A i \in paid : status[i] # "unused"
  BY DEF OrderInv, TypeOK, FlowTypeOK
<1> QED BY <1>1 DEF FlowHolds, Kept

\* A step that leaves rows, copies and payments as they are.
LEMMA BackedUnchanged ==
  ASSUME OrderInv, Kept, paid' = paid, UNCHANGED <<row, revoking, copy>>
  PROVE  /\ \A i \in paid' : status'[i] # "unused"
         /\ \A a \in Approvals : Gapless(a)' /\ Backed(a, row[a])'
         /\ \A a \in Approvals : \A r \in revoking'[a] : Backed(a, r)'
         /\ \A p \in Flows, a \in Approvals : Backed(a, copy[p][a])'
<1>1. \A i \in paid : i \in Attempts
  BY DEF OrderInv, TypeOK, FlowTypeOK
<1>2. \A a \in Approvals : PaidCycles(a)' = PaidCycles(a)
  BY SamePaidCycles
<1> QED BY <1>1, <1>2 DEF OrderInv, Kept, Gapless, Backed

\* The payment of the next cycle of an approval whose copy is backed.
LEMMA PaymentKeeps ==
  ASSUME OrderInv, NEW p \in Flows, at[p] = "sending", paid' = paid \cup {inv[p]},
         UNCHANGED <<ledgerVars, row, revoking, copy>>
  PROVE  /\ \A i \in paid' : status'[i] # "unused"
         /\ \A a \in Approvals : Gapless(a)' /\ Backed(a, row[a])'
         /\ \A a \in Approvals : \A r \in revoking'[a] : Backed(a, r)'
         /\ \A q \in Flows, a \in Approvals : Backed(a, copy[q][a])'
<1>1. FlowHolds(p) /\ TypeOK /\ inv[p] \in Attempts
  BY DEF OrderInv, TypeOK, FlowTypeOK
<1>2. status' = status /\ terms' = terms
  BY DEF ledgerVars
<1>3. PICK b \in running[p] : /\ NextOf(copy[p][b]) \in 1 .. CapCycles
                              /\ terms[inv[p]].key = KeyOf(b, NextOf(copy[p][b]))
  BY <1>1 DEF FlowHolds
<1>4. b \in Approvals /\ copy[p][b].cycles \in Nat
  BY <1>1 DEF TypeOK, Rows
<1>5. \A a \in Approvals : PaidCycles(a)' = PaidCycles(a) \cup {n \in 1 .. CapCycles : terms[inv[p]].key = KeyOf(a, n)}
  BY <1>2 DEF PaidCycles
<1>6. \A a \in Approvals \ {b} : PaidCycles(a)' = PaidCycles(a)
  BY <1>3, <1>5 DEF KeyOf
<1>7. PaidCycles(b)' = PaidCycles(b) \cup {NextOf(copy[p][b])}
  BY <1>3, <1>4, <1>5 DEF KeyOf
<1>8. Gapless(b)'
  <2>1. 1 .. copy[p][b].cycles \subseteq PaidCycles(b)
    BY <1>4 DEF OrderInv, Backed
  <2>2. 1 .. NextOf(copy[p][b]) \subseteq PaidCycles(b)'
    BY <1>4, <1>7, <2>1 DEF NextOf
  <2>3. Gapless(b)
    BY <1>4 DEF OrderInv
  <2> QED BY <1>7, <2>2, <2>3 DEF Gapless
<1>9. \A a \in Approvals : Gapless(a)' /\ PaidCycles(a) \subseteq PaidCycles(a)'
  BY <1>6, <1>7, <1>8 DEF OrderInv, Gapless
<1>10. \A i \in paid' : status'[i] # "unused"
  BY <1>1, <1>2 DEF OrderInv, FlowHolds
<1> QED BY <1>9, <1>10 DEF OrderInv, Backed

LEMMA FlowKeeps ==
  ASSUME OrderInv, TypeOK', NEW p \in Flows, FlowStep(p), UNCHANGED schedulerVars
  PROVE  OrderInv'
<1>t. TypeOK /\ FlowTypeOK /\ LedgerTypeOK /\ FlowHolds(p) /\ inv[p] \in Attempts
  BY DEF OrderInv, TypeOK, FlowTypeOK
<1>s. UNCHANGED <<row, revoking, copy, running>>
  BY DEF schedulerVars
<1>k. Kept
  <2>1. paid \subseteq paid'
    BY DEF FlowStep, CheckPayment, RequestInvoice, ReceiveInvoice, CheckInvoice, SendPayment
  <2>2. CASE RequestInvoice(p)
    BY <1>t, <2>1, <2>2, FreshType, LedgerKept, LedgerAssumption DEF RequestInvoice, Kept
  <2>3. CASE ReceiveInvoice(p)
    BY <1>t, <2>1, <2>3, LedgerKept DEF ReceiveInvoice, Kept
  <2>4. CASE CheckPayment(p) \/ CheckInvoice(p) \/ SendPayment(p)
    BY <2>1, <2>4 DEF CheckPayment, CheckInvoice, SendPayment, Kept, ledgerVars
  <2> QED BY <2>2, <2>3, <2>4 DEF FlowStep
<1>o. \A q \in Flows \ {p} : FlowHolds(q)'
  <2>1. \A q \in Flows \ {p} : at'[q] = at[q] /\ ask'[q] = ask[q] /\ inv'[q] = inv[q] /\ result'[q] = result[q]
    <3>1. \A from, to : Continue(p, from, to) =>
            \A q \in Flows \ {p} : at'[q] = at[q] /\ ask'[q] = ask[q] /\ result'[q] = result[q]
      BY <1>t DEF Continue, FlowTypeOK
    <3>2. \A from, r : Return(p, from, r) \/ Fault(p, from, r) =>
            \A q \in Flows \ {p} : at'[q] = at[q] /\ ask'[q] = ask[q] /\ result'[q] = result[q] /\ inv'[q] = inv[q]
      BY <1>t DEF Return, Fault, FlowTypeOK
    <3> QED BY <1>t, <3>1, <3>2
            DEF FlowStep, CheckPayment, RequestInvoice, ReceiveInvoice, CheckInvoice, SendPayment, FlowTypeOK
  <2> QED BY <1>s, <1>k, <2>1, FlowUntouched
<1>c. ASSUME NEW from, NEW to \in {"requesting", "minting", "rechecking", "sending"}, from # "idle", from # "done",
             Continue(p, from, to),
             to \in {"minting", "rechecking", "sending"} =>
               status'[inv'[p]] # "unused" /\ terms'[inv'[p]].key = ask[p].key
      PROVE  FlowHolds(p)'
  <2>1. at[p] = from /\ at'[p] = to /\ ask'[p] = ask[p] /\ result'[p] = result[p]
    BY <1>t, <1>c DEF Continue, FlowTypeOK
  <2> QED BY <1>t, <1>s, <1>c, <2>1 DEF FlowHolds
<1>f. ASSUME NEW from, NEW r \in Results, from # "idle", from # "done", Return(p, from, r) \/ Fault(p, from, r),
             r = "payment_sent" => inv[p] \in paid' /\ terms'[inv[p]].key = ask[p].key
      PROVE  FlowHolds(p)'
  <2>1. at[p] = from /\ at'[p] = "done" /\ ask'[p] = ask[p] /\ result'[p] = r
    BY <1>t, <1>f DEF Return, Fault, FlowTypeOK
  <2> QED BY <1>t, <1>s, <1>f, <2>1 DEF FlowHolds
<1>r. /\ "blocked" \in Results /\ "thrown" \in Results /\ "payment_failed" \in Results /\ "payment_sent" \in Results
  BY DEF Results
<1>h. at[p] \in {"minting", "rechecking", "sending"} =>
        status'[inv[p]] # "unused" /\ terms'[inv[p]].key = ask[p].key
  BY <1>t, <1>k DEF FlowHolds, Kept
<1>1. CASE CheckPayment(p)
  <2>1. FlowHolds(p)'
    BY <1>1, <1>c, <1>f, <1>r DEF CheckPayment
  <2> QED BY <1>1, <1>s, <1>k, <1>o, <2>1, BackedUnchanged DEF CheckPayment, OrderInv
<1>2. CASE RequestInvoice(p)
  <2> DEFINE k == ask[p].key
             q == ask[p].request
             a == CHOOSE b \in Fresh : TRUE
  <2>1. ASSUME Fresh # {}, Reserve(a, k, q), Continue(p, "requesting", "minting"),
               inv' = [inv EXCEPT ![p] = a]
        PROVE  FlowHolds(p)'
    <3>1. a \in Attempts /\ inv'[p] = a
      BY <1>t, <2>1, FreshType DEF FlowTypeOK
    <3>2. status'[a] = "invoice_pending" /\ terms'[a].key = k
      <4>1. /\ status' = [Purged EXCEPT ![a] = "invoice_pending"]
            /\ terms' = [terms EXCEPT ![a] = [key |-> k, request |-> q, cycle |-> CycleOf(Purged)]]
        BY <2>1 DEF Reserve
      <4>2. a \in DOMAIN Purged /\ a \in DOMAIN terms
        BY <1>t, <3>1 DEF Purged, LedgerTypeOK
      <4> QED BY <4>1, <4>2
    <3> QED BY <1>c, <2>1, <3>1, <3>2
  <2>2. ASSUME NEW b \in Attempts, Replay(k, q, b), Continue(p, "requesting", "rechecking"),
               inv' = [inv EXCEPT ![p] = b]
        PROVE  FlowHolds(p)'
    <3>1. inv'[p] = b
      BY <1>t, <2>2 DEF FlowTypeOK
    <3>2. Purged[b] # "unused" /\ terms[b].key = k
      BY <2>2 DEF Replay, Replays, KeyHolders, Stored
    <3>3. status'[b] # "unused" /\ terms'[b].key = k
      BY <2>2, <3>2 DEF Replay
    <3> QED BY <1>c, <2>2, <3>1, <3>3
  <2>3. ASSUME Return(p, "requesting", "thrown") \/ Fault(p, "requesting", "thrown")
        PROVE  FlowHolds(p)'
    BY <1>f, <1>r, <2>3
  <2>4. FlowHolds(p)'
    BY <1>2, <2>1, <2>2, <2>3 DEF RequestInvoice
  <2> QED BY <1>2, <1>s, <1>k, <1>o, <2>4, BackedUnchanged DEF RequestInvoice, OrderInv
<1>3. CASE ReceiveInvoice(p)
  <2>1. at[p] = "minting"
    BY <1>3 DEF ReceiveInvoice, Continue, Return, Fault
  <2>2. FlowHolds(p)'
    BY <1>3, <1>c, <1>f, <1>r, <1>h, <2>1 DEF ReceiveInvoice
  <2> QED BY <1>3, <1>s, <1>k, <1>o, <2>2, BackedUnchanged DEF ReceiveInvoice, OrderInv
<1>4. CASE CheckInvoice(p)
  <2>1. at[p] = "rechecking"
    BY <1>4 DEF CheckInvoice, Continue, Return, Fault
  <2>2. FlowHolds(p)'
    BY <1>4, <1>c, <1>f, <1>r, <1>h, <2>1 DEF CheckInvoice
  <2> QED BY <1>4, <1>s, <1>k, <1>o, <2>2, BackedUnchanged DEF CheckInvoice, OrderInv
<1>5. CASE SendPayment(p)
  <2>1. at[p] = "sending"
    BY <1>5 DEF SendPayment, Return, Fault
  <2>2. FlowHolds(p)'
    BY <1>5, <1>f, <1>r, <1>h, <2>1 DEF SendPayment
  <2>3. CASE paid' = paid
    BY <1>s, <1>k, <1>o, <2>2, <2>3, BackedUnchanged DEF OrderInv
  <2>4. CASE paid' = paid \cup {inv[p]}
    BY <1>5, <1>s, <1>o, <2>1, <2>2, <2>4, PaymentKeeps DEF SendPayment, OrderInv
  <2> QED BY <1>5, <2>3, <2>4 DEF SendPayment
<1> QED BY <1>1, <1>2, <1>3, <1>4, <1>5 DEF FlowStep

\* The scheduler's own steps pay nothing and leave the records.
LEMMA PaidUnchanged ==
  ASSUME OrderInv, UNCHANGED <<ledgerVars, paid>>
  PROVE  /\ Kept
         /\ \A i \in paid' : status'[i] # "unused"
         /\ \A a \in Approvals : PaidCycles(a)' = PaidCycles(a) /\ Gapless(a)'
<1>1. Kept
  BY DEF Kept, ledgerVars
<1>2. \A a \in Approvals : PaidCycles(a)' = PaidCycles(a)
  BY <1>1, SamePaidCycles
<1> QED BY <1>1, <1>2 DEF OrderInv, Gapless, ledgerVars

\* A pass that ends its cycle holds nothing.
LEMMA ForgottenHolds ==
  ASSUME OrderInv, NEW p \in Flows, UNCHANGED <<ledgerVars, paid>>, Forget(p),
         running' = [running EXCEPT ![p] = {}],
         \A q \in Flows \ {p} : copy'[q] = copy[q]
  PROVE  \A q \in Flows : FlowHolds(q)'
<1>1. TypeOK /\ FlowTypeOK
  BY DEF OrderInv, TypeOK
<1>2. FlowHolds(p)'
  BY <1>1 DEF Forget, FlowTypeOK, TypeOK, FlowHolds
<1>3. \A q \in Flows \ {p} : /\ at'[q] = at[q] /\ ask'[q] = ask[q] /\ inv'[q] = inv[q]
                             /\ result'[q] = result[q] /\ running'[q] = running[q]
  BY <1>1 DEF Forget, FlowTypeOK, TypeOK
<1> QED BY <1>2, <1>3, PaidUnchanged, FlowUntouched

LEMMA OrderInit == Init => OrderInv
<1> SUFFICES ASSUME Init PROVE OrderInv
  OBVIOUS
<1>1. TypeOK
  BY SchedulerTypeInit
<1>2. paid = {} /\ \A a \in Approvals : PaidCycles(a) = {}
  BY DEF Init, FlowInit, PaidCycles
<1>3. \A a \in Approvals : Gapless(a) /\ Backed(a, NoRow)
  BY <1>2 DEF Gapless, Backed, NoRow
<1>4. /\ \A a \in Approvals : Backed(a, row[a]) /\ revoking[a] = {}
      /\ \A p \in Flows, a \in Approvals : Backed(a, copy[p][a])
  BY <1>3 DEF Init, NoRows
<1>5. \A p \in Flows : FlowHolds(p)
  BY DEF Init, FlowInit, FlowHolds
<1> QED BY <1>1, <1>2, <1>3, <1>4, <1>5 DEF OrderInv

LEMMA OrderNext == OrderInv /\ [Next]_vars => OrderInv'
<1> SUFFICES ASSUME OrderInv, [Next]_vars PROVE OrderInv'
  OBVIOUS
<1>t. TypeOK /\ TypeOK' /\ FlowTypeOK /\ LedgerTypeOK
  BY SchedulerTypeNext DEF OrderInv, TypeOK, FlowTypeOK
<1>b. /\ \A a \in Approvals : Backed(a, row[a]) /\ Backed(a, NoRow)
      /\ \A a \in Approvals : \A r \in revoking[a] : Backed(a, r)
      /\ \A p \in Flows, a \in Approvals : Backed(a, copy[p][a])
  BY DEF OrderInv, Backed, NoRow
<1>p. UNCHANGED <<ledgerVars, paid>> =>
        \A a \in Approvals : \A r : Backed(a, r) => 1 .. r.cycles \subseteq PaidCycles(a)'
  BY PaidUnchanged DEF Backed
<1>q. ASSUME UNCHANGED <<ledgerVars, flowVars, running, copy>>
      PROVE  \A p \in Flows : FlowHolds(p)'
  BY <1>q, PaidUnchanged, FlowUntouched DEF flowVars
<1>1. ASSUME NEW a \in Approvals, Approve(a) PROVE OrderInv'
  <2>1. UNCHANGED <<ledgerVars, flowVars, paid, running, copy, revoking>>
    BY <1>1 DEF Approve, flowVars
  <2>2. \A b \in Approvals : row'[b] = row[b] \/ row'[b].cycles = 0
    BY <1>1, <1>t DEF Approve, NoRow, TypeOK
  <2>3. \A b \in Approvals : Backed(b, row[b])'
    BY <1>b, <1>p, <2>1, <2>2 DEF Backed
  <2>4. /\ \A b \in Approvals : \A r \in revoking'[b] : Backed(b, r)'
        /\ \A p \in Flows, b \in Approvals : Backed(b, copy[p][b])'
    BY <1>b, <1>p, <2>1 DEF Backed
  <2> QED BY <1>t, <1>q, <2>1, <2>3, <2>4, PaidUnchanged DEF OrderInv
<1>2. ASSUME NEW a \in Approvals, BeginRevoke(a) PROVE OrderInv'
  <2>1. UNCHANGED <<ledgerVars, flowVars, paid, running, copy, row>>
    BY <1>2 DEF BeginRevoke, flowVars
  <2>2. \A b \in Approvals : \A r \in revoking'[b] : r \in revoking[b] \/ r = row[b]
    BY <1>2, <1>t DEF BeginRevoke, TypeOK
  <2>3. \A b \in Approvals : \A r \in revoking'[b] : Backed(b, r)'
    BY <1>b, <1>p, <2>1, <2>2 DEF Backed
  <2>4. /\ \A b \in Approvals : Backed(b, row[b])'
        /\ \A p \in Flows, b \in Approvals : Backed(b, copy[p][b])'
    BY <1>b, <1>p, <2>1 DEF Backed
  <2> QED BY <1>t, <1>q, <2>1, <2>3, <2>4, PaidUnchanged DEF OrderInv
<1>3. ASSUME NEW a \in Approvals, FinishRevoke(a) PROVE OrderInv'
  <2>1. UNCHANGED <<ledgerVars, flowVars, paid, running, copy>>
    BY <1>3 DEF FinishRevoke, flowVars
  <2>2. PICK s \in revoking[a] : row' = [row EXCEPT ![a] = [s EXCEPT !.state = "revoked"]]
    BY <1>3 DEF FinishRevoke
  <2>3. s \in Rows /\ [s EXCEPT !.state = "revoked"].cycles = s.cycles
    BY <1>t, <2>2, RowWithState DEF TypeOK
  <2>4. \A b \in Approvals : Backed(b, row[b])'
    <3>1. row'[a].cycles = s.cycles /\ \A b \in Approvals \ {a} : row'[b] = row[b]
      BY <1>t, <2>2, <2>3 DEF TypeOK
    <3> QED BY <1>b, <1>p, <2>1, <2>2, <3>1 DEF Backed
  <2>5. \A b \in Approvals : \A r \in revoking'[b] : r \in revoking[b]
    BY <1>3, <1>t DEF FinishRevoke, TypeOK
  <2>6. /\ \A b \in Approvals : \A r \in revoking'[b] : Backed(b, r)'
        /\ \A p \in Flows, b \in Approvals : Backed(b, copy[p][b])'
    BY <1>b, <1>p, <2>1, <2>5 DEF Backed
  <2> QED BY <1>t, <1>q, <2>1, <2>4, <2>6, PaidUnchanged DEF OrderInv
<1>4. ASSUME NEW p \in Flows, NEW due \in SUBSET Approvals, List(p, due) PROVE OrderInv'
  <2>1. UNCHANGED <<ledgerVars, flowVars, paid, running, row, revoking>>
    BY <1>4 DEF List, flowVars
  <2>2. /\ \A q \in Flows \ {p} : copy'[q] = copy[q]
        /\ \A b \in Approvals : copy'[p][b] = row[b] \/ copy'[p][b] = NoRow
    BY <1>4, <1>t DEF List, TypeOK
  <2>3. \A q \in Flows, b \in Approvals : Backed(b, copy[q][b])'
    <3>1. ASSUME NEW q \in Flows, NEW b \in Approvals PROVE Backed(b, copy'[q][b])
      <4>1. CASE q = p
        BY <1>b, <2>2, <4>1
      <4>2. CASE q # p
        BY <1>b, <2>2, <4>2
      <4> QED BY <4>1, <4>2
    <3> QED BY <1>p, <2>1, <3>1 DEF Backed
  <2>4. /\ \A b \in Approvals : Backed(b, row[b])'
        /\ \A b \in Approvals : \A r \in revoking'[b] : Backed(b, r)'
    BY <1>b, <1>p, <2>1 DEF Backed
  <2>5. \A q \in Flows : FlowHolds(q)'
    <3>1. running[p] = {} /\ FlowHolds(p)
      BY <1>4 DEF List, OrderInv
    <3>2. FlowHolds(p)'
      BY <2>1, <3>1 DEF FlowHolds, flowVars, ledgerVars
    <3>3. \A q \in Flows \ {p} : FlowHolds(q)'
      BY <2>1, <2>2, PaidUnchanged, FlowUntouched DEF flowVars
    <3> QED BY <3>2, <3>3
  <2> QED BY <1>t, <2>1, <2>3, <2>4, <2>5, PaidUnchanged DEF OrderInv
<1>5. ASSUME NEW p \in Flows, NEW a \in Approvals, Run(p, a) PROVE OrderInv'
  <2>1. UNCHANGED <<ledgerVars, paid, copy, row, revoking>>
    BY <1>5 DEF Run, PayOffer
  <2>2. /\ \A b \in Approvals : Backed(b, row[b])'
        /\ \A b \in Approvals : \A r \in revoking'[b] : Backed(b, r)'
        /\ \A q \in Flows, b \in Approvals : Backed(b, copy[q][b])'
    BY <1>b, <1>p, <2>1 DEF Backed
  <2>3. NextOf(copy[p][a]) \in 1 .. CapCycles
    BY <1>5, <1>t, LedgerAssumption DEF Run, Exhausted, NextOf, TypeOK, Rows
  <2>4. /\ at[p] = "idle" /\ at'[p] = "checking" /\ running'[p] = {a} /\ result'[p] = result[p]
        /\ ask'[p].key = KeyOf(a, NextOf(copy[p][a]))
    BY <1>5, <1>t DEF Run, PayOffer, FlowTypeOK, TypeOK
  <2>5. FlowHolds(p)'
    <3>1. result[p] = "none"
      BY <2>4 DEF OrderInv, FlowHolds
    <3> QED BY <2>1, <2>3, <2>4, <3>1 DEF FlowHolds
  <2>6. \A q \in Flows \ {p} : FlowHolds(q)'
    <3>1. \A q \in Flows \ {p} : /\ at'[q] = at[q] /\ ask'[q] = ask[q] /\ inv'[q] = inv[q]
                                 /\ result'[q] = result[q] /\ running'[q] = running[q]
      BY <1>5, <1>t DEF Run, PayOffer, FlowTypeOK, TypeOK
    <3> QED BY <2>1, <3>1, PaidUnchanged, FlowUntouched
  <2> QED BY <1>t, <2>1, <2>2, <2>5, <2>6, PaidUnchanged DEF OrderInv
<1>6. ASSUME NEW p \in Flows, NEW a \in Approvals, Block(p, a) PROVE OrderInv'
  <2>1. UNCHANGED <<ledgerVars, flowVars, paid, running, revoking>>
    BY <1>6 DEF Block, flowVars
  <2>2. /\ \A q \in Flows, b \in Approvals : copy'[q][b] = copy[q][b] \/ copy'[q][b] = NoRow
        /\ \A q \in Flows \ {p} : copy'[q] = copy[q]
    BY <1>6, <1>t DEF Block, TypeOK
  <2>3. \A b \in Approvals : row'[b] = row[b] \/ row'[b].cycles = copy[p][b].cycles
    <3>1. copy[p][a] \in Rows
      BY <1>t DEF TypeOK
    <3>2. [copy[p][a] EXCEPT !.state = "cap_reached"].cycles = copy[p][a].cycles
      BY <3>1, RowWithState
    <3> QED BY <1>6, <1>t, <3>2 DEF Block, TypeOK
  <2>4. /\ \A b \in Approvals : Backed(b, row[b])'
        /\ \A b \in Approvals : \A r \in revoking'[b] : Backed(b, r)'
        /\ \A q \in Flows, b \in Approvals : Backed(b, copy[q][b])'
    <3>1. \A b \in Approvals : Backed(b, row'[b])
      BY <1>b, <2>3 DEF Backed
    <3>2. \A q \in Flows, b \in Approvals : Backed(b, copy'[q][b])
      BY <1>b, <2>2
    <3> QED BY <1>b, <1>p, <2>1, <3>1, <3>2 DEF Backed
  <2>5. \A q \in Flows : FlowHolds(q)'
    <3>1. running[p] = {} /\ FlowHolds(p)
      BY <1>6 DEF Block, OrderInv
    <3>2. FlowHolds(p)'
      BY <2>1, <3>1 DEF FlowHolds, flowVars, ledgerVars
    <3>3. \A q \in Flows \ {p} : FlowHolds(q)'
      BY <2>1, <2>2, PaidUnchanged, FlowUntouched DEF flowVars
    <3> QED BY <3>2, <3>3
  <2> QED BY <1>t, <2>1, <2>4, <2>5, PaidUnchanged DEF OrderInv
<1>7. ASSUME NEW p \in Flows, FlowStep(p), UNCHANGED schedulerVars PROVE OrderInv'
  BY <1>7, <1>t, FlowKeeps
<1>8. ASSUME NEW p \in Flows, Settle(p) PROVE OrderInv'
  <2>1. UNCHANGED <<ledgerVars, paid, revoking>>
    BY <1>8 DEF Settle
  <2>2. PICK a \in running[p] :
          /\ row' = [row EXCEPT ![a] = Outcome(copy[p][a], result[p])]
          /\ copy' = [copy EXCEPT ![p][a] = NoRow]
    BY <1>8 DEF Settle
  <2>3. a \in Approvals /\ copy[p][a] \in Rows
    BY <1>t DEF TypeOK
  <2>4. /\ row'[a] = Outcome(copy[p][a], result[p]) /\ \A b \in Approvals \ {a} : row'[b] = row[b]
        /\ \A q \in Flows, b \in Approvals : copy'[q][b] = copy[q][b] \/ copy'[q][b] = NoRow
        /\ \A q \in Flows \ {p} : copy'[q] = copy[q]
    BY <1>t, <2>2, <2>3 DEF TypeOK
  <2>5. Backed(a, row'[a])
    <3>1. CASE result[p] = "payment_sent"
      <4>1. FlowHolds(p)
        BY DEF OrderInv
      <4>2. NextOf(copy[p][a]) \in PaidCycles(a)
        BY <2>2, <3>1, <4>1 DEF FlowHolds, PaidCycles
      <4>3. row'[a].cycles = NextOf(copy[p][a])
        BY <2>3, <2>4, <3>1, OutcomeType DEF NextOf
      <4>4. Gapless(a)
        BY <2>3 DEF OrderInv
      <4> QED BY <4>2, <4>3, <4>4 DEF Gapless, Backed
    <3>2. CASE result[p] # "payment_sent"
      <4>1. row'[a].cycles = copy[p][a].cycles
        BY <2>3, <2>4, <3>2, OutcomeType
      <4> QED BY <1>b, <2>3, <4>1 DEF Backed
    <3> QED BY <3>1, <3>2
  <2>6. /\ \A b \in Approvals : Backed(b, row[b])'
        /\ \A b \in Approvals : \A r \in revoking'[b] : Backed(b, r)'
        /\ \A q \in Flows, b \in Approvals : Backed(b, copy[q][b])'
    <3>1. \A b \in Approvals : Backed(b, row'[b])
      BY <1>b, <2>4, <2>5
    <3>2. \A q \in Flows, b \in Approvals : Backed(b, copy'[q][b])
      BY <1>b, <2>4
    <3> QED BY <1>b, <1>p, <2>1, <3>1, <3>2 DEF Backed
  <2>7. \A q \in Flows : FlowHolds(q)'
    BY <1>8, <2>1, <2>4, ForgottenHolds DEF Settle
  <2> QED BY <1>t, <2>1, <2>6, <2>7, PaidUnchanged DEF OrderInv
<1>9. ASSUME NEW p \in Flows, Abort(p) \/ Die(p) PROVE OrderInv'
  <2>1. UNCHANGED <<ledgerVars, paid, row, revoking>>
    BY <1>9 DEF Abort, Die
  <2>2. Forget(p) /\ running' = [running EXCEPT ![p] = {}] /\ copy' = [copy EXCEPT ![p] = NoRows]
    BY <1>9 DEF Abort, Die
  <2>3. /\ \A q \in Flows \ {p} : copy'[q] = copy[q]
        /\ \A q \in Flows, b \in Approvals : copy'[q][b] = copy[q][b] \/ copy'[q][b] = NoRow
    BY <1>t, <2>2 DEF TypeOK, NoRows
  <2>4. \A q \in Flows, b \in Approvals : Backed(b, copy'[q][b])
    BY <1>b, <2>3
  <2>5. /\ \A b \in Approvals : Backed(b, row[b])'
        /\ \A b \in Approvals : \A r \in revoking'[b] : Backed(b, r)'
        /\ \A q \in Flows, b \in Approvals : Backed(b, copy[q][b])'
    BY <1>b, <1>p, <2>1, <2>4 DEF Backed
  <2>6. \A q \in Flows : FlowHolds(q)'
    BY <2>1, <2>2, <2>3, ForgottenHolds
  <2> QED BY <1>t, <2>1, <2>5, <2>6, PaidUnchanged DEF OrderInv
<1>10. ASSUME UNCHANGED <<at, ask, inv, result, paid, schedulerVars>>,
              \/ \E a \in Attempts : Lapse(a)
              \/ Revoke
              \/ UNCHANGED ledgerVars
       PROVE OrderInv'
  <2>1. Kept
    BY <1>10, <1>t, LedgerKept, LedgerAssumption DEF Kept
  <2>2. UNCHANGED <<row, revoking, copy, running>>
    BY <1>10 DEF schedulerVars
  <2>3. \A q \in Flows : FlowHolds(q)'
    BY <1>10, <2>1, <2>2, FlowUntouched
  <2> QED BY <1>10, <1>t, <2>1, <2>2, <2>3, BackedUnchanged DEF OrderInv
<1>11. ASSUME NEW a \in Attempts, Expire(a), UNCHANGED schedulerVars PROVE OrderInv'
  BY <1>10, <1>11 DEF Expire
<1>12. CASE Revoke /\ UNCHANGED <<flowVars, schedulerVars>>
  BY <1>10, <1>12 DEF flowVars
<1>13. CASE UNCHANGED vars
  BY <1>10, <1>13 DEF vars, flowVars
<1> QED BY <1>1, <1>2, <1>3, <1>4, <1>5, <1>6, <1>7, <1>8, <1>9, <1>11, <1>12, <1>13
        DEF Next, PassStep

\* Cycles are paid in order, and a cycle that an approval counts was paid,
\* whatever passes overlap, fail, die or put back what they read before.
THEOREM CyclesPaidInOrder == SafetySpec => []PaidInOrder
<1>1. OrderInv => PaidInOrder
  BY DEF OrderInv, PaidInOrder, Backed, Gapless
<1> QED BY <1>1, OrderInit, OrderNext, PTL DEF SafetySpec
-----------------------------------------------------------------------------
(* The payer pays no cycle twice and no more than the caps. *)

\* The records as issuance leaves them: one for each key, within the caps.
RecordInv ==
  /\ \A i \in Attempts : status[i] \in {"unused", "invoice_pending", "invoice_created", "removed"}
  /\ \A i \in Stored(status) : terms[i].key # NoKey
  /\ \A i, j \in Stored(status) : terms[i].key = terms[j].key => i = j
  /\ CyclesCounted /\ CapsRespected

\* What was paid or is about to be, are invoices that the store keeps.
PaidInv ==
  /\ RecordInv
  /\ \A i \in paid : status[i] = "invoice_created"
  /\ \A p \in Flows : at[p] \in {"rechecking", "sending"} => status[inv[p]] = "invoice_created"

IssuedStay ==
  \A i \in Attempts : status[i] = "invoice_created" => status'[i] = "invoice_created" /\ terms'[i] = terms[i]

LEMMA RecordsKept ==
  ASSUME LedgerTypeOK, RecordInv, NEW a \in Attempts, NEW k \in Keys, NEW q \in Request,
         \/ Reserve(a, k, q)
         \/ \E b \in Attempts : Replay(k, q, b)
         \/ Refuse(a, k, q)
         \/ Lapse(a) \/ Finalize(a) \/ Abandon(a) \/ Revoke
         \/ UNCHANGED ledgerVars
  PROVE  RecordInv' /\ IssuedStay
<1>t. status \in [Attempts -> Statuses] /\ terms \in [Attempts -> Terms] /\ k # NoKey
  BY LedgerAssumption DEF LedgerTypeOK
\* no record is added, but pending ones may go or be finalized
<1>s. ASSUME terms' = terms,
             \A i \in Attempts : \/ status'[i] = status[i]
                               \/ /\ status[i] = "invoice_pending"
                                  /\ status'[i] \in {"removed", "invoice_created"}
      PROVE  RecordInv' /\ IssuedStay
  <2>1. \A i \in Stored(status') : i \in Stored(status) /\ terms'[i] = terms[i]
    BY <1>s DEF Stored
  <2>2. \A i \in Attempts : status[i] # "invoice_failed"
    BY DEF RecordInv
  <2>3. CyclesCounted' /\ CapsRespected'
    BY <2>1, <2>2, FewerKeepCaps DEF RecordInv
  <2>4. \A i \in Attempts : status'[i] \in {"unused", "invoice_pending", "invoice_created", "removed"}
    BY <1>s DEF RecordInv
  <2>5. IssuedStay
    BY <1>s DEF IssuedStay
  <2> QED BY <2>1, <2>3, <2>4, <2>5 DEF RecordInv
<1>1. CASE Reserve(a, k, q)
  <2>1. /\ \A b \in Attempts \ {a} : status'[b] = Purged[b] /\ terms'[b] = terms[b]
        /\ status[a] = "unused" /\ status'[a] = "invoice_pending" /\ terms'[a].key = k
    BY <1>1, <1>t DEF Reserve, Purged
  <2>2. \A b \in Stored(status') \ {a} : b \in Stored(Purged) /\ b \in Stored(status) /\ terms'[b] = terms[b]
    BY <2>1 DEF Stored, Purged
  <2>3. \A b \in Stored(Purged) : terms[b].key # k
    BY <1>1, <1>t DEF Reserve, MayReserve, KeyHolders
  <2>4. CyclesCounted' /\ CapsRespected'
    BY <1>1, ReserveKeepsCaps DEF RecordInv
  <2>5. /\ \A b \in Attempts : status'[b] \in {"unused", "invoice_pending", "invoice_created", "removed"}
        /\ IssuedStay
    BY <2>1 DEF RecordInv, IssuedStay, Purged
  <2>6. /\ \A i \in Stored(status') : terms'[i].key # NoKey
        /\ \A i, j \in Stored(status') : terms'[i].key = terms'[j].key => i = j
    BY <1>t, <2>1, <2>2, <2>3 DEF RecordInv
  <2> QED BY <2>4, <2>5, <2>6 DEF RecordInv
<1>2. ASSUME NEW b \in Attempts, Replay(k, q, b) PROVE RecordInv' /\ IssuedStay
  BY <1>2, <1>s DEF Replay, Purged
<1>3. CASE Refuse(a, k, q)
  BY <1>3, <1>s DEF Refuse, Purged
<1>4. CASE Lapse(a) \/ Finalize(a) \/ Abandon(a) \/ Revoke \/ UNCHANGED ledgerVars
  BY <1>4, <1>t, <1>s DEF Lapse, Finalize, Abandon, Revoke, ledgerVars
<1> QED BY <1>1, <1>2, <1>3, <1>4

\* The records stay, though they may expire or the offer be revoked.
LEMMA RecordsStay ==
  ASSUME RecordInv, UNCHANGED <<status, terms>>
  PROVE  RecordInv' /\ IssuedStay
BY DEF RecordInv, IssuedStay, CyclesCounted, CapsRespected, CycleRecords, Prior, Stored

\* A flow asks under the key of a cycle.
LEMMA AskedKey ==
  ASSUME OrderInv, NEW p \in Flows, at[p] # "idle"
  PROVE  ask[p].key \in Keys /\ ask[p].request \in Request
<1>1. PICK a \in running[p] : NextOf(copy[p][a]) \in 1 .. CapCycles /\ ask[p].key = KeyOf(a, NextOf(copy[p][a]))
  BY DEF OrderInv, FlowHolds
<1>2. a \in Approvals /\ ask[p].request \in Request
  BY DEF OrderInv, TypeOK, FlowTypeOK
<1> QED BY <1>1, <1>2, SchedulerAssumption

LEMMA FlowPays ==
  ASSUME OrderInv, PaidInv, NEW p \in Flows, FlowStep(p)
  PROVE  PaidInv'
<1>t. /\ TypeOK /\ FlowTypeOK /\ LedgerTypeOK /\ inv[p] \in Attempts
      /\ at \in [Flows -> {"idle", "checking", "requesting", "minting", "rechecking", "sending", "done"}]
      /\ inv \in [Flows -> Attempts] /\ paid \subseteq Attempts
  BY DEF OrderInv, TypeOK, FlowTypeOK
<1>e. Request # {} /\ Attempts # {}
  BY <1>t, LedgerAssumption DEF FlowTypeOK
\* what is left to show of a step that keeps the records and pays nothing
<1>o. ASSUME RecordInv', IssuedStay, paid' = paid,
             \A r \in Flows \ {p} : at'[r] = at[r] /\ inv'[r] = inv[r],
             at'[p] \in {"rechecking", "sending"} => status'[inv'[p]] = "invoice_created"
      PROVE  PaidInv'
  BY <1>o, <1>t DEF PaidInv, IssuedStay
<1>c. \A from, to : Continue(p, from, to) =>
        at[p] = from /\ at'[p] = to /\ \A r \in Flows \ {p} : at'[r] = at[r]
  BY <1>t DEF Continue
<1>r. \A from, r : Return(p, from, r) \/ Fault(p, from, r) =>
        at[p] = from /\ at'[p] = "done" /\ inv' = inv /\ \A s \in Flows \ {p} : at'[s] = at[s]
  BY <1>t DEF Return, Fault
<1>1. CASE CheckPayment(p)
  <2>1. RecordInv' /\ IssuedStay
    BY <1>1, RecordsStay DEF CheckPayment, PaidInv, ledgerVars
  <2> QED BY <1>1, <1>o, <1>c, <1>r, <2>1 DEF CheckPayment
<1>2. CASE RequestInvoice(p)
  <2> DEFINE k == ask[p].key
             q == ask[p].request
             a == CHOOSE b \in Fresh : TRUE
  <2>1. at[p] = "requesting" /\ paid' = paid
    BY <1>2, <1>c, <1>r DEF RequestInvoice
  <2>2. k \in Keys /\ q \in Request
    BY <2>1, AskedKey
  <2>3. CASE Fresh # {} /\ Reserve(a, k, q) /\ Continue(p, "requesting", "minting") /\ inv' = [inv EXCEPT ![p] = a]
    <3>1. a \in Attempts
      BY <2>3, FreshType
    <3>2. RecordInv' /\ IssuedStay
      BY <1>t, <2>2, <2>3, <3>1, RecordsKept DEF PaidInv
    <3> QED BY <1>t, <1>o, <1>c, <2>1, <2>3, <3>2
  <2>4. ASSUME NEW b \in Attempts, Replay(k, q, b), Continue(p, "requesting", "rechecking"),
               inv' = [inv EXCEPT ![p] = b]
        PROVE  PaidInv'
    <3>1. RecordInv' /\ IssuedStay
      BY <1>t, <2>2, <2>4, RecordsKept DEF PaidInv
    <3>2. status'[b] = "invoice_created"
      BY <2>4 DEF Replay, Replays, KeyHolders, Stored, Purged, PaidInv, RecordInv
    <3>3. inv'[p] = b /\ \A r \in Flows \ {p} : inv'[r] = inv[r]
      BY <1>t, <2>4
    <3> QED BY <1>o, <1>c, <2>1, <2>4, <3>1, <3>2, <3>3
  <2>5. CASE Fresh # {} /\ Refuse(a, k, q) /\ Return(p, "requesting", "thrown")
    <3>1. a \in Attempts
      BY <2>5, FreshType
    <3>2. RecordInv' /\ IssuedStay
      BY <1>t, <2>2, <2>5, <3>1, RecordsKept DEF PaidInv
    <3> QED BY <1>o, <1>r, <2>1, <2>5, <3>2
  <2>6. CASE UNCHANGED ledgerVars /\ Fault(p, "requesting", "thrown")
    <3>1. RecordInv' /\ IssuedStay
      BY <2>6, RecordsStay DEF PaidInv, ledgerVars
    <3> QED BY <1>o, <1>r, <2>1, <2>6, <3>1
  <2> QED BY <1>2, <2>3, <2>4, <2>5, <2>6 DEF RequestInvoice
<1>3. CASE ReceiveInvoice(p)
  <2>1. at[p] = "minting" /\ paid' = paid /\ inv' = inv
    BY <1>3, <1>c, <1>r DEF ReceiveInvoice
  <2>2. RecordInv' /\ IssuedStay
    BY <1>3, <1>t, <2>1, AskedKey, RecordsKept DEF ReceiveInvoice, PaidInv
  <2>3. at'[p] \in {"rechecking", "sending"} => Finalize(inv[p])
    BY <1>3, <1>r DEF ReceiveInvoice
  <2>4. Finalize(inv[p]) => status'[inv[p]] = "invoice_created"
    BY <1>t DEF Finalize, LedgerTypeOK
  <2> QED BY <1>3, <1>o, <1>c, <1>r, <2>1, <2>2, <2>3, <2>4 DEF ReceiveInvoice
<1>4. CASE CheckInvoice(p)
  <2>1. RecordInv' /\ IssuedStay /\ status' = status
    BY <1>4, RecordsStay DEF CheckInvoice, PaidInv, ledgerVars
  <2>2. at[p] = "rechecking" /\ inv' = inv /\ paid' = paid
    BY <1>4, <1>c, <1>r DEF CheckInvoice
  <2> QED BY <1>4, <1>o, <1>c, <1>r, <2>1, <2>2 DEF CheckInvoice, PaidInv
<1>5. CASE SendPayment(p)
  <2>1. RecordInv' /\ IssuedStay /\ status' = status
    BY <1>5, RecordsStay DEF SendPayment, PaidInv, ledgerVars
  <2>2. /\ at[p] = "sending" /\ at'[p] = "done" /\ inv' = inv
        /\ \A r \in Flows \ {p} : at'[r] = at[r]
    BY <1>5, <1>r DEF SendPayment
  <2>3. paid' \subseteq paid \cup {inv[p]}
    BY <1>5 DEF SendPayment
  <2> QED BY <2>1, <2>2, <2>3 DEF PaidInv
<1> QED BY <1>1, <1>2, <1>3, <1>4, <1>5 DEF FlowStep

LEMMA PaidInit == Init => PaidInv
<1> SUFFICES ASSUME Init PROVE PaidInv
  OBVIOUS
<1>1. Stored(status) = {}
  BY DEF Init, FlowInit, LedgerInit, Stored
<1>2. CyclesCounted /\ CapsRespected
  BY CapsInit DEF Init, FlowInit
<1> QED BY <1>1, <1>2 DEF Init, FlowInit, LedgerInit, PaidInv, RecordInv

LEMMA PaidNext == OrderInv /\ PaidInv /\ [Next]_vars => PaidInv'
<1> SUFFICES ASSUME OrderInv, PaidInv, [Next]_vars PROVE PaidInv'
  OBVIOUS
<1>t. /\ LedgerTypeOK /\ paid \subseteq Attempts /\ inv \in [Flows -> Attempts]
      /\ at \in [Flows -> {"idle", "checking", "requesting", "minting", "rechecking", "sending", "done"}]
  BY DEF OrderInv, TypeOK, FlowTypeOK
\* no payment, and no flow comes to hold an invoice
<1>s. ASSUME RecordInv', IssuedStay, paid' = paid,
             \A p \in Flows : at'[p] \in {"rechecking", "sending"} => at[p] = at'[p] /\ inv'[p] = inv[p]
      PROVE  PaidInv'
  BY <1>s, <1>t DEF PaidInv, IssuedStay
<1>u. UNCHANGED ledgerVars => RecordInv' /\ IssuedStay
  BY RecordsStay DEF PaidInv, ledgerVars
<1>1. CASE UNCHANGED <<ledgerVars, flowVars>>
  BY <1>1, <1>s, <1>u DEF flowVars
<1>2. ASSUME NEW p \in Flows, NEW a \in Approvals, Run(p, a) PROVE PaidInv'
  BY <1>2, <1>t, <1>s, <1>u DEF Run, PayOffer
<1>3. ASSUME NEW p \in Flows, FlowStep(p) PROVE PaidInv'
  BY <1>3, FlowPays
<1>4. ASSUME NEW p \in Flows, Settle(p) \/ Abort(p) \/ Die(p) PROVE PaidInv'
  <2>1. Forget(p) /\ UNCHANGED <<ledgerVars, paid>>
    BY <1>4 DEF Settle, Abort, Die
  <2> QED BY <1>t, <1>s, <1>u, <2>1 DEF Forget
<1>5. ASSUME NEW a \in Attempts, Expire(a) PROVE PaidInv'
  <2>1. RecordInv' /\ IssuedStay
    BY <1>5, RecordsStay DEF Expire, Lapse, PaidInv
  <2> QED BY <1>5, <1>s, <2>1 DEF Expire
<1>6. CASE Revoke /\ UNCHANGED flowVars
  <2>1. RecordInv' /\ IssuedStay
    BY <1>6, RecordsStay DEF Revoke, PaidInv
  <2> QED BY <1>6, <1>s, <2>1 DEF flowVars
<1>7. /\ \A a \in Approvals : Approve(a) \/ BeginRevoke(a) \/ FinishRevoke(a) => UNCHANGED <<ledgerVars, flowVars>>
      /\ \A p \in Flows, due \in SUBSET Approvals : List(p, due) => UNCHANGED <<ledgerVars, flowVars>>
      /\ \A p \in Flows, a \in Approvals : Block(p, a) => UNCHANGED <<ledgerVars, flowVars>>
      /\ UNCHANGED vars => UNCHANGED <<ledgerVars, flowVars>>
  BY DEF Approve, BeginRevoke, FinishRevoke, List, Block, vars
<1>8. UNCHANGED <<flowVars, schedulerVars>> => UNCHANGED flowVars
  OBVIOUS
<1> QED BY <1>1, <1>2, <1>3, <1>4, <1>5, <1>6, <1>7, <1>8 DEF Next, PassStep

\* Paid invoices are records that count towards the caps, one for each key.
LEMMA PaidWithinCaps ==
  ASSUME OrderInv, PaidInv
  PROVE  /\ \A i, j \in paid : terms[i].key = terms[j].key => i = j
         /\ Cardinality(paid) <= CapCycles /\ Cardinality(paid) * CycleAmount <= SpendingCap
<1>1. \A i \in paid : i \in Attempts /\ i \in Stored(status) /\ i \in Prior(status)
  BY DEF OrderInv, TypeOK, FlowTypeOK, PaidInv, Stored, Prior
<1>2. paid \subseteq CycleRecords(status)
  BY <1>1, SchedulerAssumption DEF PaidInv, RecordInv, CyclesCounted, CycleRecords
<1>3. Cardinality(paid) <= CapCycles /\ Cardinality(paid) * CycleAmount <= SpendingCap
  BY <1>2, NextCycleType, FewerCycles DEF PaidInv, RecordInv, CapsRespected
<1> QED BY <1>1, <1>3 DEF PaidInv, RecordInv

-----------------------------------------------------------------------------
(* A schedule that stops for its caps has used them up. *)

\* A row is only ever stopped for its caps when it has reached them, and a
\* pass works on no row that was stopped.
CapInv ==
  /\ \A a \in Approvals : row[a].state = "cap_reached" => Exhausted(row[a])
  /\ \A p \in Flows, a \in Approvals : copy[p][a].state \in {"none", "active"}

LEMMA CapNext == TypeOK /\ CapInv /\ [Next]_vars => CapInv'
<1> SUFFICES ASSUME TypeOK, CapInv, [Next]_vars PROVE CapInv'
  OBVIOUS
<1>t. /\ row \in [Approvals -> Rows] /\ copy \in [Flows -> [Approvals -> Rows]]
      /\ revoking \in [Approvals -> SUBSET Rows]
  BY DEF TypeOK
<1>u. ASSUME UNCHANGED <<row, copy>> PROVE CapInv'
  BY <1>u DEF CapInv
\* one row changes, and copies are taken of active rows or thrown away
<1>w. ASSUME NEW a \in Approvals, NEW r, row' = [row EXCEPT ![a] = r],
             r.state = "cap_reached" => Exhausted(r),
             \A p \in Flows, b \in Approvals : copy'[p][b] \in {copy[p][b], NoRow}
      PROVE  CapInv'
  BY <1>w, <1>t DEF CapInv, NoRow
<1>c. ASSUME row' = row,
             \A p \in Flows, b \in Approvals :
               \/ copy'[p][b] \in {copy[p][b], NoRow}
               \/ copy'[p][b] = row[b] /\ row[b].state = "active"
      PROVE  CapInv'
  BY <1>c DEF CapInv, NoRow
<1>1. ASSUME NEW a \in Approvals, Approve(a) PROVE CapInv'
  BY <1>1, <1>w DEF Approve, NoRow
<1>2. ASSUME NEW a \in Approvals, BeginRevoke(a) PROVE CapInv'
  BY <1>2, <1>u DEF BeginRevoke
<1>3. ASSUME NEW a \in Approvals, FinishRevoke(a) PROVE CapInv'
  <2>1. PICK r \in revoking[a] : row' = [row EXCEPT ![a] = [r EXCEPT !.state = "revoked"]]
    BY <1>3 DEF FinishRevoke
  <2>2. [r EXCEPT !.state = "revoked"].state = "revoked"
    BY <1>t, <2>1, RowWithState
  <2> QED BY <1>3, <1>w, <2>1, <2>2 DEF FinishRevoke
<1>4. ASSUME NEW p \in Flows, NEW due \in SUBSET Approvals, List(p, due) PROVE CapInv'
  <2>1. /\ row' = row /\ left'[p] = {a \in due : row[a].state = "active"}
        /\ copy' = [copy EXCEPT ![p] = [a \in Approvals |-> IF a \in left'[p] THEN row[a] ELSE NoRow]]
    BY <1>4 DEF List, TypeOK
  <2> QED BY <1>c, <1>t, <2>1
<1>5. ASSUME NEW p \in Flows, NEW a \in Approvals, Run(p, a) PROVE CapInv'
  BY <1>5, <1>u DEF Run
<1>6. ASSUME NEW p \in Flows, NEW a \in Approvals, Block(p, a) PROVE CapInv'
  <2> DEFINE r == [copy[p][a] EXCEPT !.state = "cap_reached"]
  <2>1. /\ Exhausted(copy[p][a]) /\ row' = [row EXCEPT ![a] = r]
        /\ copy' = [copy EXCEPT ![p][a] = NoRow]
    BY <1>6 DEF Block
  <2>2. r.cycles = copy[p][a].cycles
    BY <1>t, RowWithState
  <2>3. Exhausted(r)
    BY <2>1, <2>2 DEF Exhausted, NextOf
  <2>4. \A q \in Flows, b \in Approvals : copy'[q][b] \in {copy[q][b], NoRow}
    BY <1>t, <2>1
  <2> HIDE DEF r
  <2> QED BY <1>w, <2>1, <2>3, <2>4
<1>7. ASSUME NEW p \in Flows, Settle(p) PROVE CapInv'
  <2>1. PICK a \in running[p] : /\ row' = [row EXCEPT ![a] = Outcome(copy[p][a], result[p])]
                                /\ copy' = [copy EXCEPT ![p][a] = NoRow]
    BY <1>7 DEF Settle
  <2>2. a \in Approvals /\ copy[p][a].state \in {"none", "active"}
    BY <2>1 DEF CapInv, TypeOK
  <2>3. Outcome(copy[p][a], result[p]).state # "cap_reached"
    BY <1>t, <2>2 DEF Outcome, Rows
  <2>4. \A q \in Flows, b \in Approvals : copy'[q][b] \in {copy[q][b], NoRow}
    BY <1>t, <2>1
  <2> QED BY <1>w, <2>1, <2>2, <2>3, <2>4
<1>8. ASSUME NEW p \in Flows, Abort(p) \/ Die(p) PROVE CapInv'
  <2>1. row' = row /\ copy' = [copy EXCEPT ![p] = NoRows]
    BY <1>8 DEF Abort, Die
  <2>2. \A q \in Flows, b \in Approvals : copy'[q][b] \in {copy[q][b], NoRow}
    BY <1>t, <2>1 DEF NoRows
  <2> QED BY <1>c, <2>1, <2>2
<1>9. CASE UNCHANGED schedulerVars
  BY <1>9, <1>u DEF schedulerVars
<1> QED BY <1>1, <1>2, <1>3, <1>4, <1>5, <1>6, <1>7, <1>8, <1>9 DEF Next, PassStep, vars

\* The payer pays no cycle twice and no more than the caps, and a schedule that
\* stops for its caps has paid every cycle that they allow, whatever passes
\* overlapped, failed or died on the way.
THEOREM PaymentsWithinConsent == SafetySpec => []ConsentKept
<1>1. Init => CapInv
  BY DEF Init, CapInv, NoRows, NoRow
<1>2. OrderInv /\ CapInv /\ PaidInv => ConsentKept
  <2> SUFFICES ASSUME OrderInv, CapInv, PaidInv, NEW a \in Approvals, row[a].state = "cap_reached",
                      NEW n \in 1 .. CapCycles, n * CycleAmount <= SpendingCap
               PROVE  n \in PaidCycles(a)
    BY PaidWithinCaps DEF ConsentKept
  <2> DEFINE last == row[a].cycles
  <2>1. last \in Nat /\ CycleAmount \in Nat /\ CapCycles \in Nat /\ SpendingCap \in Nat
    BY LedgerAssumption DEF OrderInv, TypeOK, Rows
  <2>2. last + 1 > CapCycles \/ (last + 1) * CycleAmount > SpendingCap
    BY DEF CapInv, Exhausted, NextOf
  <2>3. 1 .. last \subseteq PaidCycles(a)
    BY DEF OrderInv, Backed
  <2> HIDE DEF last
  <2>4. n <= last
    <3> SUFFICES ASSUME last + 1 <= n PROVE FALSE
      BY <2>1
    <3>1. (last + 1) * CycleAmount <= n * CycleAmount
      BY <2>1, ProductMonotone
    <3>2. (last + 1) * CycleAmount \in Nat /\ n * CycleAmount \in Nat
      BY <2>1
    <3> QED BY <2>1, <2>2, <3>1, <3>2
  <2> QED BY <2>1, <2>3, <2>4
<1>3. OrderInv => TypeOK
  BY DEF OrderInv
<1> QED BY <1>1, <1>2, <1>3, OrderInit, OrderNext, CapNext, PaidInit, PaidNext, PTL DEF SafetySpec

-----------------------------------------------------------------------------
(* A revocation holds unless a pass has the approval in hand. *)

\* Whenever revoke returns, no pass has a row of the approval to put back.
RevokedBetweenPasses ==
  \A a \in stopped' \ stopped : \A p \in Flows : copy[p][a] = NoRow

\* What a pass runs or has yet to run it has in hand, either of them once.
InHand(p) ==
  /\ left[p] \cap running[p] = {}
  /\ \A a \in left[p] \cup running[p] : copy[p][a] # NoRow

StopsHold ==
  /\ \A p \in Flows : InHand(p)
  /\ \A a \in stopped : row[a].state = "revoked" /\ \A p \in Flows : copy[p][a] = NoRow

LEMMA StopsHoldNext ==
  TypeOK /\ StopsHold /\ [Next]_vars /\ [RevokedBetweenPasses]_vars
    => /\ StopsHold'
       /\ \A p \in Flows : running[p] = {} => running'[p] \cap stopped = {}
<1> SUFFICES ASSUME TypeOK, StopsHold, [Next]_vars, [RevokedBetweenPasses]_vars
             PROVE  /\ StopsHold'
                    /\ \A p \in Flows : running[p] = {} => running'[p] \cap stopped = {}
  OBVIOUS
<1> DEFINE Goal == /\ StopsHold'
                   /\ \A p \in Flows : running[p] = {} => running'[p] \cap stopped = {}
<1>t. /\ row \in [Approvals -> Rows] /\ copy \in [Flows -> [Approvals -> Rows]]
      /\ left \in [Flows -> SUBSET Approvals] /\ running \in [Flows -> SUBSET Approvals]
      /\ revoking \in [Approvals -> SUBSET Rows] /\ stopped \subseteq Approvals
  BY DEF TypeOK
<1>h. /\ \A p \in Flows : left[p] \cap running[p] = {}
      /\ \A p \in Flows : \A a \in left[p] \cup running[p] : copy[p][a] # NoRow /\ a \notin stopped
      /\ \A a \in stopped : row[a].state = "revoked" /\ \A p \in Flows : copy[p][a] = NoRow
  BY DEF StopsHold, InHand
<1>u. ASSUME UNCHANGED <<row, copy, left, running, stopped>> PROVE Goal
  BY <1>u, <1>h DEF StopsHold, InHand
\* a row that is not of a stopped approval is written, or none
<1>w. ASSUME NEW p \in Flows, UNCHANGED stopped,
             \A b \in stopped : row'[b] = row[b],
             \A q \in Flows \ {p} : copy'[q] = copy[q] /\ left'[q] = left[q] /\ running'[q] = running[q],
             left'[p] \cup running'[p] \subseteq left[p] \cup running[p],
             left'[p] \cap running'[p] = {},
             \A b \in Approvals : copy'[p][b] # copy[p][b] => copy'[p][b] = NoRow /\ b \notin left'[p] \cup running'[p]
      PROVE  Goal
  <2>1. \A q \in Flows : InHand(q)'
    <3>1. InHand(p)'
      BY <1>w, <1>t, <1>h DEF InHand
    <3>2. \A q \in Flows \ {p} : InHand(q)'
      BY <1>w, <1>h DEF InHand
    <3> QED BY <3>1, <3>2
  <2>2. \A b \in stopped : row'[b].state = "revoked" /\ \A q \in Flows : copy'[q][b] = NoRow
    BY <1>w, <1>t, <1>h
  <2>3. \A q \in Flows : running[q] = {} => running'[q] \cap stopped = {}
    BY <1>w, <1>t, <1>h
  <2> QED BY <1>w, <2>1, <2>2, <2>3 DEF StopsHold
<1>1. ASSUME NEW a \in Approvals, Approve(a) PROVE Goal
  <2>1. a \notin stopped
    BY <1>1, <1>h DEF Approve
  <2>2. \A b \in stopped : row'[b] = row[b]
    BY <1>1, <1>t, <2>1 DEF Approve
  <2> QED BY <1>1, <1>h, <2>2 DEF Approve, StopsHold, InHand
<1>2. ASSUME NEW a \in Approvals, BeginRevoke(a) PROVE Goal
  BY <1>2, <1>u DEF BeginRevoke
<1>3. ASSUME NEW a \in Approvals, FinishRevoke(a) PROVE Goal
  <2>1. PICK r \in revoking[a] : row' = [row EXCEPT ![a] = [r EXCEPT !.state = "revoked"]]
    BY <1>3 DEF FinishRevoke
  <2>2. row'[a].state = "revoked" /\ \A b \in Approvals \ {a} : row'[b] = row[b]
    BY <1>t, <2>1, RowWithState
  <2>3. UNCHANGED <<copy, left, running>> /\ stopped' = stopped \cup {a}
    BY <1>3 DEF FinishRevoke
  <2>4. \A p \in Flows : copy[p][a] = NoRow
    BY <1>h, <2>3 DEF RevokedBetweenPasses, vars, schedulerVars
  <2> QED BY <1>t, <1>h, <2>2, <2>3, <2>4 DEF StopsHold, InHand
<1>4. ASSUME NEW p \in Flows, NEW due \in SUBSET Approvals, List(p, due) PROVE Goal
  <2>1. /\ UNCHANGED <<row, running, stopped>> /\ running[p] = {}
        /\ left' = [left EXCEPT ![p] = {a \in due : row[a].state = "active"}]
        /\ copy' = [copy EXCEPT ![p] = [a \in Approvals |-> IF a \in left'[p] THEN row[a] ELSE NoRow]]
    BY <1>4 DEF List
  <2>2. \A a \in left'[p] : a \in Approvals /\ row[a].state = "active"
    BY <1>t, <2>1
  <2>3. InHand(p)'
    BY <1>t, <2>1, <2>2 DEF InHand, NoRow
  <2>4. \A a \in stopped : row'[a].state = "revoked" /\ \A q \in Flows : copy'[q][a] = NoRow
    BY <1>t, <1>h, <2>1, <2>2
  <2> QED BY <1>t, <1>h, <2>1, <2>3, <2>4 DEF StopsHold, InHand
<1>5. ASSUME NEW p \in Flows, NEW a \in Approvals, Run(p, a) PROVE Goal
  <2>1. /\ UNCHANGED <<row, copy, stopped>> /\ running[p] = {} /\ a \in left[p]
        /\ left' = [left EXCEPT ![p] = @ \ {a}] /\ running' = [running EXCEPT ![p] = {a}]
    BY <1>5 DEF Run
  <2>2. /\ left'[p] \cup running'[p] \subseteq left[p] \cup running[p] /\ left'[p] \cap running'[p] = {}
        /\ \A q \in Flows \ {p} : left'[q] = left[q] /\ running'[q] = running[q]
    BY <1>t, <2>1
  <2> QED BY <1>w, <2>1, <2>2
<1>6. ASSUME NEW p \in Flows, NEW a \in Approvals, Block(p, a) PROVE Goal
  <2>1. /\ UNCHANGED <<running, stopped>> /\ running[p] = {} /\ a \in left[p]
        /\ \A b \in Approvals \ {a} : row'[b] = row[b]
        /\ left' = [left EXCEPT ![p] = @ \ {a}] /\ copy' = [copy EXCEPT ![p][a] = NoRow]
    BY <1>6, <1>t DEF Block
  <2>2. /\ left'[p] = left[p] \ {a} /\ a \notin stopped
        /\ \A q \in Flows \ {p} : left'[q] = left[q] /\ copy'[q] = copy[q]
        /\ \A b \in Approvals : copy'[p][b] = IF b = a THEN NoRow ELSE copy[p][b]
    BY <1>t, <1>h, <2>1
  <2>3. \A b \in stopped : row'[b] = row[b]
    BY <1>t, <2>1, <2>2
  <2>4. \A b \in Approvals : copy'[p][b] # copy[p][b] => copy'[p][b] = NoRow /\ b \notin left'[p] \cup running'[p]
    BY <2>1, <2>2
  <2> QED BY <1>w, <2>1, <2>2, <2>3, <2>4
<1>7. ASSUME NEW p \in Flows, Settle(p) PROVE Goal
  <2>1. PICK a \in running[p] : /\ row' = [row EXCEPT ![a] = Outcome(copy[p][a], result[p])]
                                /\ copy' = [copy EXCEPT ![p][a] = NoRow]
    BY <1>7 DEF Settle
  <2>2. UNCHANGED <<left, stopped>> /\ running' = [running EXCEPT ![p] = {}]
    BY <1>7 DEF Settle
  <2>3. a \in Approvals /\ a \notin stopped /\ a \notin left[p]
    BY <1>t, <1>h, <2>1
  <2>4. /\ running'[p] = {} /\ \A q \in Flows \ {p} : running'[q] = running[q] /\ copy'[q] = copy[q]
        /\ \A b \in Approvals : copy'[p][b] = IF b = a THEN NoRow ELSE copy[p][b]
    BY <1>t, <2>1, <2>2, <2>3
  <2>5. \A b \in stopped : row'[b] = row[b]
    BY <1>t, <2>1, <2>3
  <2>6. \A b \in Approvals : copy'[p][b] # copy[p][b] => copy'[p][b] = NoRow /\ b \notin left'[p] \cup running'[p]
    BY <2>2, <2>3, <2>4
  <2> QED BY <1>w, <2>2, <2>4, <2>5, <2>6
<1>8. ASSUME NEW p \in Flows, Abort(p) \/ Die(p) PROVE Goal
  <2>1. /\ UNCHANGED <<row, stopped>>
        /\ left' = [left EXCEPT ![p] = {}] /\ running' = [running EXCEPT ![p] = {}]
        /\ copy' = [copy EXCEPT ![p] = NoRows]
    BY <1>8 DEF Abort, Die
  <2> QED BY <1>w, <1>t, <2>1 DEF NoRows
<1>9. CASE UNCHANGED schedulerVars
  BY <1>9, <1>u DEF schedulerVars
<1> QED BY <1>1, <1>2, <1>3, <1>4, <1>5, <1>6, <1>7, <1>8, <1>9 DEF Next, PassStep, vars

\* The race that the run revoked_cycle shows is the only way for a cycle to
\* begin after revoke returned: while every revocation returns between the
\* passes that list its approval, it holds for good, whatever passes overlap,
\* fail or die.
THEOREM RevocationBetweenPassesHolds ==
  SafetySpec /\ [][RevokedBetweenPasses]_vars => NoCycleAfterRevocation
<1>1. Init => StopsHold
  BY DEF Init, StopsHold, InHand
<1>2. TypeOK /\ StopsHold /\ [Next]_vars /\ [RevokedBetweenPasses]_vars
        => [\A p \in Flows : running[p] = {} => running'[p] \cap stopped = {}]_vars
  BY StopsHoldNext
<1> QED BY <1>1, <1>2, StopsHoldNext, SchedulerTypeCorrect, PTL DEF SafetySpec, NoCycleAfterRevocation
=============================================================================
