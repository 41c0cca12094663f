----------------------------- MODULE PaymentFlow -----------------------------
(***************************************************************************)
(* The payer's side of one offer: payOffer of the SDK's payment flow, its  *)
(* requests to the merchant's resolver and to the payer's Fiber node.      *)
(*                                                                         *)
(* A flow asks the resolver whether the payment is ready, requests an      *)
(* invoice, asks again with the invoice, tries the route and sends the     *)
(* payment.  The readiness checks and the invoice path read the same       *)
(* ledger at different moments and by different rules: readiness counts    *)
(* every stored record, the invoice path neither those that failed nor the *)
(* reservations that expired, and it knows repeated requests by their key. *)
(* InvoiceIssuance has the resolver's steps between request and reply; here*)
(* they are a reservation and the end of its handler.                      *)
(***************************************************************************)
EXTENDS InvoiceLedger

CONSTANTS
  Flows,       \* callers of payOffer, each with one payment at a time
  MaxFaults    \* bound on failed requests, routes and payments, and deaths

ASSUME FlowAssumption == MaxFaults \in Nat

VARIABLES
  at,       \* flow -> where its payment stands
  ask,      \* flow -> the idempotency key and the request
  inv,      \* flow -> the record whose invoice it is to pay
  result,   \* flow -> what payOffer returned or, if thrown, that it rejected
  paid,     \* invoices the payer's node has paid
  faults

flowVars == <<at, ask, inv, result, paid, faults>>

Results == {"none", "payment_sent", "payment_failed", "blocked", "thrown"}

NoAsk == [key |-> NoKey, request |-> NoTerms.request]
NoInvoice == CHOOSE a \in Attempts : TRUE

FlowTypeOK ==
  /\ LedgerTypeOK
  /\ at \in [Flows -> {"idle", "checking", "requesting", "minting", "rechecking", "sending", "done"}]
  /\ ask \in [Flows -> [key : Keys \cup {NoKey}, request : Request]]
  /\ inv \in [Flows -> Attempts]
  /\ result \in [Flows -> Results]
  /\ paid \subseteq Attempts
  /\ faults \in 0 .. MaxFaults

FlowInit ==
  /\ LedgerInit
  /\ at = [f \in Flows |-> "idle"]
  /\ ask = [f \in Flows |-> NoAsk]
  /\ inv = [f \in Flows |-> NoInvoice]
  /\ result = [f \in Flows |-> "none"]
  /\ paid = {}
  /\ faults = 0

-----------------------------------------------------------------------------
Continue(f, from, to) ==
  /\ at[f] = from
  /\ at' = [at EXCEPT ![f] = to]
  /\ UNCHANGED <<ask, result, faults>>

Return(f, from, r) ==
  /\ at[f] = from
  /\ at' = [at EXCEPT ![f] = "done"]
  /\ result' = [result EXCEPT ![f] = r]
  /\ UNCHANGED <<ask, inv>>

\* a request, a route or a payment fails
Fault(f, from, r) ==
  /\ faults < MaxFaults
  /\ faults' = faults + 1
  /\ Return(f, from, r)

PayOffer(f, k, q) ==
  /\ at[f] = "idle"
  /\ at' = [at EXCEPT ![f] = "checking"]
  /\ ask' = [ask EXCEPT ![f] = [key |-> k, request |-> q]]
  /\ UNCHANGED <<ledgerVars, inv, result, paid, faults>>

\* the caller takes the result
Forget(f) ==
  /\ at' = [at EXCEPT ![f] = "idle"]
  /\ ask' = [ask EXCEPT ![f] = NoAsk]
  /\ inv' = [inv EXCEPT ![f] = NoInvoice]
  /\ result' = [result EXCEPT ![f] = "none"]

\* validateRecurrenceCycle over every stored record, as checkOfferReadiness
\* calls it
CycleReady(q) ==
  LET next == Cardinality({a \in Stored(status) : terms[a].cycle # 0}) + 1
  IN /\ q.amount = CycleAmount
     /\ q.cycle \in {Unset, next}
     /\ next <= CapCycles
     /\ next * CycleAmount <= SpendingCap

\* the offer_state and single_use checks of checkOfferReadiness
OfferReady == ~revoked /\ (SingleUse => Stored(status) = {})

\* the first checkPayment; it rejects, or the topology blocks it
CheckPayment(f) ==
  LET ready == OfferReady /\ (Recurring => CycleReady(ask[f].request))
  IN /\ UNCHANGED <<ledgerVars, paid>>
     /\ \/ ready /\ Continue(f, "checking", "requesting") /\ UNCHANGED inv
        \/ ~ready /\ Return(f, "checking", "blocked") /\ UNCHANGED faults
        \/ \E r \in {"blocked", "thrown"} : Fault(f, "checking", r)

Fresh == {a \in Attempts : status[a] = "unused"}

\* requestInvoice reaches reserveInvoiceAttempt, which draws a fresh id;
\* which one makes no difference
RequestInvoice(f) ==
  LET k == ask[f].key
      q == ask[f].request
      a == CHOOSE b \in Fresh : TRUE
  IN /\ UNCHANGED paid
     /\ \/ /\ Fresh # {} /\ Reserve(a, k, q)
           /\ Continue(f, "requesting", "minting")
           /\ inv' = [inv EXCEPT ![f] = a]
        \/ \E b \in Attempts :
             /\ Replay(k, q, b)
             /\ Continue(f, "requesting", "rechecking")
             /\ inv' = [inv EXCEPT ![f] = b]
        \/ /\ Fresh # {} /\ Refuse(a, k, q)
           /\ Return(f, "requesting", "thrown") /\ UNCHANGED faults
        \/ UNCHANGED ledgerVars /\ Fault(f, "requesting", "thrown")

\* The handler of the request ends: the invoice reaches the payer, or the
\* reservation was purged meanwhile (409), or the node gave no invoice (503).
\* If the reply is lost, or the resolver dies, any of them may have happened.
ReceiveInvoice(f) ==
  LET a == inv[f]
  IN /\ UNCHANGED paid
     /\ \/ Finalize(a) /\ Continue(f, "minting", "rechecking") /\ UNCHANGED inv
        \/ /\ status[a] # "invoice_pending" /\ UNCHANGED ledgerVars
           /\ Return(f, "minting", "thrown") /\ UNCHANGED faults
        \/ (Finalize(a) \/ Abandon(a) \/ UNCHANGED ledgerVars) /\ Fault(f, "minting", "thrown")

\* the checkPayment with the invoice, and the dry run of the route
CheckInvoice(f) ==
  /\ UNCHANGED <<ledgerVars, paid>>
  /\ \/ OfferReady /\ Continue(f, "rechecking", "sending") /\ UNCHANGED inv
     \/ ~OfferReady /\ Return(f, "rechecking", "blocked") /\ UNCHANGED faults
     \/ \E r \in {"blocked", "thrown"} : Fault(f, "rechecking", r)

\* The payer's node pays an invoice once.  A payment whose reply is lost is
\* a failure to the flow.
SendPayment(f) ==
  LET a == inv[f]
  IN /\ UNCHANGED ledgerVars
     /\ \/ /\ a \notin paid /\ paid' = paid \cup {a}
           /\ Return(f, "sending", "payment_sent") /\ UNCHANGED faults
        \/ /\ a \in paid /\ UNCHANGED paid
           /\ Return(f, "sending", "payment_failed") /\ UNCHANGED faults
        \/ paid' \in {paid, paid \cup {a}} /\ Fault(f, "sending", "payment_failed")

\* A reservation expires; that its handler is still at work counts as a fault.
Expire(a) ==
  /\ Lapse(a)
  /\ faults' = faults + (IF \E f \in Flows : at[f] = "minting" /\ inv[f] = a THEN 1 ELSE 0)
  /\ faults' <= MaxFaults
  /\ UNCHANGED <<at, ask, inv, result, paid>>

FlowStep(f) ==
  CheckPayment(f) \/ RequestInvoice(f) \/ ReceiveInvoice(f) \/ CheckInvoice(f) \/ SendPayment(f)
=============================================================================
