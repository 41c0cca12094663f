---------------------------- MODULE PaymentSession ----------------------------
(***************************************************************************)
(* payOffer against a merchant who may have a topology client: the same    *)
(* steps as in PaymentFlow, here with the evidence they go by.  The nodes  *)
(* of the payer and the merchant share a direct channel and a hub; the     *)
(* resolver inspects both and tries routes on the payer's node (a          *)
(* "controlled pair"), or knows nothing of the payer.                      *)
(*                                                                         *)
(* A flow decides on reports: the offer's records were counted and the     *)
(* channels listed before the dry run, the dry run was made before the     *)
(* payment, and meanwhile other flows spend the same balances, links drop  *)
(* and come back, invoices expire and the merchant revokes.                *)
(*                                                                         *)
(* The caller's options are those of payOffer: whether it executes, skips  *)
(* the first check or goes on when it says no, insists on a dry run of its *)
(* own, and whether it has a payment client at all.                        *)
(***************************************************************************)
EXTENDS InvoiceLedger, PaymentReadiness

CONSTANTS
  Flows,      \* callers of payOffer, each makes one payment
  Options,    \* flow -> the options its caller may give
  Units,      \* the balances a channel may have
  Worlds,     \* the balances and links to start with
  Amount,     \* what each payment is about
  MaxFaults   \* bound on lost links, failed requests and lost replies

Option == [execute : BOOLEAN, skip : BOOLEAN, require : BOOLEAN, forceLocal : BOOLEAN,
           client : BOOLEAN, key : Keys \cup {NoKey}]

\* direct and hub: what the payer can send there; beyond: what the hub can
\* send on; up: links whose ends are connected; stalled: one end of the pair
\* still lists an opening the other has given up
World == [direct : Units, hub : Units, beyond : Units,
          up : SUBSET {"direct", "payer_hub", "merchant_hub"}, stalled : BOOLEAN]

\* a balance may go down to nothing
ASSUME SessionAssumption ==
  /\ Amount \in Amounts \ {0} /\ Unset \in AskedCycles
  /\ Units \subseteq Nat /\ \A u \in Units : 0 .. u \subseteq Units
  /\ Worlds \subseteq World
  /\ \A f \in Flows : Options[f] \subseteq Option
  /\ MaxFaults \in Nat

VARIABLES
  world,    \* balances and links of the payer's and the merchant's node
  paired,   \* the resolver has a topology client
  at,       \* flow -> where its payment stands
  opts,     \* flow -> its options
  inv,      \* flow -> the record whose invoice it is to pay
  seen,     \* flow -> what the resolver saw of the topology
  offerOk,  \* flow -> the resolver's checks of the offer passed
  route,    \* flow -> the route check it goes by
  result,   \* flow -> what payOffer returned or, if thrown, that it rejected
  paid,     \* invoices the payer's node has paid
  tried,    \* invoices for which a dry run succeeded
  faults

sessionVars == <<at, opts, inv, seen, offerOk, route, result>>
vars == <<ledgerVars, world, paired, sessionVars, paid, tried, faults>>

\* no topology client; an inspection that failed; an inspection
Blind == [status |-> "none"]
Broken == [status |-> "error"]
Report(w) == [status |-> "report", of |-> w]

Result == {"none", "blocked_before_invoice", "blocked_after_invoice", "ready_to_send",
           "payment_client_required", "payment_sent", "payment_failed", "thrown"}

TypeOK ==
  /\ LedgerTypeOK
  /\ world \in World
  /\ paired \in BOOLEAN
  /\ at \in [Flows -> {"idle", "checking", "requesting", "minting", "rechecking",
                       "trying", "trying_own", "sending", "done"}]
  /\ opts \in [Flows -> Option]
  /\ inv \in [Flows -> Attempts]
  /\ seen \in [Flows -> {Blind, Broken} \cup [status : {"report"}, of : World]]
  /\ offerOk \in [Flows -> BOOLEAN]
  /\ route \in [Flows -> {"none", "ok", "failed"}]
  /\ result \in [Flows -> Result]
  /\ paid \subseteq Attempts /\ tried \subseteq Attempts
  /\ faults \in 0 .. MaxFaults

Init ==
  /\ LedgerInit
  /\ world \in Worlds
  /\ paired \in BOOLEAN
  /\ at = [f \in Flows |-> "idle"]
  /\ opts \in {o \in [Flows -> UNION {Options[f] : f \in Flows}] : \A f \in Flows : o[f] \in Options[f]}
  /\ inv = [f \in Flows |-> CHOOSE a \in Attempts : TRUE]
  /\ seen = [f \in Flows |-> Blind]
  /\ offerOk = [f \in Flows |-> FALSE]
  /\ route = [f \in Flows |-> "none"]
  /\ result = [f \in Flows |-> "none"]
  /\ paid = {} /\ tried = {}
  /\ faults = 0

-----------------------------------------------------------------------------
(* The nodes. *)

Ready(peer, local, remote) ==
  [peer |-> peer, state |-> "ChannelReady", failed |-> FALSE, enabled |-> TRUE, udt |-> FALSE,
   local |-> local, remote |-> remote, tlcs |-> 0]

StalledOpening == [Ready("merchant", 0, 0) EXCEPT !.state = "NegotiatingFunding"]

Peers(peer, hubLink, w) ==
  {n \in {peer, "hub"} : (IF n = "hub" THEN hubLink ELSE "direct") \in w.up}

\* inspectPair (each lists the direct channel and then its own with the hub)
PayerInspected(w) ==
  Inspected("payer", Peers("merchant", "payer_hub", w),
            <<Ready("merchant", w.direct, 0), Ready("hub", w.hub, 0)>>,
            IF w.stalled THEN <<StalledOpening>> ELSE << >>)
MerchantInspected(w) ==
  Inspected("merchant", Peers("payer", "merchant_hub", w),
            <<Ready("payer", 0, w.direct), Ready("hub", 0, w.beyond)>>, << >>)

\* the topology the resolver goes by (one)
Topologies(s) ==
  IF s.status # "report" THEN {s}
  ELSE {AnalyzeTopology(p, m, {"payer", "merchant"}) :
          p \in {PayerInspected(s.of)}, m \in {MerchantInspected(s.of)}}

\* the routes by which a payment arrives now
Routes(w) ==
  (IF "direct" \in w.up /\ w.direct >= Amount THEN {"direct"} ELSE {})
  \cup (IF {"payer_hub", "merchant_hub"} \subseteq w.up /\ w.hub >= Amount /\ w.beyond >= Amount
        THEN {"hub"} ELSE {})

\* the payer's node pays an invoice once, and none that was cancelled or expired
Acceptable(a) == a \notin paid /\ status[a] \in {"invoice_created", "invoice_received"}

DryRun(a) == IF Acceptable(a) /\ Routes(world) # {} THEN "ok" ELSE "failed"
Tries(a) == tried' = IF DryRun(a) = "ok" THEN tried \cup {a} ELSE tried

-----------------------------------------------------------------------------
(* The flow. *)

Request0 == [amount |-> Amount, cycle |-> Unset]

Go(f, from, to) ==
  /\ at[f] = from
  /\ at' = [at EXCEPT ![f] = to]
  /\ UNCHANGED <<opts, result>>

Return(f, r) ==
  /\ at' = [at EXCEPT ![f] = "done"]
  /\ result' = [result EXCEPT ![f] = r]
  /\ seen' = [seen EXCEPT ![f] = Blind]
  /\ route' = [route EXCEPT ![f] = "none"]
  /\ offerOk' = [offerOk EXCEPT ![f] = FALSE]
  /\ UNCHANGED <<opts, inv>>

Unfaulted == UNCHANGED <<world, paired, faults>>

\* a request is lost on its way or its reply is
Rejects(f, from) ==
  /\ at[f] = from /\ faults < MaxFaults
  /\ faults' = faults + 1
  /\ Return(f, "thrown")
  /\ UNCHANGED <<world, paired, paid, tried>>

\* the offer_state and single_use checks of checkOfferReadiness
OfferPasses == ~revoked /\ (SingleUse => Stored(status) = {})
OfferChecks(passes) == Checked("offer", {IF passes THEN "pass" ELSE "fail"})

\* what the resolver answers (one)
Readiness(passes, s, tryout, invoice) ==
  {AnalyzePaymentReadiness(OfferChecks(passes), topology, Amount, "ckb", tryout, invoice) :
     topology \in Topologies(s)}

\* createReadinessTopologyReport without an invoice; the inspection may fail
Sees(t) ==
  \/ t = (IF paired THEN Report(world) ELSE Blind) /\ Unfaulted
  \/ /\ paired /\ t = Broken
     /\ faults < MaxFaults /\ faults' = faults + 1
     /\ UNCHANGED <<world, paired>>

\* preparePayment up to the first answer of the resolver
PayOffer(f) ==
  /\ Go(f, "idle", IF opts[f].skip THEN "requesting" ELSE "checking")
  /\ UNCHANGED <<ledgerVars, inv, seen, offerOk, route, paid, tried>>
  /\ Unfaulted

CheckPayment(f) ==
  /\ UNCHANGED <<ledgerVars, paid, tried>>
  /\ \/ /\ at[f] = "checking"
        /\ \E t \in {Blind, Broken, Report(world)} :
             /\ Sees(t)
             /\ \E readiness \in Readiness(OfferPasses, t, "none", FALSE) :
                  IF readiness.ready \/ ~opts[f].require
                  THEN Go(f, "checking", "requesting") /\ UNCHANGED <<inv, seen, offerOk, route>>
                  ELSE Return(f, "blocked_before_invoice")
     \/ Rejects(f, "checking")

Fresh == {a \in Attempts : status[a] = "unused"}

\* requestInvoice reaches reserveInvoiceAttempt
RequestInvoice(f) ==
  LET k == opts[f].key
      a == CHOOSE b \in Fresh : TRUE
  IN \/ /\ UNCHANGED <<seen, offerOk, route, paid, tried>>
        /\ Unfaulted
        /\ \/ /\ Fresh # {} /\ Reserve(a, k, Request0)
              /\ Go(f, "requesting", "minting")
              /\ inv' = [inv EXCEPT ![f] = a]
           \/ \E b \in Attempts :
                /\ Replay(k, Request0, b)
                /\ Go(f, "requesting", "rechecking")
                /\ inv' = [inv EXCEPT ![f] = b]
     \/ /\ at[f] = "requesting"
        /\ Fresh # {} /\ Refuse(a, k, Request0)
        /\ Return(f, "thrown")
        /\ UNCHANGED <<paid, tried>> /\ Unfaulted
     \/ UNCHANGED ledgerVars /\ Rejects(f, "requesting")

\* the handler ends: with the invoice, or, if its reply is lost or the node
\* gave none, in any way
ReceiveInvoice(f) ==
  LET a == inv[f]
  IN \/ /\ Finalize(a) /\ Go(f, "minting", "rechecking")
        /\ UNCHANGED <<inv, seen, offerOk, route, paid, tried>> /\ Unfaulted
     \/ (Finalize(a) \/ Abandon(a)) /\ Rejects(f, "minting")

\* checkPayment with the invoice: the resolver counts the records and lists
\* the channels
Recheck(f) ==
  /\ UNCHANGED <<ledgerVars, paid, tried>>
  /\ \/ /\ Go(f, "rechecking", "trying")
        /\ offerOk' = [offerOk EXCEPT ![f] = OfferPasses]
        /\ \E t \in {Blind, Broken, Report(world)} :
             Sees(t) /\ seen' = [seen EXCEPT ![f] = t]
        /\ UNCHANGED <<inv, route>>
     \/ Rejects(f, "rechecking")

\* checkInvoiceRoute goes on to the dry run, if there was an inspection
TryRoute(f) ==
  LET asks == seen[f].status = "report"
  IN /\ Go(f, "trying", "trying_own")
     /\ route' = [route EXCEPT ![f] = IF asks THEN DryRun(inv[f]) ELSE "none"]
     /\ IF asks THEN Tries(inv[f]) ELSE UNCHANGED tried
     /\ UNCHANGED <<ledgerVars, inv, seen, offerOk, paid>>
     /\ Unfaulted

\* what payOffer does once it knows the readiness
Concludes(f, readiness) ==
  \/ /\ ReadyToSend(readiness) /\ opts[f].execute /\ opts[f].client
     /\ Go(f, "trying_own", "sending")
     /\ UNCHANGED <<inv, seen, offerOk, route>>
  \/ /\ ReadyToSend(readiness) /\ ~opts[f].execute
     /\ Return(f, "ready_to_send")
  \/ /\ ReadyToSend(readiness) /\ opts[f].execute /\ ~opts[f].client
     /\ Return(f, "payment_client_required")
  \/ /\ ~ReadyToSend(readiness)
     /\ Return(f, "blocked_after_invoice")

\* the rest of preparePayment and payOffer up to the payment
Decide(f) ==
  /\ at[f] = "trying_own"
  /\ \E before \in Readiness(offerOk[f], seen[f], route[f], TRUE) :
       IF AsksOwnNode(before, opts[f].client, opts[f].forceLocal)
       THEN /\ Tries(inv[f])
            /\ \E merged \in {MergeRouteCheck(before, DryRun(inv[f]))} : Concludes(f, merged)
       ELSE UNCHANGED tried /\ Concludes(f, before)
  /\ UNCHANGED <<ledgerVars, paid>>
  /\ Unfaulted

\* The call of a dry run itself fails, the resolver's or the payer's own: it
\* counts as a route that was not found.
DryRunFails(f) ==
  /\ faults < MaxFaults /\ faults' = faults + 1
  /\ \/ /\ seen[f].status = "report"
        /\ Go(f, "trying", "trying_own")
        /\ route' = [route EXCEPT ![f] = "failed"]
        /\ UNCHANGED <<inv, seen, offerOk>>
     \/ /\ at[f] = "trying_own"
        /\ \E before \in Readiness(offerOk[f], seen[f], route[f], TRUE) :
             /\ AsksOwnNode(before, opts[f].client, opts[f].forceLocal)
             /\ \E merged \in {MergeRouteCheck(before, "failed")} : Concludes(f, merged)
  /\ UNCHANGED <<ledgerVars, world, paired, paid, tried>>

\* a route carries the amount
Spend(w, r) ==
  IF r = "direct" THEN [w EXCEPT !.direct = @ - Amount]
  ELSE [w EXCEPT !.hub = @ - Amount, !.beyond = @ - Amount]

SendPayment(f) ==
  LET a == inv[f]
      pays == Acceptable(a) /\ Routes(world) # {}
  IN /\ at[f] = "sending"
     /\ UNCHANGED <<ledgerVars, paired, tried>>
     /\ \/ /\ pays /\ paid' = paid \cup {a}
           /\ \E r \in Routes(world) : world' = Spend(world, r)
           /\ \/ Return(f, "payment_sent") /\ UNCHANGED faults
              \/ faults < MaxFaults /\ faults' = faults + 1 /\ Return(f, "payment_failed")
        \/ /\ ~pays \/ faults < MaxFaults
           /\ faults' = (IF pays THEN faults + 1 ELSE faults)
           /\ Return(f, "payment_failed")
           /\ UNCHANGED <<paid, world>>

-----------------------------------------------------------------------------
(* Everybody else. *)

\* a link drops or comes back, an opening stalls, a balance is moved away
WorldChanges ==
  /\ faults < MaxFaults /\ faults' = faults + 1
  /\ \/ \E l \in {"direct", "payer_hub", "merchant_hub"} :
          world' = [world EXCEPT !.up = IF l \in @ THEN @ \ {l} ELSE @ \cup {l}]
     \/ ~world.stalled /\ world' = [world EXCEPT !.stalled = TRUE]
     \/ world.direct - 1 \in Units /\ world' = [world EXCEPT !.direct = @ - 1]
  /\ UNCHANGED <<ledgerVars, paired, sessionVars, paid, tried>>

\* the resolver learns of a payment; an invoice that nobody paid expires
Settle(a) ==
  /\ status[a] = "invoice_created"
  /\ UpdateStatus(a, IF a \in paid THEN "invoice_paid" ELSE "invoice_expired")
  /\ faults' = faults + (IF a \in paid THEN 0 ELSE 1)
  /\ faults' <= MaxFaults
  /\ UNCHANGED <<world, paired, sessionVars, paid, tried>>

Revoked ==
  /\ faults < MaxFaults /\ faults' = faults + 1
  /\ Revoke
  /\ UNCHANGED <<world, paired, sessionVars, paid, tried>>

-----------------------------------------------------------------------------
FlowStep(f) ==
  \/ PayOffer(f) \/ CheckPayment(f) \/ RequestInvoice(f) \/ ReceiveInvoice(f)
  \/ Recheck(f) \/ TryRoute(f) \/ Decide(f) \/ DryRunFails(f) \/ SendPayment(f)

Next ==
  \/ \E f \in Flows : FlowStep(f)
  \/ \E a \in Attempts : Settle(a)
  \/ WorldChanges \/ Revoked

\* A payOffer under way goes on: every call it waits for returns or rejects.
SafetySpec == Init /\ [][Next]_vars
Spec == SafetySpec /\ \A f \in Flows : WF_vars(FlowStep(f))

-----------------------------------------------------------------------------
(* Safety. *)

\* Money leaves only for an invoice whose route a dry run has found, whatever
\* options the caller gave, whether or not the resolver sees the payer's
\* channels, and whichever of the checks failed to answer.
DryRunBeforeFunds == paid \subseteq tried

-----------------------------------------------------------------------------
(* Liveness. *)

\* a route that the reports show: the direct channel, when it is usable, has
\* to carry the amount itself
RouteStands ==
  LET r == Routes(world)
  IN "direct" \in r \/ ("hub" \in r /\ ~("direct" \in world.up /\ world.direct > 0))

OwnKey(f) == opts[f].key # NoKey => \A g \in Flows \ {f} : opts[g].key # opts[f].key

\* With a route that stands all the time and nobody in the way, a payment
\* that is to be executed, under a key of its own, is sent.  Stalled openings,
\* offline neighbours and channels without liquidity elsewhere make the report
\* "blocked" or "degraded" and must not stop it.
SendsWhenItCan ==
  \A f \in Flows :
    [](RouteStands /\ faults = 0) =>
      (at[f] # "idle" /\ opts[f].execute /\ opts[f].client /\ OwnKey(f))
        ~> (result[f] = "payment_sent")
=============================================================================
