--------------------------- MODULE PaymentReadiness ---------------------------
(***************************************************************************)
(* What a payer is told of a payment: analyzePaymentReadiness of the SDK,  *)
(* which weighs the resolver's checks of the offer, the topology report of *)
(* the two nodes and the dry run of an invoice, and the payment flow's own *)
(* reading of the outcome.                                                 *)
(*                                                                         *)
(* A list of checks is a set of records, each with the id of a check and   *)
(* its status.  Their texts, codes and next_actions are left out.          *)
(* A topology has the status "none" when the resolver has no topology      *)
(* client, "error" when the inspection failed, or is a report of           *)
(* AnalyzeTopology.  A route check is "none", "ok" or "failed".            *)
(***************************************************************************)
EXTENDS FiberTopology

Reports(topology) == topology.status \notin {"none", "error", "unconfigured"}
UsableDirect(topology) == topology.direct_channel.usable

\* onlineSharedCounterpartyCount(topology) > 0
SharedOnline(topology) == topology.online_common # {}

\* Mutant of TopologyVerdict: whatever blocks the pair blocks the payment.
TopologyVerdictOfStatus(topology) ==
  CASE topology.status \in {"error", "unconfigured"} -> "warn"
    [] topology.status = "blocked" -> "fail"
    [] topology.status \in {"degraded", "opening"} -> "warn"
    [] OTHER -> "pass"

\* addTopologyChecks: a blocker counts only when no route candidate is left
TopologyVerdict(topology) ==
  CASE topology.status \in {"error", "unconfigured"} -> "warn"
    [] topology.status = "blocked" /\ ~UsableDirect(topology) /\ ~SharedOnline(topology) -> "fail"
    [] topology.status \in {"degraded", "opening"} -> "warn"
    [] OTHER -> "pass"

\* addRouteCandidateCheck
RouteCandidateVerdict(topology) ==
  IF UsableDirect(topology) THEN "pass" ELSE IF SharedOnline(topology) THEN "warn" ELSE "fail"

\* addAmountLiquidityCheck: a usable direct channel is compared with the
\* amount, a shared counterparty cannot be
AmountLiquidityVerdict(topology, amount) ==
  IF UsableDirect(topology)
  THEN {IF topology.direct_channel.payer_local >= amount THEN "pass" ELSE "fail"}
  ELSE IF SharedOnline(topology) THEN {"warn"} ELSE {}

\* addAssetLiquidityCheck
AssetLiquidityVerdict(topology, asset) ==
  IF topology.payer.channels[asset] > 0 /\ topology.merchant.channels[asset] > 0
  THEN "pass" ELSE "warn"

\* addPendingTlcCheck
PendingTlcVerdict(topology) ==
  IF topology.payer.channels.pending_tlc_count = 0
     /\ topology.merchant.channels.pending_tlc_count = 0
  THEN {} ELSE {"warn"}

\* a check that is there only when there is a verdict
Checked(id, verdicts) == {[id |-> id, status |-> v] : v \in verdicts}

TopologyChecks(topology, amount, asset) ==
  IF topology.status = "none" THEN {}
  ELSE Checked("topology", {TopologyVerdict(topology)})
       \cup (IF ~Reports(topology) THEN {}
             ELSE Checked("direct_channel", {RouteCandidateVerdict(topology)})
                  \cup Checked("amount_liquidity", AmountLiquidityVerdict(topology, amount))
                  \cup Checked("asset_liquidity", {AssetLiquidityVerdict(topology, asset)})
                  \cup Checked("pending_tlcs", PendingTlcVerdict(topology)))

\* addRouteDryRunCheck
RouteDryRunCheck(route, invoice) ==
  Checked("route_dry_run", CASE route = "ok" -> {"pass"}
                             [] route = "failed" -> {"fail"}
                             [] OTHER -> IF invoice THEN {"warn"} ELSE {})

Confidence(ready, topology, route) ==
  CASE ~ready -> "low"
    [] ready /\ route = "ok" -> "high"
    [] OTHER -> IF topology.status = "none" THEN "medium"
                ELSE IF Reports(topology) /\ (UsableDirect(topology) \/ SharedOnline(topology))
                THEN "medium" ELSE "low"

\* paymentPayable; "unknown" stands for undefined, which is falsy
Payable(ready, topology, route) ==
  CASE ~ready -> "no"
    [] ready /\ route # "none" -> IF route = "ok" THEN "yes" ELSE "no"
    [] OTHER -> IF topology.status = "none" THEN "unknown"
                ELSE IF Confidence(ready, topology, route) # "low" THEN "yes" ELSE "no"

NextAction(ready, route, invoice) ==
  CASE ~ready -> "fix_request"
    [] ready /\ route = "ok" -> "send_payment"
    [] OTHER -> IF invoice THEN "run_route_dry_run" ELSE "request_invoice"

\* invoice: the request carries one; route: the dry run made for it
AnalyzePaymentReadiness(offerChecks, topology, amount, asset, route, invoice) ==
  LET checks == offerChecks \cup TopologyChecks(topology, amount, asset)
                            \cup RouteDryRunCheck(route, invoice)
      ready  == \A c \in checks : c.status # "fail"
  IN [ready |-> ready,
      payable |-> Payable(ready, topology, route),
      confidence |-> Confidence(ready, topology, route),
      next_action |-> NextAction(ready, route, invoice),
      checks |-> checks,
      route |-> route]

-----------------------------------------------------------------------------
(* The payment flow's second opinion. *)

\* routeCheckForInvoice asks the payer's own node
AsksOwnNode(readiness, client, forceLocalDryRun) ==
  client /\ (readiness.route = "none" \/ forceLocalDryRun)

\* Mutant of MergeRouteCheck: what the resolver concluded stands.
MergeKeepsReadiness(readiness, own) ==
  [readiness EXCEPT !.payable = IF readiness.ready THEN "yes" ELSE "no", !.route = own]

\* mergeRouteCheck, with a route check that the resolver did not make
MergeRouteCheck(readiness, own) ==
  LET ready == readiness.ready /\ own = "ok"
  IN [readiness EXCEPT
        !.ready = ready,
        !.payable = IF ready THEN "yes" ELSE "no",
        !.confidence = IF ready THEN "high" ELSE "low",
        !.checks = {c \in @ : c.id # "route_dry_run"}
                   \cup Checked("route_dry_run", {IF own = "ok" THEN "pass" ELSE "fail"}),
        !.route = own,
        !.next_action = IF ready THEN "send_payment" ELSE "fix_request"]

ReadyToSend(readiness) == readiness.ready /\ readiness.payable = "yes"
=============================================================================
