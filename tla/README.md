# Fiber Offers: verification project

TLA+ models of the Fiber Offers resolver, wallet SDK and operator's page, the
TLC runs that check them on small instances, and TLAPS proofs of the properties
that matter most. Source paths are relative to the repository root.

## 1. The system

A merchant signs an *offer* (amount limits, asset, single use or not, recurring
terms) and registers it with a *resolver*. A payer's wallet asks the resolver
for a fresh invoice, the resolver has the merchant's Fiber node mint it, keeps a
*resolution* record, follows the invoice on the node, and tells the merchant's
*webhooks*. A wallet pays through the SDK, which asks first whether the payment
can succeed, and may schedule recurring payments on its own side. Operators
work on a page that polls the resolver.

| Component | Source | State it keeps | Operations | What makes it correct |
| --- | --- | --- | --- | --- |
| Invoice issuance | `apps/resolver/src/server.js` 640-793 | the per-process chain of promises for each offer; handler progress | `POST /offers/:id/invoice` | one resolution per single-use offer and per key, each answer backed by an invoice, caps kept, lock always released |
| Resolution ledger | `store.js`, `postgres-store.js`, `migrations/001_initial.sql` | offer row, resolution records, reservations with an expiry | reserve, finalise, abandon, update status, revoke | atomic checks that hold across replicas |
| Settlement | `server.js` 795-935, 1608-1633; `invoice-adapter.js` | none of its own: reads and writes records | post a status, sync one or all | terminal statuses stay, the node's word wins in the end, each change is announced |
| Background workers, queue | `server.js` 1507-1698, `queue-worker.js` | a running flag per task | settlement and webhook passes | every open record is visited again and again, though passes fail and processes die |
| Webhook outbox | `server.js` 1093-1217, `webhook-delivery.js` | events with one delivery per webhook | append, drain, retry, register, edit, delete | every event reaches every subscriber at least once, bounded attempts |
| Recurring scheduler | `packages/sdk/src/recurrence.js` | approvals in the wallet's storage | approve, revoke, runDue | a cycle is paid once, revocation stops payments, a failed cycle is retried |
| Payment flow | `packages/sdk/src/payment-flow.js`, `payment-readiness.js`, `fiber-payment.js` | none | check, request, dry run, send | no money without a dry run of that invoice; what can be paid is paid |
| Topology, channel fixture | `fiber-topology.js`, `fiber-diagnostics.js`, `scripts/fiber-direct-channel-fixture.js` | none; the channels of two nodes | inspect, plan, connect, open, accept | no second channel beside one that stands or opens; in the end one that can be paid through |
| Operator's page | `apps/demo/public/app.js` | the selected offer, what is shown, the buttons, the login dialog | some fifteen buttons, a two-second poll | acts on what it showed; shows what is; its buttons come back |
| Offer registry | `store.js`, `postgres-store.js`, `server.js` | offers, user names | register, bind, revoke | a name has one offer, a revoked offer stays revoked |
| Local persistence | `store.js` 452-495 | the JSON file, a chain of writes | load, save | the file holds the last acknowledged state |
| Rate limiters | `server.js` 1704-1725, `redis-rate-limiter.js` | buckets | count a request | at most the limit per window |
| Operator session, API key | `server.js` 1800-1862 | none (signed token) | log in, authenticate | - |
| Protocol | `packages/protocol/src/index.js` | none | sign, verify, validate | only well formed offers are accepted |
| CLI, wallet components, deployment | the rest | none or the view's | views, scripts | - |

Interactions: handlers call the store; the store is either one process's memory
written to a JSON file or PostgreSQL shared by replicas. Handlers and background
passes call the Fiber node over JSON-RPC; only fetch's own timeout ends such a
call. Wallets and the page call the resolver over HTTP; wallets also call an
adapter that pays.

Hard behaviours: replicas meet only in the store; a reservation expires after
two minutes while an RPC may take longer; replies of the node are lost; a
process dies between two store calls; status writers read, wait and write;
events are appended after the change they announce; a payment is decided on
reports that other payers outdate; a topology is read list by list while
channels open; a page's answers arrive under another selection.

A reader who wants the code behind a definition finds its file and lines in the
`map` of `PROJECT.json`; `hazards` there lists, line by line, what is hard to
test, with the properties that watch it.

## 2. Modules

```
InvoiceLedger ---+--- InvoiceIssuance ---refines---> InvoiceBook
                 +--- SettlementSync --- BackgroundWorkers
                 +--- PaymentFlow --- RecurringScheduler
                 +--- PaymentSession
                          |
FiberTopology ---+--- PaymentReadiness
                 +--- ChannelFixture
WebhookOutbox
OfferRegistry
Workspace
```

| Module | Models | Shape |
| --- | --- | --- |
| `InvoiceLedger` | the store's records of one offer and its atomic operations | operators and actions that the modules above extend; `Transactional` picks PostgreSQL or the local store |
| `InvoiceBook` | what an offer promises about its invoices | abstract specification |
| `InvoiceIssuance` | `resolveInvoice` in several processes | one action per await of the handler, over the ledger |
| `SettlementSync` | posted statuses and synchronisations | writers that read, ask the node, write, append an event |
| `BackgroundWorkers` | the settlement passes of resolver processes and queue workers | passes that list records and drive writers of `SettlementSync` |
| `WebhookOutbox` | endpoints, events, drains | drains that list, send and record; edits that read and write |
| `PaymentFlow` | `payOffer` of the SDK as the scheduler calls it, against the ledger | one action per request the wallet makes |
| `RecurringScheduler` | approvals and passes | passes that list, pay through `PaymentFlow` and put back |
| `FiberTopology` | diagnostics, topology report and channel plan | pure operators over the lists of two nodes |
| `PaymentReadiness` | `analyzePaymentReadiness` and the flow's merging of two reports | pure operators over reports |
| `PaymentSession` | `payOffer` with its options against changing channels | flows that check, request, try and send, by the operators above |
| `ChannelFixture` | the direct-channel script and two nodes | scripts that hear six lists, plan and execute; external node steps |
| `OfferRegistry` | offers, user names and revocations over either store, with the JSON file behind the local one | one action per await of a request, and the writes of the file |
| `Workspace` | the operator's page and the resolver it talks to | handlers and a poll that share one page |
| `MC*` | small instances | symmetry sets and composed constants |
| `*Proofs` | theorems | section 5 |

How state and actions correspond to the code:

- **InvoiceLedger.** `status` and `terms` are the resolution records, indexed by
  the attempt that reserved them (the code draws a fresh id for each attempt);
  `unused` and `removed` stand for "no record". `lapsed` holds the pending
  records whose `reservation_expires_at` has passed; time itself is left out, so
  a reservation may expire at any moment. `Reserve`, `Replay` and `Refuse` are
  the three ways out of `reserveInvoiceAttempt`, each with its purge of expired
  reservations. The two stores differ in two places: a refusal keeps the purge
  in memory but is rolled back by PostgreSQL, and PostgreSQL has a unique index
  on the cycle of records that have not failed. In memory a refused
  reservation's purge is not written to the file until the next save; a restart
  would bring an expired reservation back, to be purged again.
- **InvoiceIssuance.** `pc` is the await at which a handler stands, `queue` the
  chain of promises of `withOfferInvoiceLock`, `sawRevoked` the `entry.disabled`
  the route read before it queued, `minted` the invoices the node holds. A
  handler's step may fail at each await (`StoreFails`, `MintFails`), its reply
  may be lost after the effect, and `Crash` stops all handlers of a process.
- **SettlementSync.** `at`, `target`, `seen`, `next` are the local variables of
  a writer between its read and its write; `node` is the Fiber node's invoice;
  `events` what the writers have posted to the outbox. Issuance runs beside it as
  ledger operations; its own announcements are in `InvoiceIssuance`.
- **BackgroundWorkers.** A worker is a process; `running` is `task.running` and
  `left` what `syncOfferResolutions` has still to visit of the records its pass
  read. A timer or a job that meets a running pass returns its last result and
  is therefore no step. `ItemFails` is the `catch` inside the pass, `Restart` a
  process that dies at any point and starts with its flag down. The writers
  outside `Workers` are operators' requests, which no flag keeps apart.
- **WebhookOutbox.** `subs` and `todo` are what a drain read at its start,
  `sending` and `heard` the delivery in flight; `editor` is a PATCH, rotation or
  deletion between its read and its write. `accepted` (the endpoint's view) and
  `auto` (attempts begun by passes) are history for the properties. A secret is
  named by the number of edits begun when it was written.
- **OfferRegistry.** `memory` and `loaded` are `this.state` and `this.loaded`,
  `queue` and `writing` the chain of promises of `save`, `file` the JSON file or
  the tables. `Serve` is what a request does between its `load` and its `save`,
  which no other request can interrupt. `got` is what a request's own `readFile`
  returned: requests that come before the file is read each read it, and `Load`
  puts the result in memory whatever is there (`raced` remembers a load that
  undid something). With PostgreSQL a request is one transaction (`Query`). Two
  local effects that a reader may not expect are in the model: a registration
  refused for its name leaves its offer behind (`Leftover`), and an operation
  whose write failed stays in memory and is written with the next save.
- **PaymentFlow.** `at` is the await of `payOffer`, `inv` the record whose
  invoice it is to pay, `paid` what the payer's node has paid. `CycleReady` and
  `OfferReady` are the checks of `checkOfferReadiness`, which count records by
  other rules than `reserveInvoiceAttempt` does. The steps of the resolver
  between request and reply are cut down to a reservation and the end of its
  handler; InvoiceIssuance has them in full. A reservation that expires under a
  handler counts as a fault here.
- **RecurringScheduler.** `row` is the approval store, `copy` the approvals a
  pass listed and will put back, `running` the one being paid, `revoking` what
  `revoke` read. Due dates and retry delays are abstracted to "any active
  approval may be due". `spending_total` is `cycles * CycleAmount`, since every
  cycle has the signed amount.
- **FiberTopology, PaymentReadiness.** A channel list is a function from ids to
  what the node says of each channel; a list of checks is the set of its records
  of id and status (*pass*, *warn* or *fail*), whose order nothing reads. `AnalyzeTopology`, `PlanSteps` and
  `AnalyzePaymentReadiness` follow the functions of those names check by check;
  codes stand for issues, texts are left out.
- **PaymentSession.** `world` is the payer's direct channel, its channel to a
  hub and the hub's to the merchant, with their links; the two nodes' lists are
  derived from it and go through `AnalyzeTopology`. `opts` are the options of
  `payOffer`. `seen`, `offerOk` and `route` are the report the flow holds while
  the world moves on. The offer's checks are counted at one moment, the topology
  is read at another and the dry run made at a third (`CheckPayment`, `Recheck`,
  `TryRoute`); `DryRunFails` is the `catch` around the call of a dry run. `result`
  is what `payOffer` returns. `tried` is history.
- **ChannelFixture.** `chan` is what each end of a channel thinks of it, `auto`
  whether the merchant's node accepts by itself, `heard` the answers a script
  has so far. Each of the six lists is answered by a step of its own, since
  `inspectNode` asks for them in one `Promise.all` per node. Plans come from
  `PlanSteps`; `phase` says whether a script asks, executes or has ended, and
  `Executed` takes the steps one by one. `steady` is history: what has stood in
  the way ever since the script began to ask.
- **Workspace.** `tasks` are the handlers under way and the poll: where each is,
  the offer it asked under, the record it names, what it got. `buttons` holds for
  each kind of button what `setBusy` stored to restore; `Redrawn` is a list drawn
  anew with fresh buttons. `login` is the promise every request waits for after
  a 401. Two users stand for handlers that overlap, which the page allows
  through rows (never disabled) and redrawn buttons.

## 3. The runs

All runs are small on purpose: a property here breaks by an order of two or
three actors, and more of them repeat the same orders.

| Run | Instance | Shows |
| --- | --- | --- |
| `issuance_single_use` | 2 requests, 1 key, 2 amounts, 2 processes, PostgreSQL, 1 fault | `TypeOK`; `SingleUseOnce`: one resolution leaves the resolver; `AnswersBacked`: an answer with an invoice is backed by the node and the record; `IdempotentAnswers`; `ReservationsOwned`: no pending record without a handler, but by a death or a lost store call; `KeepsBook`: the refinement of `InvoiceBook`; `EveryRequestAnswered` |
| `issuance_recurring` | 3 requests, 1 key, local store, caps 3 cycles / 5 units at 2 each | `SequentialCycles` (no record fails here), `CapsRespected`, `LockExclusive` |
| `settlement_one_writer` | 3 cycles of a recurring offer, local store, 2 units to spend at 1 each, 1 writer, posted failures, 1 death | `TypeOK`; `CapsRespected` and `CyclesAccounted` while cycles fail and are replaced: each failed record costs the sequence of numbers one at most; `StatusesAnnounced`: at most one status per death has no event; `TerminalFrozen` |
| `settlement_sync` | 1 record, 1 worker, 1 operator, 1 death | `SyncConverges`: by the worker's timer alone the record gets the node's final status for good; `PaymentAnnounced` |
| `webhook_delivery` | 1 event, 1 endpoint, 2 passes, 1 request, 1 edit, 1 death, 2 attempts | `DeliveredWasAccepted`, `PassesGiveUp`, `EveryDeliverySettles` |
| `registry` | 3 requests, 2 offers, 1 name, 1 failed write, 1 restart, either store | `RegistrationsKept`, `RevocationsKept` (what was answered for is in memory and in the file, short of a torn file and of an overtaking load), `RefusedRegistersNothing` (PostgreSQL), `EveryRegistryRequestAnswered` |
| `scheduler_passes` | 1 approval of 2 cycles, 2 passes, 1 fault, 2 failures | `PaidInOrder`, `ConsentKept`, `EveryApprovalEnds` |
| `payments` | 2 payers, 6 worlds of balances and links, 5 sets of options, 1 fault | `DryRunBeforeFunds`; `SendsWhenItCan`: with a route that stands and no fault, an executed payment is sent, whatever else degrades the report |
| `direct_channel` | 1 script run again and again, 2 channels, 1 fault | `OpensWhereNothingStood`: no channel is opened beside one that stood all the while; `FixtureSettles`: in the end the payer can pay through one |
| `workspace` | 2 clicks, 2 offers (1 recurring), 2 invoices, 2 faults, the poll | `MarksWhatWasShown`: a record changes only under its own offer and only the one that was on top; `ActivitySettles`: the page ends up with what the resolver has; `ButtonsComeBack` |

Why the bounds are enough. Two requests in two processes are the least that
meet only in the store: one reserves, lapses and comes back late, the other
purges it and goes on; the theorems cover any number. Three requests in one
process are the least in which one holds the lock and two wait. Of three
registry requests two race and the third sees what is left, or one is answered,
one registers what it revoked or wants its name, and one fails to be written.
One fault separates what recovers from what does not; two would combine
independent losses. The spending cap of `issuance_recurring` stops the third
cycle before the cycle cap would, so both caps are met. In `settlement_sync` the
records share nothing: a pass over two records without the operator was checked
once as well, two with the operator are beyond a million states. The worlds of
`payments` are a direct channel with too little, enough for one and enough for
both payments, a hub with room for one or both or cut off, and a stalled
opening beside them; payments are of two units so that "some" and "enough"
differ. Two channels in `direct_channel` are one that stands or opens and one
opened beside it. Two clicks in `workspace` are a handler under way and one that
changes its selection, with the poll as the third; two faults end a session
twice, or fail a request under a new session. Deliveries, records and approvals
do not share state with others of their kind apart from the counts that have
more than one here, so one or two of each suffice; the theorems of section 5
hold for any number. `CHECK_DEADLOCK FALSE` is set since requests, edits,
clicks and approvals are bounded and a run may come to rest. Symmetry is used
only in runs without liveness, over attempts, which no definition tells apart.

Runs that show a disagreement between the code and its documents:

| Run | Document | What the run shows |
| --- | --- | --- |
| `terminal_overwritten` | "Terminal statuses cannot be changed" (`docs/spec-v1.md:261`) | the later of two synchronisations writes an older status over `invoice_paid` |
| `revoked_cycle` | "can stop future cycles immediately" (`docs/sdk.md:308`) | a pass puts back the approval it listed before the revocation; a later pass pays on |

What else the models show of the code, without a run of its own:

- Cycle numbers over PostgreSQL: two replicas reserve cycles 1 and 2, the first
  is given up, and the next number is then 2 for ever, which the unique index
  refuses (`postgres-store.js:154`, beside "consistent across replicas",
  `docs/deployment.md:107`).
- Cycle numbers of failed records, in either store: the next number is the
  count of the records that have not failed plus one (`store.js:568-569`,
  `NextCycle`). Once cycle 1 is marked failed while cycle 2 can still be paid,
  the next cycle is numbered 2 again: the local store gives the number out
  twice, PostgreSQL's index refuses it, and every later reservation with it
  (beside "The resolver enforces sequential cycles", `docs/spec-v1.md:63`). So
  `SequentialCycles` is a property of issuance without failed records only
  (`SequenceCorrect`: local store, no faults). What holds with them is
  `CyclesAccounted`: each failed record costs one number, as a gap or as a
  repetition, and nothing else costs any. It is about the local store; the item
  above is how PostgreSQL loses a number without a failed record.
- An update of a webhook that read it before a rotation writes the old secret
  back (`postgres-store.js:317`, beside "Invalidates the old secret
  immediately", `apps/demo/public/docs-merchants.html:83`). The two halves of
  `WebhookOutbox`'s edits show it.
- A cycle whose invoice exists but was not paid is never ready again: the
  readiness check counts the cycle's own record (`CycleReady`; the scheduler is
  said to retry failures, `docs/spec-v1.md:65`). `ConsentKept` and
  `EveryApprovalEnds` hold all the same, the latter because failures are counted.
- A single-use offer cannot be paid through `payOffer`: the second check, made
  with the invoice, finds the offer used by that invoice (`server.js:965`).
  `payments` pays reusable offers for that reason.
- A usable direct channel that is too small blocks a payment that a hub would
  carry (`AmountLiquidityVerdict`; `RouteStands` excludes that case).
- `setBusy(true)` disables the button of the login dialog too (`app.js:2056`):
  when a session ends under a handler, nobody can log in before the page is
  reloaded. `NeverLockedOut` is a premise of both of the page's liveness
  properties.
- Two nested handlers leave every button disabled: the inner one stores
  "disabled" as what to restore. `ButtonsComeBack` supposes that none overlap.
- The approval gate of a recurring offer is undone by the `setBusy(false)` of the
  handler that loaded the offer (`app.js:983`); the resolver only records the
  approval's id.

## 4. Fairness

| Specification | Fairness | Why |
| --- | --- | --- |
| `InvoiceIssuance` | weak, for the steps of each handler | a live process goes on, and a store call or an RPC answers or rejects; a dead process's requests are lost, which the property allows |
| `BackgroundWorkers` | weak for some worker to start a pass, for a pass to end, and for a writer's write and event; strong for a pass to visit each open record and for the node to answer it there | the interval or the queue starts passes; a pass that always died before the same record, or a node silent for ever, would be needed to skip it. Operators' synchronisations are not assumed to begin |
| `WebhookOutbox` | weak for the steps of a pass; strong for a pass to take up each delivery that may be attempted | passes come round on a timer, a failed delivery grows old enough, `fetch` has a timeout |
| `OfferRegistry` | weak for the steps of each request and for the writes | a live process goes on, and a read or a write of a file ends, with an error or without |
| `RecurringScheduler` | weak for the steps of a pass; strong for a pass to list each active approval | the interval timer; a due date and a retry delay pass |
| `PaymentSession` | weak for the steps of each flow | every call a flow awaits returns or rejects; no payment is assumed to begin |
| `ChannelFixture` | weak for running the script, for its steps, and for the nodes' own progress | the operator runs the script until it reports a channel; nodes complete or give up an opening. Faults have none |
| `Workspace` | weak for the steps of each task, the poll and the login | requests are answered, the interval fires, and an operator who is asked logs in; nobody has to click |

No fairness is assumed of clients, operators' requests, faults, expiry, deaths,
revocations or the Fiber node's payments. Operators' drains have none either.

## 5. Proofs

TLAPS proves these for every value of the constants that meets the modules'
assumptions (finite attempts and passes, numbers that are natural, keys apart
from `NoKey`, two different nodes, balances that a payment may take from).

| Module | Theorem | Argument |
| --- | --- | --- |
| `InvoiceIssuanceProofs` | `TypeCorrect`, `LockCorrect` | types do not carry the lock alone: `ChainInv` adds that an attempt past the lock heads its process's chain and a queued one is in it |
| | `IdempotenceCorrect`, `SingleUseCorrect`, `AnswersCorrect` | `RecordInv`: one stored record per key and one of a single-use offer (`UniqueInv`), how far the record is when its handler stands at each await (`RecordOf`), and what an answer relies on (`AnswerOf`). An answer alone is not inductive: that the record it names stays needs the fact that only pending records are removed |
| | `OwnedCorrect` | how far the record is at each await (`RecordOf`) and how each exit leaves it (`HandlerOwns`) |
| | `CapsCorrect` | `CapInv`: exactly the records of a recurring offer carry a cycle, and their number fits both caps; a reservation adds one to the count it has checked |
| | `SequenceCorrect` | under `Calm` (local store, no faults), written in the theorem, and without failed records, which `InvoiceIssuance` leaves to `SettlementSync`: one handler at a time has a pending record (`OnePending`, from the lock), so the live cycles are 1..n without repetition and a reservation has the last number, which is why its removal leaves no gap (`CycleInv`) |
| | `LockNeverOrphaned`, `LockInTurn` | the safety core of `EveryRequestAnswered`: a chain holds each of its handlers once, all of them alive and of its process (`ChainsLive`), so whoever waits has a live handler at the head, and each step appends, drops the head or drops the chain |
| | `BookCorrect` | the refinement mapping sends pending records to *admitted*, finalised to *issued*, deleted to *turned away*; each step is an admission, a dismissal, an issue, a closing or a stutter |
| `SettlementSyncProofs` | `SettlementTypeCorrect` | for any number of writers |
| | `LostAnnouncementsBounded` | for any number of racing writers: `StatusesAnnounced` is inductive with the types; a step announces what it writes or holds it ready (`StepsAnnounce`), and a death takes away at most one such holder (`DeathLosesOne`) |
| | `RevivalAloneBreaksCaps` | for any number of racing writers, as long as no step revives a failed record (`FailedStays`, written in the theorem): `RecordInv` counts the records that have not failed, and only a reservation, which checks them, adds one |
| | `CyclesStayAccounted`, `SettlementKeepsNumbers` | in the local store, for any number of racing writers that revive no failed record, and for one writer without that premise: `CycleInv` has the bound for the payable records and for those of them with an invoice (`Issued`), since the one that is pending may be dropped without having failed. A new record takes the number after the count, so up to it no more is missing than was below it (`MissingAdd`); one that fails takes at most its own number with it and raises the bound by one (`MissingRemove`) |
| | `SettledStaysSettled`, `SingleUseStaysSingle`, `SettlementKeepsCaps` | under `OneWriter`, written in each theorem: `WriterInv` says nobody moves the record the only writer has read, so nothing settled is overwritten, no failed record is revived, and the caps follow from the theorem above. `terminal_overwritten` shows that the hypothesis is needed |
| | `WorkersImplementSync` | every step of `BackgroundWorkers` is a step of `SettlementSync` or a stutter of its variables (`PassesSynchronise`), so the theorems above hold of the workers as well |
| | `PassTypeCorrect` | the types of the passes, and that a process without a pass has nothing under way |
| `WebhookOutboxProofs` | `OutboxTypeCorrect`, `DeliveredIsAccepted` | `DrainInv`: a drain that heard *delivered* is sending a delivery its endpoint accepted |
| | `AutomaticAttemptsEnd` | `BudgetInv`: attempts begun exceed those recorded by at most the passes in flight and the deaths, and a pass takes up a delivery only while the recorded attempts are below the limit |
| `RecurringSchedulerProofs` | `SchedulerTypeCorrect` | |
| | `CyclesPaidInOrder` | `OrderInv`: every version of an approval, stored, listed by a pass or read by `revoke`, counts only paid cycles (`Backed`), paid cycles have no gap (`Gapless`), and a payment under way pays the invoice of its own key, whose cycle follows the paid ones of the copy it runs for (`FlowHolds`). Stale copies are harmless because *paid* only grows |
| | `PaymentsWithinConsent` | `CapInv`: an approval is stopped for its caps only at the caps, and passes work on copies that were active; with `OrderInv` its cycles were paid. `PaidInv`: what was paid or is about to be is an invoice the resolver keeps, one for each key (`RecordInv`), so payments are among the records that its caps count |
| | `RevocationBetweenPassesHolds` | under `RevokedBetweenPasses`, written in the theorem, the property that `revoked_cycle` refutes: `StopsHold` says a stopped approval stays revoked and no pass has a row of it. The race of that run is thus its only cause |
| `TopologyProofs` | `FixtureTypeCorrect` | with the types, that a script which executes has a step left |
| | `OpensOnlyWhereNothingStood` | `FixtureInv`: what stood all the while is in every answer that could show it (`Shown`), so it is in the report made of the answers, and a report with it gives no plan that opens. A usable channel shows as a positive sum over the payer's list: a sum over a set of channels is at least each of its terms, which is proved from the smallest set where it is not |
| | `NoFundsWithoutDryRun` | the invariant adds that a flow which sends has a tried invoice, and one that goes by the resolver's good route check got it for its own invoice. A report without a route check may call a payment payable, but then the payer's own node is asked, and its answer decides (`ReportGoesByRoute`) |
| | `SessionTypeCorrect` | a payment takes from a balance what the balance has, and a subset of `Nat` closed downwards keeps the rest |
| | `StandingRoutePays` | the safety core of `SendsWhenItCan`, under its premises and for offers that are neither single-use nor recurring. `RouteInv` says of each flow under a key of its own how far its record is and that nothing it has heard so far blocks it: a report of a route that stands gives no failing topology check, the dry run succeeds and replaces what the report guessed |
| `WorkspaceProofs` | `MarksOnlyWhatWasShown` | the ledger's type and that the poll never stands at a call; then each step changes a record only as the request of its task says (`Owed`), whatever is selected or shown by then |
| | `WorkspaceTypeCorrect` | `TypeInv` adds what a request under way names: an offer that exists, and to mark paid an invoice that it has. Nothing is taken back (`Grows`), so the names stay good while the request waits for a login or is made again |
| | `ButtonsFollowHandlers` | the safety core of `ButtonsComeBack`: while at most one handler is under way, a plain button is disabled exactly when one is, and has stored *enabled* to restore. The first button pressed finds it enabled; redrawn lists and the approval gate touch other buttons |
| `OfferRegistryProofs` | `RegistryTypeCorrect` | |
| | `RegistrationsAreKept`, `RevocationsAreKept` | `RegistryInv`: the file, the snapshot being written, the queued ones and memory form a chain, each *grown* from the one before, and each shows every request answered by then (`QueueInv`, `Latest`); before the file is read nothing but reads is under way (`UnloadedInv`); with PostgreSQL nothing of the JSON store is used (`ModeInv`). Both hold until a load overtakes a request, and the file's part until a death tears it |
| | `RefusalsRegisterNothing` | an entry of the database has its answered registration: a refused transaction writes nothing |

`InvoiceLedgerProofs` holds the lemmas about the store that these share. The
recurring proofs cover faults, deaths and overlapping passes without bound, the
registry's any number of offers, names, requests and failed writes, the
payments' any callers, options and worlds.

With these, every invariant and every action property that a passing run checks
is proved, and the refinement of `InvoiceBook`. No run states `LockNeverOrphaned`,
`LockInTurn`, `StandingRoutePays` and `ButtonsFollowHandlers` alone:
`issuance_single_use`, `payments` and `workspace` check the liveness they are the
core of. `RevivalAloneBreaksCaps` and `RevocationBetweenPassesHolds` have temporal
premises, and bound what the two findings can do.

Only model-checked: liveness (`EveryRequestAnswered`, `SyncConverges`,
`PaymentAnnounced`, `EveryDeliverySettles`, `EveryApprovalEnds`,
`EveryRegistryRequestAnswered`, `SendsWhenItCan`, `FixtureSettles`,
`ActivitySettles`, `ButtonsComeBack`), since the prover does not reason about
fairness, and the runs that end in a violation.

## 6. Not modelled

Signatures, canonical JSON, bech32m encodings, the QR encoder, RPC parameter
building, rendering, the CLI's argument handling, migrations and deployment
scripts: encodings and I/O without state to interleave. The rate limiters are
fixed-window counters, each one synchronous function or one script that Redis
runs atomically. The operator's session is a signed token with an expiry; that
it may end at any request is in `Workspace`. The public payment page, the
inventory and the diagnostics panel of the demo are left out of `Workspace`:
they show answers and act on nothing. Wall-clock time is abstracted everywhere:
expiry, due dates and retry ages may come at any moment, so `nextOccurrence`'s
calendar arithmetic is not covered. Outside `OfferRegistry` and `Workspace` only
one offer is modelled at a time; offers share nothing else but the background
passes, where an exception on one offer ends the pass for those after it
(`CutShort`).

## 7. Plan

Done: issuance, settlement and its workers, outbox, scheduler, registry with
the local file, payments over a topology, the direct-channel fixture, the
operator's page, and their theorems. What is left, in order of worth:

1. The shared list of `WebStorageRecurringApprovalStore` and the file of
   `JsonFileRecurringApprovalStore` below the scheduler, and several approvals
   of one recurring offer.
2. Calendar arithmetic of recurrence terms as an operator checked against a
   reference definition.
3. The public payment page beside the operator's.
4. The safety cores of the liveness that has none yet: `EveryDeliverySettles`
   (an undelivered delivery is due, held by a pass or given up),
   `EveryRegistryRequestAnswered` (a waiting request is behind one whose write is
   under way) and `EveryApprovalEnds` (each end of a pass brings its copy nearer
   to its caps or to its limit of failures).

New runs will combine modules or replace weaker ones, so that each run keeps
asking a question of its own.
