--------------------------- MODULE SettlementSync ---------------------------
(***************************************************************************)
(* How a resolution's status moves once its invoice exists.  Two kinds of  *)
(* writers share the records: operators who post a status                  *)
(* (POST .../status, updateResolutionStatus in server.js) and              *)
(* synchronisations with the Fiber node (POST .../sync and the background  *)
(* settlement pass, syncResolutionFromInvoiceSource).  Both read the       *)
(* record, decide whether the transition is allowed on what they read, and *)
(* write later; a synchronisation asks the Fiber node in between.          *)
(*                                                                         *)
(* Any writer may do either, one after the other.                          *)
(*                                                                         *)
(* Invoice creation runs beside them, one ledger operation at a time; the  *)
(* event of a new invoice is announced in InvoiceIssuance.                 *)
(***************************************************************************)
EXTENDS InvoiceLedger

CONSTANTS
  Writers,     \* handlers and background passes that can be under way at once
  Posted,      \* the statuses that operators post ({}: they only synchronise)
  MaxDeaths    \* bound on handlers cut short

ASSUME SettlementAssumption ==
  /\ Posted \subseteq SettlementStatuses
  /\ MaxDeaths \in Nat

VARIABLES
  node,      \* attempt -> the Fiber node's status of its invoice, "none" without one
  invoiced,  \* records that store an invoice (and so a payment_hash)
  at,        \* writer -> where it stands
  target,    \* writer -> the record it works on
  seen,      \* writer -> the status it read
  next,      \* writer -> the status it is going to write
  events,    \* outbox: the <<record, status>> pairs that a writer posted
  deaths     \* handlers cut short so far

settleVars == <<node, invoiced, at, target, seen, next, events, deaths>>
vars == <<ledgerVars, settleVars>>

NodeStatuses == {"none", "open", "received", "paid", "expired", "cancelled", "failed"}

\* Mutant of FiberStatus: the node's word is stored untranslated.
FiberStatusRaw(n) == n

\* mapFiberInvoiceStatus
FiberStatus(n) ==
  CASE n = "open"      -> "invoice_created"
    [] n = "received"  -> "invoice_received"
    [] n = "paid"      -> "invoice_paid"
    [] n = "expired"   -> "invoice_expired"
    [] n = "cancelled" -> "invoice_cancelled"
    [] OTHER           -> "invoice_failed"

FinalNode == {"paid", "expired", "cancelled", "failed"}

TypeOK ==
  /\ LedgerTypeOK
  /\ node \in [Attempts -> NodeStatuses]
  /\ invoiced \subseteq Attempts
  /\ at \in [Writers -> {"idle", "asking", "writing", "posting"}]
  /\ target \in [Writers -> Attempts]
  /\ seen \in [Writers -> Statuses]
  /\ next \in [Writers -> SettlementStatuses]
  /\ events \subseteq Attempts \X SettlementStatuses
  /\ deaths \in 0 .. MaxDeaths

Init ==
  /\ LedgerInit
  /\ node = [a \in Attempts |-> "none"]
  /\ invoiced = {}
  /\ at = [w \in Writers |-> "idle"]
  /\ target \in [Writers -> Attempts]
  /\ seen = [w \in Writers |-> "unused"]
  /\ next = [w \in Writers |-> "invoice_created"]
  /\ events = {}
  /\ deaths = 0

-----------------------------------------------------------------------------
\* Mutant of TransitionAllowed: a terminal status is not protected.
TransitionUnchecked(current, to) == TRUE

\* assertStatusTransition
TransitionAllowed(current, to) == current = to \/ current \notin TerminalStatuses

\* updateResolutionStatus of server.js: the record is read and the
\* transition asserted in one go; a refused one answers 409
PostStatus(w, a, s) ==
  /\ at[w] = "idle"
  /\ a \in Stored(status)
  /\ TransitionAllowed(status[a], s)
  /\ at' = [at EXCEPT ![w] = "writing"]
  /\ target' = [target EXCEPT ![w] = a]
  /\ seen' = [seen EXCEPT ![w] = status[a]]
  /\ next' = [next EXCEPT ![w] = s]
  /\ UNCHANGED <<ledgerVars, node, invoiced, events, deaths>>

\* syncResolutionFromInvoiceSource reads the record and calls get_invoice
AskNode(w, a) ==
  /\ at[w] = "idle"
  /\ a \in Stored(status) \cap invoiced
  /\ at' = [at EXCEPT ![w] = "asking"]
  /\ target' = [target EXCEPT ![w] = a]
  /\ seen' = [seen EXCEPT ![w] = status[a]]
  /\ UNCHANGED <<ledgerVars, node, invoiced, next, events, deaths>>

\* The node's answer arrives, is compared with the status read before, and
\* is asserted against it.
HearNode(w) ==
  LET learned == FiberStatus(node[target[w]])
  IN /\ at[w] = "asking"
     /\ \/ /\ learned # seen[w]
           /\ TransitionAllowed(seen[w], learned)
           /\ at' = [at EXCEPT ![w] = "writing"]
           /\ next' = [next EXCEPT ![w] = learned]
        \/ /\ learned = seen[w] \/ ~TransitionAllowed(seen[w], learned)
           /\ at' = [at EXCEPT ![w] = "idle"]
           /\ UNCHANGED next
     /\ UNCHANGED <<ledgerVars, node, invoiced, target, seen, events, deaths>>

\* the RPC fails; the item of the pass is reported as failed
NodeSilent(w) ==
  /\ at[w] = "asking"
  /\ at' = [at EXCEPT ![w] = "idle"]
  /\ UNCHANGED <<ledgerVars, node, invoiced, target, seen, next, events, deaths>>

\* store.updateResolutionStatus, or its 404 and 409
WriteStatus(w) ==
  /\ at[w] = "writing"
  /\ \/ /\ UpdateStatus(target[w], next[w])
        /\ at' = [at EXCEPT ![w] = "posting"]
     \/ /\ ~StatusWritable(target[w], next[w])
        /\ at' = [at EXCEPT ![w] = "idle"]
        /\ UNCHANGED ledgerVars
  /\ UNCHANGED <<node, invoiced, target, seen, next, events, deaths>>

\* Mutant of PostEvent: the event is built from the record read first.
PostEventOfOldStatus(w) ==
  /\ at[w] = "posting"
  /\ at' = [at EXCEPT ![w] = "idle"]
  /\ events' = events \cup {<<target[w], seen[w]>>}
  /\ UNCHANGED <<ledgerVars, node, invoiced, target, seen, next, deaths>>

\* appendWebhookEvent for the status the store returned
PostEvent(w) ==
  /\ at[w] = "posting"
  /\ at' = [at EXCEPT ![w] = "idle"]
  /\ events' = events \cup {<<target[w], next[w]>>}
  /\ UNCHANGED <<ledgerVars, node, invoiced, target, seen, next, deaths>>

\* The process of a handler dies, or its call of the store rejects: the
\* handler's later steps never happen.
WriterDies(w) ==
  /\ at[w] # "idle"
  /\ deaths < MaxDeaths
  /\ deaths' = deaths + 1
  /\ at' = [at EXCEPT ![w] = "idle"]
  /\ UNCHANGED <<ledgerVars, node, invoiced, target, seen, next, events>>

-----------------------------------------------------------------------------
(* Invoice creation, as the writers see it. *)

\* the lock of the only process keeps reservations apart in the local store
ReserveInvoice(a, k, q) ==
  /\ ~Transactional => \A b \in Attempts : status[b] # "invoice_pending"
  /\ Reserve(a, k, q)
  /\ UNCHANGED settleVars

\* The node mints and the resolver stores the invoice with the record.
IssueInvoice(a) ==
  /\ Finalize(a)
  /\ node' = [node EXCEPT ![a] = "open"]
  /\ invoiced' = invoiced \cup {a}
  /\ UNCHANGED <<at, target, seen, next, events, deaths>>

\* The mint failed, or the reservation lapsed and was purged.
DropReservation(a) ==
  /\ status[a] = "invoice_pending"
  /\ Abandon(a)
  /\ UNCHANGED settleVars

(* The Fiber node. *)

NodeMoves == [open |-> {"received", "expired", "cancelled"},
              received |-> {"paid", "cancelled", "failed"}]

NodeProgress(a) ==
  /\ node[a] \in DOMAIN NodeMoves
  /\ \E n \in NodeMoves[node[a]] : node' = [node EXCEPT ![a] = n]
  /\ UNCHANGED <<ledgerVars, invoiced, at, target, seen, next, events, deaths>>

Writer(w) ==
  \/ \E a \in Attempts, s \in Posted : PostStatus(w, a, s)
  \/ \E a \in Attempts : AskNode(w, a)
  \/ HearNode(w)
  \/ NodeSilent(w)
  \/ WriteStatus(w)
  \/ PostEvent(w)
  \/ WriterDies(w)

Issuance ==
  \/ \E a \in Attempts, k \in Keys \cup {NoKey}, q \in Request : ReserveInvoice(a, k, q)
  \/ \E a \in Attempts : IssueInvoice(a)
  \/ \E a \in Attempts : DropReservation(a)

Next ==
  \/ Issuance
  \/ \E a \in Attempts : NodeProgress(a)
  \/ \E w \in Writers : Writer(w)

\* A settlement pass comes round every few seconds and visits each record
\* whose status is not terminal, the node answers now and then, and a
\* handler that knows what to write goes on.
Fairness ==
  \A w \in Writers :
    /\ WF_vars(WriteStatus(w)) /\ WF_vars(PostEvent(w))
    /\ \A a \in Attempts :
         /\ SF_vars(status[a] \notin TerminalStatuses /\ AskNode(w, a))
         /\ SF_vars(target[w] = a /\ HearNode(w))

SafetySpec == Init /\ [][Next]_vars
Spec == SafetySpec /\ Fairness

-----------------------------------------------------------------------------
(* Safety. *)

\* "Terminal statuses cannot be changed to a different terminal status", nor
\* back to an open one: once a record is paid, expired, failed or cancelled
\* no later write moves it.
TerminalFrozen ==
  [][\A a \in Attempts : status[a] \in TerminalStatuses => status'[a] = status[a]]_vars

\* A single-use offer never has two resolutions that can be paid.
SingleUseLive == SingleUse => Cardinality(Prior(status)) <= 1

Failed == {a \in Stored(status) : status[a] = "invoice_failed"}

\* the cycle numbers of a set of records
Numbers(S) == {terms[a].cycle : a \in S}

\* Each failed record costs the sequence of cycles one number at most: up to
\* the highest number that is taken, and up to the count of the records that
\* can still be paid, no more numbers are missing than records have failed.
\* A number that is missing below the count is one that another record repeats.
Accounted(S) ==
  \A c \in Numbers(S) \cup {Cardinality(S)} :
    Cardinality((1 .. c) \ Numbers(S)) <= Cardinality(Failed)

CyclesAccounted == Recurring => Accounted(CycleRecords(status))

Announced(a) ==
  \/ status[a] \in {"invoice_pending", "invoice_created"}
  \/ <<a, status[a]>> \in events
  \/ \E w \in Writers : at[w] = "posting" /\ target[w] = a /\ next[w] = status[a]

\* Every status that a writer gave a record is in the outbox, except the one
\* a writer is about to post, and at most one for each handler cut short.
StatusesAnnounced ==
  Cardinality({a \in Stored(status) : ~Announced(a)}) <= deaths

-----------------------------------------------------------------------------
(* Liveness, where nobody posts by hand. *)

\* Whatever stale answers arrive late, the record ends up with the node's
\* final status and keeps it.
SyncConverges ==
  \A a \in Attempts :
    a \in invoiced /\ node[a] \in FinalNode ~> [](status[a] = FiberStatus(node[a]))

\* and the merchant's outbox gets the event of a payment, unless a handler
\* was cut short on its way there.
PaymentAnnounced ==
  \A a \in Attempts :
    a \in invoiced /\ node[a] = "paid" ~> <<a, "invoice_paid">> \in events \/ deaths > 0
=============================================================================
