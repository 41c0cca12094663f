---------------------------- MODULE InvoiceLedger ----------------------------
(***************************************************************************)
(* The resolver's store as one offer's invoice path sees it: the offer row *)
(* (is it revoked?), the resolution records of the offer and the atomic    *)
(* operations on them.  It models the in-memory / JSON store (store.js) and*)
(* the PostgreSQL store (postgres-store.js); they differ in two places,    *)
(* both switched by Transactional: a refused reservation keeps or rolls    *)
(* back its purge of expired reservations, and PostgreSQL has a unique     *)
(* index on the recurrence cycle of records that have not failed.          *)
(*                                                                         *)
(* A record's id is the attempt that reserved it (the code draws a fresh   *)
(* UUID).  An offer's terms never change: its id is a hash of them.        *)
(***************************************************************************)
EXTENDS Naturals, FiniteSets

CONSTANTS
  Attempts,       \* invoice attempts, and the ids of the records they reserve
  Keys,           \* idempotency keys that clients send
  NoKey,          \* the request carries no idempotency key
  Amounts,        \* the amounts a request may ask for
  AskedCycles,    \* the recurrence_cycle a request may carry (0: none)
  SingleUse,      \* offer.single_use
  Recurring,      \* offer.recurrence is present
  CycleAmount,    \* offer.recurrence.amount
  CapCycles,      \* offer.recurrence.cap_cycles
  SpendingCap,    \* offer.recurrence.spending_cap_total
  Transactional   \* TRUE: postgres-store.js, FALSE: store.js

ASSUME LedgerAssumption ==
  /\ IsFiniteSet(Attempts) /\ Attempts # {}
  /\ NoKey \notin Keys
  /\ Amounts \subseteq Nat /\ Amounts # {}
  /\ AskedCycles \subseteq Nat /\ AskedCycles # {}
  /\ SingleUse \in BOOLEAN /\ Recurring \in BOOLEAN /\ Transactional \in BOOLEAN
  /\ CycleAmount \in Nat /\ CapCycles \in Nat /\ SpendingCap \in Nat

Unset == 0        \* body.recurrence_cycle is undefined

\* What a request asks for.  The code hashes these fields into the
\* idempotency fingerprint, so two requests have one fingerprint exactly
\* when they ask for the same.
Request == [amount : Amounts, cycle : AskedCycles]

SettlementStatuses ==
  {"invoice_created", "invoice_received", "invoice_paid",
   "invoice_expired", "invoice_failed", "invoice_cancelled"}

\* Mutant of TerminalStatuses: a received payment counts as settled.
TerminalWithReceived ==
  {"invoice_received", "invoice_paid", "invoice_expired", "invoice_failed", "invoice_cancelled"}

TerminalStatuses ==
  {"invoice_paid", "invoice_expired", "invoice_failed", "invoice_cancelled"}

\* "unused" and "removed" are not statuses of the code: the attempt has no
\* record yet, or its reservation was deleted.
Statuses == SettlementStatuses \cup {"invoice_pending", "unused", "removed"}

VARIABLES
  revoked,   \* entry.disabled
  status,    \* attempt -> status of its record
  terms,     \* attempt -> what its record stores of the request, and its cycle
  lapsed     \* pending records whose reservation_expires_at has passed

ledgerVars == <<revoked, status, terms, lapsed>>

Terms == [key : Keys \cup {NoKey}, request : Request, cycle : Nat]

\* the place holder of an attempt without a record
NoTerms == [key |-> NoKey, request |-> CHOOSE q \in Request : TRUE, cycle |-> 0]

LedgerTypeOK ==
  /\ revoked \in BOOLEAN
  /\ status \in [Attempts -> Statuses]
  /\ terms \in [Attempts -> Terms]
  /\ lapsed \subseteq Attempts

LedgerInit ==
  /\ revoked = FALSE
  /\ status = [a \in Attempts |-> "unused"]
  /\ terms = [a \in Attempts |-> NoTerms]
  /\ lapsed = {}

-----------------------------------------------------------------------------
(* What reserveInvoiceAttempt reads. *)

Stored(st) == {a \in Attempts : st[a] \notin {"unused", "removed"}}

\* Mutant of Prior: pending reservations are overlooked.
PriorFinalised(st) ==
  {a \in Stored(st) : st[a] \notin {"invoice_pending", "invoice_failed"}}

\* records a single-use check and a recurrence check count
Prior(st) == {a \in Stored(st) : st[a] # "invoice_failed"}
CycleRecords(st) == {a \in Prior(st) : terms[a].cycle # 0}

\* the records left when expired reservations are dropped
Purged == [a \in Attempts |->
             IF status[a] = "invoice_pending" /\ a \in lapsed THEN "removed" ELSE status[a]]

KeyHolders(st, k) == {a \in Stored(st) : k # NoKey /\ terms[a].key = k}

\* Mutant of NextCycle: abandoned and failed reservations count too.
NextCycleEverReserved(st) == Cardinality({a \in Attempts : terms[a].cycle # 0}) + 1
\* Mutant of NextCycle: the number of the last cycle, not of the next.
NextCycleOfLast(st) ==
  IF CycleRecords(st) = {} THEN 1 ELSE Cardinality(CycleRecords(st))

NextCycle(st) == Cardinality(CycleRecords(st)) + 1

\* Mutant of CycleAccepted: the cap is compared without this cycle.
CycleAcceptedBeforeAdding(st, q) ==
  IF ~Recurring THEN q.cycle = Unset
  ELSE /\ q.amount = CycleAmount
       /\ q.cycle \in {Unset, NextCycle(st)}
       /\ NextCycle(st) <= CapCycles
       /\ Cardinality(CycleRecords(st)) * CycleAmount <= SpendingCap

\* recurrenceReservation; every counted record has amount CycleAmount, so
\* their total is a product
CycleAccepted(st, q) ==
  IF ~Recurring THEN q.cycle = Unset
  ELSE /\ q.amount = CycleAmount
       /\ q.cycle \in {Unset, NextCycle(st)}
       /\ NextCycle(st) <= CapCycles
       /\ NextCycle(st) * CycleAmount <= SpendingCap

\* the unique index on (offer_id, cycle) of records that have not failed
CycleIndexAllows(st, a, c) ==
  Transactional /\ c # 0 =>
    \A b \in Prior(st) \ {a} : terms[b].cycle # c

CycleOf(st) == IF Recurring THEN NextCycle(st) ELSE 0

\* Mutant of Replays: the fingerprint is not compared.
ReplaysAnyRequest(st, k, q) ==
  {b \in KeyHolders(st, k) : st[b] # "invoice_pending"}

\* the replay of an earlier request: the key's record, no longer pending
Replays(st, k, q) ==
  {b \in KeyHolders(st, k) : terms[b].request = q /\ st[b] # "invoice_pending"}

\* the checks a reservation under a fresh key must pass
MayReserve(st, a, k, q) ==
  /\ KeyHolders(st, k) = {}
  /\ SingleUse => Prior(st) = {}
  /\ CycleAccepted(st, q)
  /\ CycleIndexAllows(st, a, CycleOf(st))

-----------------------------------------------------------------------------
(* Operations, each one atomic in the code. *)

\* Mutant of Reserve: the row is read without its disabled flag.
ReserveThoughRevoked(a, k, q) ==
  /\ status[a] = "unused"
  /\ MayReserve(Purged, a, k, q)
  /\ status' = [Purged EXCEPT ![a] = "invoice_pending"]
  /\ terms' = [terms EXCEPT ![a] =
                 [key |-> k, request |-> q, cycle |-> CycleOf(Purged)]]
  /\ lapsed' = {b \in lapsed : Purged[b] = status[b]}
  /\ UNCHANGED revoked

\* reserveInvoiceAttempt pushes a pending record
Reserve(a, k, q) ==
  /\ ~revoked
  /\ status[a] = "unused"
  /\ MayReserve(Purged, a, k, q)
  /\ status' = [Purged EXCEPT ![a] = "invoice_pending"]
  /\ terms' = [terms EXCEPT ![a] =
                 [key |-> k, request |-> q, cycle |-> CycleOf(Purged)]]
  /\ lapsed' = {b \in lapsed : Purged[b] = status[b]}
  /\ UNCHANGED revoked

\* reserveInvoiceAttempt returns record b for a repeated request
Replay(k, q, b) ==
  /\ ~revoked
  /\ b \in Replays(Purged, k, q)
  /\ status' = Purged
  /\ lapsed' = {c \in lapsed : Purged[c] = status[c]}
  /\ UNCHANGED <<revoked, terms>>

\* reserveInvoiceAttempt throws: in memory the purge stays, in PostgreSQL
\* the transaction rolls it back
Refuse(a, k, q) ==
  /\ \/ revoked
     \/ /\ ~MayReserve(Purged, a, k, q)
        /\ Replays(Purged, k, q) = {}
  /\ LET kept == IF revoked \/ Transactional THEN status ELSE Purged
     IN /\ status' = kept
        /\ lapsed' = {c \in lapsed : kept[c] = status[c]}
  /\ UNCHANGED <<revoked, terms>>

\* two minutes pass since record a was reserved
Lapse(a) ==
  /\ status[a] = "invoice_pending"
  /\ a \notin lapsed
  /\ lapsed' = lapsed \cup {a}
  /\ UNCHANGED <<revoked, status, terms>>

\* Mutant of Finalize: the node's word for the status is stored.
FinalizeAsOpen(a) ==
  /\ status[a] = "invoice_pending"
  /\ status' = [status EXCEPT ![a] = "open"]
  /\ lapsed' = lapsed \ {a}
  /\ UNCHANGED <<revoked, terms>>

\* Mutant of Finalize: the invoice is stored, the status is forgotten.
FinalizeStillPending(a) ==
  /\ status[a] = "invoice_pending"
  /\ lapsed' = lapsed \ {a}
  /\ UNCHANGED <<revoked, status, terms>>

\* finalizeInvoiceReservation
Finalize(a) ==
  /\ status[a] = "invoice_pending"
  /\ status' = [status EXCEPT ![a] = "invoice_created"]
  /\ lapsed' = lapsed \ {a}
  /\ UNCHANGED <<revoked, terms>>

\* abandonInvoiceReservation: a no-op unless the record is still pending
Abandon(a) ==
  /\ status' = IF status[a] = "invoice_pending"
               THEN [status EXCEPT ![a] = "removed"] ELSE status
  /\ lapsed' = lapsed \ {a}
  /\ UNCHANGED <<revoked, terms>>

\* updateResolutionStatus finds the record, and PostgreSQL's index lets a
\* record back among those that have not failed
StatusWritable(a, s) ==
  /\ a \in Stored(status)
  /\ s # "invoice_failed" => CycleIndexAllows(status, a, terms[a].cycle)

\* updateResolutionStatus of the store, which checks no transition
UpdateStatus(a, s) ==
  /\ s \in SettlementStatuses
  /\ StatusWritable(a, s)
  /\ status' = [status EXCEPT ![a] = s]
  /\ lapsed' = lapsed \ {a}
  /\ UNCHANGED <<revoked, terms>>

\* revokeOffer
Revoke ==
  /\ ~revoked
  /\ revoked' = TRUE
  /\ UNCHANGED <<status, terms, lapsed>>

-----------------------------------------------------------------------------
(* What the ledger should always satisfy, whoever drives it. *)

\* The records that can still be paid fit the caps the payer consented to.
CapsRespected ==
  LET n == Cardinality(CycleRecords(status))
  IN n <= CapCycles /\ n * CycleAmount <= SpendingCap
=============================================================================
