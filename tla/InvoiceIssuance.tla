--------------------------- MODULE InvoiceIssuance ---------------------------
(***************************************************************************)
(* POST /offers/:offer_id/invoice of the resolver (resolveInvoice in       *)
(* server.js), run by several resolver processes over one store and one    *)
(* merchant Fiber node.                                                    *)
(*                                                                         *)
(* A process serialises the invoice requests of an offer with a chain of   *)
(* promises; the chain is local to the process, so requests of two         *)
(* processes meet only in the store.  The offer entry is read before the   *)
(* request joins the chain.  The Fiber node creates an invoice at a moment *)
(* of its own, and its reply may be lost.  A process may die at any step,  *)
(* and a store call may fail, with or without its effect.                  *)
(***************************************************************************)
EXTENDS InvoiceLedger, Sequences

CONSTANTS
  Procs,        \* resolver processes
  MaxFaults     \* bound on process deaths and failed store calls

ASSUME IssuanceAssumption ==
  /\ IsFiniteSet(Procs) /\ Procs # {}
  /\ MaxFaults \in Nat
  /\ ~Transactional => \E p \in Procs : Procs = {p}

VARIABLES
  pc,         \* attempt -> where its handler stands
  proc,       \* attempt -> the process that handles it
  ask,        \* attempt -> the key and request the client sent
  sawRevoked, \* attempt -> entry.disabled as the route handler read it
  queue,      \* process -> context.invoiceLocks: the attempts that hold and await the lock
  minted,     \* attempts for which the Fiber node holds an invoice
  announced,  \* records with an invoice.created event in the outbox
  answer,     \* attempt -> the HTTP answer and the record it is about
  faults      \* process deaths and failed store calls so far

issuanceVars == <<pc, proc, ask, sawRevoked, queue, minted, announced, answer, faults>>
vars == <<ledgerVars, issuanceVars>>

\* steps of a handler that run under the lock
Critical == {"checking", "reserving", "minting", "minted", "abandoning", "announcing"}

PC == Critical \cup {"new", "queued", "done", "lost"}

\* created and replayed carry an invoice (201, 200); refused is any 4xx
\* before the mint; unavailable is 503; conflict is the 409 of a
\* reservation that was purged under the handler; error is a store failure
Outcomes == {"none", "created", "replayed", "refused", "unavailable", "conflict", "error"}

InHandler(a) == pc[a] \in Critical \cup {"queued"}

TypeOK ==
  /\ LedgerTypeOK
  /\ pc \in [Attempts -> PC]
  /\ proc \in [Attempts -> Procs]
  /\ ask \in [Attempts -> [key : Keys \cup {NoKey}, request : Request]]
  /\ sawRevoked \in [Attempts -> BOOLEAN]
  /\ queue \in [Procs -> Seq(Attempts)]
  /\ minted \subseteq Attempts
  /\ announced \subseteq Attempts
  /\ answer \in [Attempts -> [outcome : Outcomes, record : Attempts]]
  /\ faults \in 0 .. MaxFaults

Init ==
  /\ LedgerInit
  /\ pc = [a \in Attempts |-> "new"]
  /\ proc = [a \in Attempts |-> CHOOSE p \in Procs : TRUE]
  /\ ask = [a \in Attempts |-> [key |-> NoKey, request |-> NoTerms.request]]
  /\ sawRevoked = [a \in Attempts |-> FALSE]
  /\ queue = [p \in Procs |-> <<>>]
  /\ minted = {}
  /\ announced = {}
  /\ answer = [a \in Attempts |-> [outcome |-> "none", record |-> a]]
  /\ faults = 0

-----------------------------------------------------------------------------
Goto(a, from, to) ==
  /\ pc[a] = from
  /\ pc' = [pc EXCEPT ![a] = to]

\* Mutant of Release: an exit path that keeps the lock.
ReleaseForgotten(a) == UNCHANGED queue

\* the finally block of withOfferInvoiceLock
Release(a) == queue' = [queue EXCEPT ![proc[a]] = Tail(@)]

\* the handler ends: the client gets an answer and the lock goes to the next
Respond(a, from, outcome, b) ==
  /\ Goto(a, from, "done")
  /\ answer' = [answer EXCEPT ![a] = [outcome |-> outcome, record |-> b]]
  /\ Release(a)
  /\ UNCHANGED <<proc, ask, sawRevoked, minted>>

\* the handler moves on and keeps the lock
Continue(a, from, to) ==
  /\ Goto(a, from, to)
  /\ UNCHANGED <<proc, ask, sawRevoked, queue, answer>>

\* Mutant of HoldsLock: the request does not wait for its turn.
HoldsLockAtOnce(a) == TRUE

\* a's turn has come in the chain of promises of its process
HoldsLock(a) == Head(queue[proc[a]]) = a

\* The route handler reads the offer and joins the lock's chain.
Receive(a, p, k, q) ==
  /\ Goto(a, "new", "queued")
  /\ proc' = [proc EXCEPT ![a] = p]
  /\ ask' = [ask EXCEPT ![a] = [key |-> k, request |-> q]]
  /\ sawRevoked' = [sawRevoked EXCEPT ![a] = revoked]
  /\ queue' = [queue EXCEPT ![p] = Append(@, a)]
  /\ UNCHANGED <<ledgerVars, minted, announced, answer, faults>>

\* assertOfferActive, on the entry read before the wait
Acquire(a) ==
  /\ pc[a] = "queued"
  /\ HoldsLock(a)
  /\ UNCHANGED <<ledgerVars, announced>>
  /\ \/ ~sawRevoked[a] /\ Continue(a, "queued", "checking") /\ UNCHANGED minted
     \/ sawRevoked[a] /\ Respond(a, "queued", "refused", a)

\* verifyOffer, verifyOfferNodeOwnership (node_info of the node) and
\* validateResolutionRequest; any of them may throw
CheckOffer(a) ==
  /\ UNCHANGED <<ledgerVars, announced>>
  /\ \/ Continue(a, "checking", "reserving") /\ UNCHANGED minted
     \/ Respond(a, "checking", "refused", a)

ReserveInvoice(a) ==
  LET k == ask[a].key
      q == ask[a].request
  IN /\ UNCHANGED announced
     /\ \/ Reserve(a, k, q) /\ Continue(a, "reserving", "minting") /\ UNCHANGED minted
        \/ \E b \in Attempts : Replay(k, q, b) /\ Respond(a, "reserving", "replayed", b)
        \/ Refuse(a, k, q) /\ Respond(a, "reserving", "refused", a)

\* Mutant of NodeMints: a reply taken for an invoice that does not exist.
NodeMintsUnconfirmed(a) ==
  /\ Continue(a, "minting", "minted")
  /\ UNCHANGED <<ledgerVars, minted, announced>>

\* The Fiber node creates the invoice and its reply reaches the resolver.
NodeMints(a) ==
  /\ Continue(a, "minting", "minted")
  /\ minted' = minted \cup {a}
  /\ UNCHANGED <<ledgerVars, announced>>

\* createInvoice throws: the node refused, or it did create the invoice and
\* its reply was lost or had no invoice in it
MintFails(a) ==
  /\ Continue(a, "minting", "abandoning")
  /\ minted' \in {minted, minted \cup {a}}
  /\ UNCHANGED <<ledgerVars, announced>>

AbandonReservation(a) ==
  /\ Respond(a, "abandoning", "unavailable", a)
  /\ \/ Abandon(a)
     \/ Transactional /\ UNCHANGED ledgerVars    \* .catch(() => {})
  /\ UNCHANGED announced

FinalizeInvoice(a) ==
  /\ UNCHANGED announced
  /\ \/ Finalize(a) /\ Continue(a, "minted", "announcing") /\ UNCHANGED minted
     \/ /\ status[a] # "invoice_pending"
        /\ Respond(a, "minted", "conflict", a)
        /\ UNCHANGED ledgerVars

\* appendWebhookEvent(invoice.created), then the 201
AnnounceInvoice(a) ==
  /\ Respond(a, "announcing", "created", a)
  /\ announced' = announced \cup {a}
  /\ UNCHANGED ledgerVars

\* A store call rejects and the handler rethrows.  PostgreSQL may or may
\* not have committed; store.js fails after the change, in writing the file.
StoreFails(a) ==
  /\ faults < MaxFaults
  /\ faults' = faults + 1
  /\ \/ /\ Respond(a, "reserving", "error", a)
        /\ \/ Reserve(a, ask[a].key, ask[a].request)
           \/ Transactional /\ UNCHANGED ledgerVars
        /\ UNCHANGED announced
     \/ /\ Respond(a, "minted", "error", a)
        /\ \/ Finalize(a)
           \/ Transactional /\ UNCHANGED ledgerVars
        /\ UNCHANGED announced
     \/ /\ Respond(a, "announcing", "error", a)
        /\ announced' \in {announced, announced \cup {a}}
        /\ UNCHANGED ledgerVars

\* a process dies and comes back with no handler running and no locks held
Crash(p) ==
  /\ faults < MaxFaults
  /\ faults' = faults + 1
  /\ pc' = [a \in Attempts |-> IF proc[a] = p /\ InHandler(a) THEN "lost" ELSE pc[a]]
  /\ queue' = [queue EXCEPT ![p] = <<>>]
  /\ UNCHANGED <<ledgerVars, proc, ask, sawRevoked, minted, announced, answer>>

Step(a) ==
  /\ \/ Acquire(a)
     \/ CheckOffer(a)
     \/ ReserveInvoice(a)
     \/ NodeMints(a)
     \/ MintFails(a)
     \/ AbandonReservation(a)
     \/ FinalizeInvoice(a)
     \/ AnnounceInvoice(a)
  /\ UNCHANGED faults

Next ==
  \/ \E a \in Attempts, p \in Procs, k \in Keys \cup {NoKey}, q \in Request :
       Receive(a, p, k, q)
  \/ \E a \in Attempts : Step(a)
  \/ \E a \in Attempts : StoreFails(a)
  \/ \E a \in Attempts : Lapse(a) /\ UNCHANGED issuanceVars
  \/ \E p \in Procs : Crash(p)
  \/ Revoke /\ UNCHANGED issuanceVars

\* A live process runs its handlers, and the Fiber RPC answers or fails
\* (fetch rejects when its own timeout expires).
Fairness == \A a \in Attempts : WF_vars(Step(a))

Spec == Init /\ [][Next]_vars /\ Fairness

-----------------------------------------------------------------------------
(* Safety. *)

Carries(a) == answer[a].outcome \in {"created", "replayed"}

\* Requests of one idempotency key that get an invoice get the same
\* resolution, and asked for the same thing: "retrying the same key and
\* payment request returns the original invoice resolution".
IdempotentAnswers ==
  \A a, b \in Attempts :
    Carries(a) /\ Carries(b) /\ ask[a].key = ask[b].key /\ ask[a].key # NoKey
      => answer[a].record = answer[b].record /\ ask[a].request = ask[b].request

\* A single-use offer hands out one resolution, whatever the processes,
\* lapsed reservations, lost replies and deaths between the two checks.
SingleUseOnce ==
  SingleUse =>
    \A a, b \in Attempts : Carries(a) /\ Carries(b) => answer[a].record = answer[b].record

\* Whoever is given an invoice is given one that the Fiber node holds and a
\* record that keeps it; a 201 also has its invoice.created event.  No
\* reservation that was purged, abandoned or refused reaches a payer.
AnswersBacked ==
  \A a \in Attempts :
    Carries(a) =>
      LET b == answer[a].record
      IN /\ b \in Stored(status) /\ status[b] # "invoice_pending"
         /\ b \in minted
         /\ answer[a].outcome = "created" => b = a /\ a \in announced

\* Two handlers of one process are never both past the lock of the offer.
LockExclusive ==
  \A a, b \in Attempts :
    pc[a] \in Critical /\ pc[b] \in Critical /\ proc[a] = proc[b] => a = b

\* A pending reservation belongs to a handler that still works on it, or
\* its handler died, or a store call of its handler failed: none is left
\* behind to block a single-use offer or a key.
ReservationsOwned ==
  \A a \in Attempts :
    status[a] = "invoice_pending" =>
      \/ pc[a] \in {"minting", "minted", "abandoning", "lost"}
      \/ answer[a].outcome = "error"
      \/ Transactional /\ answer[a].outcome = "unavailable"

\* The cycles of an offer's live records are 1, 2, ..., n.
SequentialCycles ==
  Recurring =>
    LET live == CycleRecords(status)
    IN {terms[a].cycle : a \in live} = 1 .. Cardinality(live)

-----------------------------------------------------------------------------
(* The promise.  A pending reservation is an admission, a finalised record *)
(* an issued invoice, a deleted reservation an attempt turned away.        *)

Limit == IF SingleUse THEN 1 ELSE IF Recurring THEN CapCycles ELSE Cardinality(Attempts)

Admitted == {a \in Attempts : status[a] = "invoice_pending"}
Issued == {a \in Attempts : status[a] = "invoice_created"}
TurnedAway == {a \in Attempts : status[a] = "removed"}
KeyOf == [a \in Attempts |-> terms[a].key]

Book == INSTANCE InvoiceBook
          WITH closed <- revoked, admitted <- Admitted, issued <- Issued,
               turnedAway <- TurnedAway, keyOf <- KeyOf

\* The resolver keeps the promise of InvoiceBook with any number of
\* processes, lapses, lost replies and deaths.
KeepsBook == Book!BookSpec

-----------------------------------------------------------------------------
(* Liveness. *)

\* Every request that joins the lock's chain is answered, unless its process
\* dies: no error path forgets to release the lock.
EveryRequestAnswered == \A a \in Attempts : pc[a] = "queued" ~> pc[a] \in {"done", "lost"}
=============================================================================
