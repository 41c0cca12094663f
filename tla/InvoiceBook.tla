----------------------------- MODULE InvoiceBook -----------------------------
(***************************************************************************)
(* What an offer promises about the invoices it yields, with nothing of    *)
(* how the resolver keeps the promise: no lock, no expiring reservation,   *)
(* no node, no process.                                                    *)
(*                                                                         *)
(*   - an invoice is issued only to an attempt admitted while the offer was*)
(*     open; closing the offer admits nobody else;                         *)
(*   - at most Limit invoices are ever issued;                             *)
(*   - at most one invoice is issued per idempotency key;                  *)
(*   - an issued invoice is never taken back, and an attempt that was      *)
(*     turned away never gets one.                                         *)
(***************************************************************************)
EXTENDS Naturals, FiniteSets

CONSTANTS Attempts, Keys, NoKey, Limit

VARIABLES closed, admitted, issued, turnedAway, keyOf

bookVars == <<closed, admitted, issued, turnedAway, keyOf>>

BookInit ==
  /\ closed = FALSE
  /\ admitted = {} /\ issued = {} /\ turnedAway = {}
  /\ keyOf \in [Attempts -> {NoKey}]

\* An attempt is admitted; admitted attempts whose time is over may leave.
Admit(a, k, gone) ==
  /\ ~closed
  /\ a \notin admitted \cup issued \cup turnedAway
  /\ gone \subseteq admitted
  /\ admitted' = (admitted \ gone) \cup {a}
  /\ turnedAway' = turnedAway \cup gone
  /\ keyOf' = [keyOf EXCEPT ![a] = k]
  /\ UNCHANGED <<closed, issued>>

TurnAway(gone) ==
  /\ gone \subseteq admitted
  /\ admitted' = admitted \ gone
  /\ turnedAway' = turnedAway \cup gone
  /\ UNCHANGED <<closed, issued, keyOf>>

Issue(a) ==
  /\ a \in admitted
  /\ Cardinality(issued) < Limit
  /\ \A b \in issued : keyOf[b] = keyOf[a] => keyOf[a] = NoKey
  /\ issued' = issued \cup {a}
  /\ admitted' = admitted \ {a}
  /\ UNCHANGED <<closed, turnedAway, keyOf>>

Close ==
  /\ closed' = TRUE
  /\ UNCHANGED <<admitted, issued, turnedAway, keyOf>>

BookNext ==
  \/ \E a \in Attempts, k \in Keys \cup {NoKey}, gone \in SUBSET Attempts : Admit(a, k, gone)
  \/ \E gone \in SUBSET Attempts : TurnAway(gone)
  \/ \E a \in Attempts : Issue(a)
  \/ Close

BookSpec == BookInit /\ [][BookNext]_bookVars
=============================================================================
