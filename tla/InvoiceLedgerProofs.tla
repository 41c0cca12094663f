------------------------- MODULE InvoiceLedgerProofs -------------------------
(***************************************************************************)
(* Facts about the operations of the store that the proofs about invoice   *)
(* issuance and about settlement share.                                    *)
(***************************************************************************)
EXTENDS InvoiceLedger, FiniteSetTheorems, TLAPS

\* The place holder of an attempt without a record is a record's terms.
LEMMA NoTermsType == NoTerms \in Terms
<1>1. Request # {}
  <2>1. PICK x \in Amounts, c \in AskedCycles : TRUE
    BY LedgerAssumption
  <2>2. [amount |-> x, cycle |-> c] \in Request
    BY DEF Request
  <2> QED BY <2>2
<1>2. (CHOOSE q \in Request : TRUE) \in Request
  BY <1>1
<1> QED BY <1>2 DEF NoTerms, Terms

\* The number a reservation gives a cycle is a natural number.
LEMMA NextCycleType ==
  ASSUME NEW st
  PROVE  /\ IsFiniteSet(CycleRecords(st))
         /\ Cardinality(CycleRecords(st)) \in Nat
         /\ NextCycle(st) \in Nat /\ CycleOf(st) \in Nat
<1>1. IsFiniteSet(CycleRecords(st))
  <2>1. CycleRecords(st) \subseteq Attempts
    BY DEF CycleRecords, Prior, Stored
  <2> QED BY <2>1, LedgerAssumption, FS_Subset
<1>2. Cardinality(CycleRecords(st)) \in Nat
  BY <1>1, FS_CardinalityType
<1> QED BY <1>1, <1>2 DEF NextCycle, CycleOf

\* Every operation of the store keeps the types of the ledger.
LEMMA LedgerTypes ==
  ASSUME LedgerTypeOK,
         NEW a \in Attempts, NEW k \in Keys \cup {NoKey}, NEW q \in Request,
         \/ Reserve(a, k, q)
         \/ \E b \in Attempts : Replay(k, q, b)
         \/ Refuse(a, k, q)
         \/ Lapse(a) \/ Finalize(a) \/ Abandon(a) \/ Revoke
         \/ UNCHANGED ledgerVars
  PROVE  LedgerTypeOK'
<1>p. Purged \in [Attempts -> Statuses]
  BY DEF LedgerTypeOK, Purged, Statuses
<1>1. CASE Reserve(a, k, q)
  <2>1. [key |-> k, request |-> q, cycle |-> CycleOf(Purged)] \in Terms
    BY NextCycleType DEF Terms
  <2> QED BY <1>p, <1>1, <2>1 DEF Reserve, LedgerTypeOK, Statuses
<1>2. CASE \E b \in Attempts : Replay(k, q, b)
  BY <1>p, <1>2 DEF Replay, LedgerTypeOK
<1>3. CASE Refuse(a, k, q)
  BY <1>p, <1>3 DEF Refuse, LedgerTypeOK
<1>4. CASE Lapse(a)
  BY <1>4 DEF Lapse, LedgerTypeOK
<1>5. CASE Finalize(a)
  BY <1>5 DEF Finalize, LedgerTypeOK, Statuses, SettlementStatuses
<1>6. CASE Abandon(a)
  BY <1>6 DEF Abandon, LedgerTypeOK, Statuses
<1>7. CASE Revoke
  BY <1>7 DEF Revoke, LedgerTypeOK
<1>8. CASE UNCHANGED ledgerVars
  BY <1>8 DEF ledgerVars, LedgerTypeOK
<1> QED BY <1>1, <1>2, <1>3, <1>4, <1>5, <1>6, <1>7, <1>8

-----------------------------------------------------------------------------
(* Caps. *)

\* A record has a cycle exactly when the offer is recurring.
CyclesCounted == \A a \in Stored(status) : Recurring <=> terms[a].cycle # 0

\* A smaller count costs no more.
LEMMA ProductMonotone ==
  ASSUME NEW m \in Nat, NEW n \in Nat, NEW c \in Nat, m <= n
  PROVE  m * c <= n * c
OBVIOUS

LEMMA FewerCycles ==
  ASSUME NEW S, NEW T, S \subseteq T, IsFiniteSet(T),
         Cardinality(T) <= CapCycles, Cardinality(T) * CycleAmount <= SpendingCap
  PROVE  Cardinality(S) <= CapCycles /\ Cardinality(S) * CycleAmount <= SpendingCap
<1>1. Cardinality(S) \in Nat /\ Cardinality(T) \in Nat /\ Cardinality(S) <= Cardinality(T)
  BY FS_Subset, FS_CardinalityType
<1>2. Cardinality(S) * CycleAmount <= Cardinality(T) * CycleAmount
  BY <1>1, ProductMonotone, LedgerAssumption
<1>3. Cardinality(S) * CycleAmount \in Nat /\ Cardinality(T) * CycleAmount \in Nat
  BY <1>1, LedgerAssumption
<1> QED BY <1>1, <1>2, <1>3, LedgerAssumption

LEMMA CapsInit == LedgerInit => CyclesCounted /\ CapsRespected
<1> SUFFICES ASSUME LedgerInit PROVE CyclesCounted /\ CapsRespected
  OBVIOUS
<1>1. Stored(status) = {} /\ CycleRecords(status) = {}
  BY DEF LedgerInit, Stored, CycleRecords, Prior
<1>2. Cardinality(CycleRecords(status)) = 0
  BY <1>1, FS_EmptySet
<1> QED BY <1>1, <1>2, LedgerAssumption DEF CyclesCounted, CapsRespected

\* An operation that adds no record and brings none back from failure.
LEMMA FewerKeepCaps ==
  ASSUME CyclesCounted, CapsRespected,
         \A a \in Stored(status') : a \in Stored(status) /\ terms'[a] = terms[a],
         \A a \in Attempts : status[a] = "invoice_failed" => status'[a] = "invoice_failed"
                                                         \/ a \notin Stored(status')
  PROVE  CyclesCounted' /\ CapsRespected'
<1>1. CyclesCounted'
  BY DEF CyclesCounted
<1>2. CycleRecords(status)' \subseteq CycleRecords(status)
  BY DEF CycleRecords, Prior, Stored
<1>3. IsFiniteSet(CycleRecords(status))
  BY NextCycleType
<1> QED BY <1>1, <1>2, <1>3, FewerCycles DEF CapsRespected

\* A reservation that passes recurrenceReservation leaves the caps intact:
\* the purged records are gone from the count that it checked.
LEMMA ReserveKeepsCaps ==
  ASSUME LedgerTypeOK, CyclesCounted, NEW a \in Attempts, NEW k \in Keys \cup {NoKey},
         NEW q \in Request, Reserve(a, k, q)
  PROVE  CyclesCounted' /\ CapsRespected'
<1>1. /\ \A b \in Attempts \ {a} : status'[b] = Purged[b] /\ terms'[b] = terms[b]
      /\ status[a] = "unused" /\ status'[a] = "invoice_pending" /\ Purged[a] = "unused"
      /\ terms'[a].cycle = CycleOf(Purged)
  BY DEF Reserve, LedgerTypeOK, Purged
<1>2. \A b \in Stored(status') \ {a} : b \in Stored(status)
  BY <1>1 DEF Stored, Purged
<1>3. Recurring <=> CycleOf(Purged) # 0
  BY NextCycleType DEF CycleOf, NextCycle
<1>4. CyclesCounted'
  <2>1. \A b \in Stored(status') : b \in Attempts
    BY DEF Stored
  <2> QED BY <1>1, <1>2, <1>3, <2>1 DEF CyclesCounted
<1>5. CASE ~Recurring
  <2>1. CycleRecords(status)' = {}
    BY <1>4, <1>5 DEF CycleRecords, Prior, CyclesCounted
  <2>2. Cardinality(CycleRecords(status)') = 0
    BY <2>1, FS_EmptySet
  <2> QED BY <1>4, <2>2, LedgerAssumption DEF CapsRespected
<1>6. CASE Recurring
  <2>1. CycleRecords(status)' = CycleRecords(Purged) \cup {a}
    BY <1>1, <1>3, <1>6 DEF CycleRecords, Prior, Stored
  <2>2. a \notin CycleRecords(Purged)
    BY <1>1 DEF CycleRecords, Prior, Stored
  <2>3. Cardinality(CycleRecords(status)') = NextCycle(Purged)
    BY <2>1, <2>2, NextCycleType, FS_AddElement DEF NextCycle
  <2>4. CycleAccepted(Purged, q)
    BY DEF Reserve, MayReserve
  <2> QED BY <1>4, <1>6, <2>3, <2>4 DEF CycleAccepted, CapsRespected
<1> QED BY <1>5, <1>6
=============================================================================
