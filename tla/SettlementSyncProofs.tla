------------------------- MODULE SettlementSyncProofs -------------------------
(***************************************************************************)
(* Theorems about SettlementSync and BackgroundWorkers, for every value of *)
(* their constants.  With any number of writers: types, no more lost       *)
(* announcements than handlers cut short, and no more than one payable     *)
(* record of a single-use offer, nor more than the caps allow, unless a    *)
(* write revives a failed record.  While one writer works at a time none   *)
(* does: settled records stay settled.  And the passes of the background   *)
(* workers are nothing but such synchronisations.                          *)
(***************************************************************************)
EXTENDS BackgroundWorkers, InvoiceLedgerProofs

-----------------------------------------------------------------------------
(* Types. *)

LEMMA FiberStatusType ==
  ASSUME NEW n \in NodeStatuses
  PROVE  FiberStatus(n) \in SettlementStatuses
BY DEF FiberStatus, NodeStatuses, SettlementStatuses

LEMMA UpdateType ==
  ASSUME LedgerTypeOK, NEW a \in Attempts, NEW s \in SettlementStatuses, UpdateStatus(a, s)
  PROVE  LedgerTypeOK'
BY DEF UpdateStatus, LedgerTypeOK, Statuses

LEMMA SettlementTypeInit == Init => TypeOK
<1> SUFFICES ASSUME Init PROVE TypeOK
  OBVIOUS
<1>1. LedgerTypeOK
  BY NoTermsType DEF Init, LedgerInit, LedgerTypeOK, Statuses
<1> QED BY <1>1, SettlementAssumption
        DEF Init, TypeOK, NodeStatuses, Statuses, SettlementStatuses

LEMMA SettlementTypeNext == TypeOK /\ [Next]_vars => TypeOK'
<1> SUFFICES ASSUME TypeOK, [Next]_vars PROVE TypeOK'
  OBVIOUS
<1>t. LedgerTypeOK
  BY DEF TypeOK
<1>u. UNCHANGED ledgerVars => LedgerTypeOK'
  BY <1>t DEF ledgerVars, LedgerTypeOK
<1>1. ASSUME NEW w \in Writers, NEW a \in Attempts, NEW s \in Posted, PostStatus(w, a, s)
      PROVE  TypeOK'
  <2>1. s \in SettlementStatuses /\ status[a] \in Statuses
    BY SettlementAssumption, <1>t DEF LedgerTypeOK
  <2> QED BY <1>1, <1>u, <2>1 DEF PostStatus, TypeOK
<1>2. ASSUME NEW w \in Writers, NEW a \in Attempts, AskNode(w, a) PROVE TypeOK'
  <2>1. status[a] \in Statuses
    BY <1>t DEF LedgerTypeOK
  <2> QED BY <1>2, <1>u, <2>1 DEF AskNode, TypeOK
<1>3. ASSUME NEW w \in Writers, HearNode(w) PROVE TypeOK'
  <2>1. FiberStatus(node[target[w]]) \in SettlementStatuses
    BY FiberStatusType DEF TypeOK
  <2> HIDE DEF FiberStatus
  <2> QED BY <1>3, <1>u, <2>1 DEF HearNode, TypeOK
<1>4. ASSUME NEW w \in Writers, WriteStatus(w) PROVE TypeOK'
  <2>1. target[w] \in Attempts /\ next[w] \in SettlementStatuses
    BY DEF TypeOK
  <2>2. LedgerTypeOK'
    BY <1>4, <1>t, <1>u, <2>1, UpdateType DEF WriteStatus
  <2> QED BY <1>4, <2>2 DEF WriteStatus, TypeOK
<1>5. ASSUME NEW w \in Writers, PostEvent(w) PROVE TypeOK'
  BY <1>5, <1>u DEF PostEvent, TypeOK
<1>6. ASSUME NEW w \in Writers, NodeSilent(w) \/ WriterDies(w) PROVE TypeOK'
  BY <1>6, <1>u, SettlementAssumption DEF NodeSilent, WriterDies, TypeOK
<1>7. ASSUME NEW a \in Attempts, NEW k \in Keys \cup {NoKey}, NEW q \in Request,
             ReserveInvoice(a, k, q)
      PROVE  TypeOK'
  BY <1>7, <1>t, LedgerTypes DEF ReserveInvoice, settleVars, TypeOK
<1>8. ASSUME NEW a \in Attempts, IssueInvoice(a) PROVE TypeOK'
  <2>1. LedgerTypeOK'
    BY <1>8, <1>t DEF IssueInvoice, Finalize, LedgerTypeOK, Statuses, SettlementStatuses
  <2> QED BY <1>8, <2>1 DEF IssueInvoice, TypeOK, NodeStatuses
<1>9. ASSUME NEW a \in Attempts, DropReservation(a) PROVE TypeOK'
  <2>1. LedgerTypeOK'
    BY <1>9, <1>t DEF DropReservation, Abandon, LedgerTypeOK, Statuses
  <2> QED BY <1>9, <2>1 DEF DropReservation, settleVars, TypeOK
<1>10. ASSUME NEW a \in Attempts, NodeProgress(a) PROVE TypeOK'
  <2>1. NodeMoves[node[a]] \subseteq NodeStatuses
    BY <1>10 DEF NodeProgress, NodeMoves, NodeStatuses
  <2> QED BY <1>10, <1>u, <2>1 DEF NodeProgress, TypeOK
<1>11. CASE UNCHANGED vars
  BY <1>11, <1>u DEF vars, settleVars, TypeOK
<1> QED BY <1>1, <1>2, <1>3, <1>4, <1>5, <1>6, <1>7, <1>8, <1>9, <1>10, <1>11
        DEF Next, Writer, Issuance

\* Every variable keeps its type; in particular only the six settlement
\* statuses are ever written, whatever the node says.
THEOREM SettlementTypeCorrect == SafetySpec => []TypeOK
<1> QED BY SettlementTypeInit, SettlementTypeNext, PTL DEF SafetySpec

-----------------------------------------------------------------------------
(* What can still be paid, for any number of writers. *)

\* A single-use offer has one record that has not failed.
OneLive == SingleUse => \A a, b \in Prior(status) : a = b

RecordInv ==
  /\ \A a \in invoiced : status[a] \in SettlementStatuses
  /\ OneLive /\ CyclesCounted /\ CapsRespected

FailedStays == \A a \in Attempts : status[a] = "invoice_failed" => status'[a] = "invoice_failed"

\* What a step other than a write does to the records: one may be reserved
\* or finalised, and pending ones may go.
Unsettled(a) ==
  \/ status'[a] = status[a]
  \/ status[a] = "unused" /\ status'[a] = "invoice_pending"
  \/ status[a] = "invoice_pending" /\ status'[a] \in {"invoice_created", "removed"}

\* The operations of issuance settle nothing and add to no count unseen.
LEMMA IssuanceStep ==
  ASSUME TypeOK, RecordInv, Issuance
  PROVE  /\ \A a \in Attempts : Unsettled(a)
         /\ UNCHANGED <<at, target, seen, next>>
         /\ \A a \in invoiced' : status'[a] \in SettlementStatuses
         /\ invoiced \subseteq invoiced'
         /\ OneLive' /\ CyclesCounted' /\ CapsRespected'
<1> DEFINE Goal ==
      /\ \A a \in Attempts : Unsettled(a)
      /\ UNCHANGED <<at, target, seen, next>>
      /\ \A a \in invoiced' : status'[a] \in SettlementStatuses
      /\ invoiced \subseteq invoiced'
      /\ OneLive' /\ CyclesCounted' /\ CapsRespected'
<1>t. LedgerTypeOK /\ invoiced \subseteq Attempts
  BY DEF TypeOK
<1>i. /\ \A a \in invoiced : status[a] \in SettlementStatuses
      /\ OneLive /\ CyclesCounted /\ CapsRespected
  BY DEF RecordInv
<1>1. ASSUME NEW a \in Attempts, NEW k \in Keys \cup {NoKey}, NEW q \in Request,
             ReserveInvoice(a, k, q)
      PROVE  Goal
  <2>1. Reserve(a, k, q) /\ UNCHANGED settleVars
    BY <1>1 DEF ReserveInvoice
  <2>2. /\ \A b \in Attempts \ {a} : status'[b] = Purged[b] /\ terms'[b] = terms[b]
        /\ status[a] = "unused" /\ status'[a] = "invoice_pending"
    BY <1>t, <2>1 DEF Reserve, LedgerTypeOK, Purged
  <2>3. \A b \in Attempts : Unsettled(b)
    BY <2>2 DEF Unsettled, Purged
  <2>4. OneLive'
    <3>1. SingleUse => Prior(Purged) = {}
      BY <2>1 DEF Reserve, MayReserve
    <3>2. SingleUse => Prior(status') \subseteq {a}
      BY <2>2, <3>1 DEF Prior, Stored
    <3> QED BY <3>2 DEF OneLive
  <2>5. \A b \in invoiced' : status'[b] \in SettlementStatuses
    BY <1>t, <1>i, <2>1, <2>3 DEF settleVars, Unsettled, SettlementStatuses
  <2>6. CyclesCounted' /\ CapsRespected'
    BY <1>t, <1>i, <2>1, ReserveKeepsCaps
  <2> QED BY <2>1, <2>3, <2>4, <2>5, <2>6 DEF settleVars
<1>2. ASSUME NEW a \in Attempts, IssueInvoice(a) PROVE Goal
  <2>1. /\ status[a] = "invoice_pending" /\ status' = [status EXCEPT ![a] = "invoice_created"]
        /\ terms' = terms /\ invoiced' = invoiced \cup {a} /\ UNCHANGED <<at, target, seen, next>>
    BY <1>2 DEF IssueInvoice, Finalize
  <2>2. \A b \in Attempts : Unsettled(b)
    BY <1>t, <2>1 DEF Unsettled, LedgerTypeOK
  <2>3. Prior(status)' = Prior(status) /\ Stored(status)' = Stored(status)
    BY <1>t, <2>1 DEF Prior, Stored, LedgerTypeOK
  <2>4. OneLive'
    BY <1>i, <2>3 DEF OneLive
  <2>5. CyclesCounted' /\ CapsRespected'
    <3>1. CycleRecords(status)' = CycleRecords(status)
      BY <2>1, <2>3 DEF CycleRecords
    <3> QED BY <1>i, <2>1, <2>3, <3>1 DEF CyclesCounted, CapsRespected
  <2>6. \A b \in invoiced' : status'[b] \in SettlementStatuses
    BY <1>t, <1>i, <2>1 DEF SettlementStatuses, LedgerTypeOK
  <2> QED BY <2>1, <2>2, <2>4, <2>5, <2>6
<1>3. ASSUME NEW a \in Attempts, DropReservation(a) PROVE Goal
  <2>1. /\ status[a] = "invoice_pending" /\ status' = [status EXCEPT ![a] = "removed"]
        /\ terms' = terms /\ UNCHANGED settleVars
    BY <1>3 DEF DropReservation, Abandon
  <2>2. \A b \in Attempts : Unsettled(b)
    BY <1>t, <2>1 DEF Unsettled, LedgerTypeOK
  <2>3. \A b \in Stored(status') : b \in Stored(status) /\ terms'[b] = terms[b]
    BY <1>t, <2>1 DEF Stored, LedgerTypeOK
  <2>4. \A b \in Prior(status') : b \in Prior(status)
    BY <1>t, <2>1 DEF Prior, Stored, LedgerTypeOK
  <2>5. CyclesCounted' /\ CapsRespected'
    BY <1>i, <2>2, <2>3, FewerKeepCaps DEF Unsettled
  <2>6. \A b \in invoiced' : status'[b] \in SettlementStatuses
    BY <1>t, <1>i, <2>1 DEF settleVars, SettlementStatuses, LedgerTypeOK
  <2> QED BY <1>i, <2>1, <2>2, <2>4, <2>5, <2>6 DEF OneLive, settleVars
<1> QED BY <1>1, <1>2, <1>3 DEF Issuance

\* A write that revives no failed record adds to no count.
LEMMA WriteStep ==
  ASSUME TypeOK, RecordInv, NEW w \in Writers, UpdateStatus(target[w], next[w]),
         UNCHANGED invoiced, FailedStays
  PROVE  RecordInv'
<1> DEFINE a == target[w]
<1>1. /\ a \in Stored(status) /\ status' = [status EXCEPT ![a] = next[w]] /\ terms' = terms
      /\ a \in Attempts /\ status \in [Attempts -> Statuses] /\ invoiced \subseteq Attempts
      /\ next[w] \in SettlementStatuses
  BY DEF UpdateStatus, StatusWritable, TypeOK, LedgerTypeOK
<1> HIDE DEF a
<1>2. \A b \in invoiced' : status'[b] \in SettlementStatuses
  BY <1>1 DEF RecordInv
<1>3. \A b \in Stored(status') : b \in Stored(status) /\ terms'[b] = terms[b]
  BY <1>1 DEF Stored
<1>4. \A b \in Prior(status') : b \in Prior(status)
  BY <1>3 DEF Prior, Stored, FailedStays
<1>5. CyclesCounted' /\ CapsRespected'
  BY <1>3, FewerKeepCaps DEF RecordInv, FailedStays
<1> QED BY <1>2, <1>4, <1>5 DEF RecordInv, OneLive

LEMMA RecordsNext ==
  ASSUME TypeOK, RecordInv, [Next]_vars, FailedStays
  PROVE  RecordInv'
<1>1. CASE Issuance
  BY <1>1, IssuanceStep DEF RecordInv
<1>q. ASSUME UNCHANGED <<ledgerVars, invoiced>> PROVE RecordInv'
  BY <1>q DEF RecordInv, ledgerVars, OneLive, CyclesCounted, CapsRespected, Prior, Stored,
     CycleRecords
<1>2. ASSUME NEW a \in Attempts, NodeProgress(a) PROVE RecordInv'
  BY <1>2, <1>q DEF NodeProgress
<1>3. ASSUME NEW w \in Writers, WriteStatus(w) PROVE RecordInv'
  BY <1>3, <1>q, WriteStep DEF WriteStatus
<1>4. ASSUME NEW w \in Writers, Writer(w), ~WriteStatus(w) PROVE RecordInv'
  BY <1>4, <1>q DEF Writer, PostStatus, AskNode, HearNode, NodeSilent, PostEvent, WriterDies
<1>5. CASE UNCHANGED vars
  BY <1>5, <1>q DEF vars, settleVars
<1> QED BY <1>1, <1>2, <1>3, <1>4, <1>5 DEF Next

LEMMA RecordsInit == Init => RecordInv
<1> SUFFICES ASSUME Init PROVE RecordInv
  OBVIOUS
<1>1. Prior(status) = {} /\ invoiced = {}
  BY DEF Init, LedgerInit, Prior, Stored
<1> QED BY <1>1, CapsInit DEF Init, RecordInv, OneLive

LEMMA RecordsOnce == RecordInv => SingleUseLive /\ CapsRespected
<1> SUFFICES ASSUME RecordInv, SingleUse PROVE Cardinality(Prior(status)) <= 1
  BY DEF RecordInv, SingleUseLive
<1>1. \A a, b \in Prior(status) : a = b
  BY DEF RecordInv, OneLive
<1>2. CASE Prior(status) = {}
  BY <1>2, FS_EmptySet
<1>3. CASE Prior(status) # {}
  <2>1. PICK a \in Prior(status) : TRUE
    BY <1>3
  <2>2. Prior(status) = {a}
    BY <1>1, <2>1
  <2>3. Cardinality({a}) = 1
    BY FS_Singleton
  <2> QED BY <2>2, <2>3
<1> QED BY <1>2, <1>3

\* However many writers write over one another: a single-use offer has one
\* record that can be paid and the caps hold, as long as no write revives a
\* failed record.  Its place may have been given away; nothing else that races
\* do to the statuses matters here.
THEOREM RevivalAloneBreaksCaps ==
  SafetySpec /\ [][FailedStays]_vars => [](SingleUseLive /\ CapsRespected)
<1>1. UNCHANGED vars => FailedStays
  BY DEF vars, ledgerVars, FailedStays
<1>2. TypeOK /\ RecordInv /\ [Next]_vars /\ [FailedStays]_vars => RecordInv'
  BY <1>1, RecordsNext
<1> QED BY <1>2, RecordsInit, RecordsOnce, SettlementTypeCorrect, PTL DEF SafetySpec

-----------------------------------------------------------------------------
(* The numbers of the cycles, for any number of writers. *)

\* The reading of Accounted that the steps preserve: N are the numbers of n
\* records, and f records have failed.
Missing(N, n, f) == \A c \in N \cup {n} : Cardinality((1 .. c) \ N) <= f

LEMMA MissingFewer ==
  ASSUME NEW N, NEW c \in Nat, NEW M, NEW f \in Nat,
         Cardinality((1 .. c) \ N) <= f, M \subseteq (1 .. c) \ N
  PROVE  Cardinality(M) <= f
<1>1. IsFiniteSet(1 .. c)
  BY FS_Interval
<1>2. IsFiniteSet((1 .. c) \ N)
  BY <1>1, FS_Subset
<1>3. Cardinality(M) <= Cardinality((1 .. c) \ N)
  BY <1>2, FS_Subset
<1>4. Cardinality(M) \in Nat /\ Cardinality((1 .. c) \ N) \in Nat
  BY <1>2, FS_Subset, FS_CardinalityType
<1> QED BY <1>3, <1>4

\* A new record takes the number after the count.
LEMMA MissingAdd ==
  ASSUME NEW N \in SUBSET Nat, NEW n \in Nat, NEW f \in Nat, Missing(N, n, f)
  PROVE  Missing(N \cup {n + 1}, n + 1, f)
<1> SUFFICES ASSUME NEW c \in N \cup {n + 1}
             PROVE  Cardinality((1 .. c) \ (N \cup {n + 1})) <= f
  BY DEF Missing
<1>1. CASE c \in N
  <2>1. (1 .. c) \ (N \cup {n + 1}) \subseteq (1 .. c) \ N
    OBVIOUS
  <2> QED BY <1>1, <2>1, MissingFewer DEF Missing
<1>2. CASE c = n + 1
  <2>1. (1 .. c) \ (N \cup {n + 1}) \subseteq (1 .. n) \ N
    BY <1>2
  <2> QED BY <2>1, MissingFewer DEF Missing
<1> QED BY <1>1, <1>2

\* A record that fails may take its number m with it, and is one more failure.
LEMMA MissingRemove ==
  ASSUME NEW N \in SUBSET Nat, NEW n \in Nat, NEW f \in Nat, Missing(N, n + 1, f),
         NEW m, NEW P, N \ {m} \subseteq P, P \subseteq N
  PROVE  Missing(P, n, f + 1)
<1> SUFFICES ASSUME NEW c \in P \cup {n} PROVE Cardinality((1 .. c) \ P) <= f + 1
  BY DEF Missing
<1>1. PICK d \in N \cup {n + 1} : c <= d /\ d \in Nat
  <2>1. CASE c \in P
    BY <2>1
  <2>2. CASE c = n
    <3>1. n + 1 \in N \cup {n + 1} /\ c <= n + 1 /\ n + 1 \in Nat
      BY <2>2
    <3> QED BY <3>1
  <2> QED BY <2>1, <2>2
<1> DEFINE D == (1 .. d) \ N
<1>2. IsFiniteSet(D) /\ Cardinality(D) <= f /\ Cardinality(D) \in Nat
  <2>1. IsFiniteSet(1 .. d)
    BY <1>1, FS_Interval
  <2>2. IsFiniteSet(D)
    BY <2>1, FS_Subset
  <2>3. Cardinality(D) <= f
    BY <1>1 DEF Missing
  <2> QED BY <2>2, <2>3, FS_CardinalityType
<1>3. (1 .. c) \ P \subseteq D \cup {m}
  BY <1>1
<1> HIDE DEF D
<1>4. /\ IsFiniteSet(D \cup {m})
      /\ Cardinality(D \cup {m}) \in {Cardinality(D), Cardinality(D) + 1}
  BY <1>2, FS_AddElement
<1>5. Cardinality((1 .. c) \ P) <= Cardinality(D \cup {m})
  BY <1>3, <1>4, FS_Subset
<1>6. Cardinality((1 .. c) \ P) \in Nat
  BY <1>3, <1>4, FS_Subset, FS_CardinalityType
<1> QED BY <1>2, <1>4, <1>5, <1>6

\* The cycles that can be paid, and those of them that have an invoice.
Pending == {a \in Attempts : status[a] = "invoice_pending"}
Live == CycleRecords(status)
Issued == Live \ Pending
LiveNumbers == Numbers(Live)
IssuedNumbers == Numbers(Issued)

\* A reservation may be dropped without a trace, so what counts must also be
\* right without the one that is pending.
CycleInv == Recurring =>
  /\ lapsed = {}
  /\ \A a, b \in Pending : a = b
  /\ Missing(LiveNumbers, Cardinality(Live), Cardinality(Failed))
  /\ Missing(IssuedNumbers, Cardinality(Issued), Cardinality(Failed))

LEMMA CycleSets ==
  ASSUME LedgerTypeOK
  PROVE  /\ IsFiniteSet(Live) /\ Cardinality(Live) \in Nat
         /\ IsFiniteSet(Issued) /\ Cardinality(Issued) \in Nat
         /\ IsFiniteSet(Failed) /\ Cardinality(Failed) \in Nat
         /\ Live \subseteq Attempts /\ Issued \subseteq Live
         /\ LiveNumbers \subseteq Nat /\ IssuedNumbers \subseteq Nat
<1>1. Live \subseteq Attempts /\ Issued \subseteq Live /\ Failed \subseteq Attempts
  BY DEF Live, Issued, Failed, CycleRecords, Prior, Stored
<1>2. IsFiniteSet(Live) /\ IsFiniteSet(Failed)
  BY <1>1, LedgerAssumption, FS_Subset
<1>3. IsFiniteSet(Issued)
  BY <1>1, <1>2, FS_Subset
<1>4. \A a \in Attempts : terms[a].cycle \in Nat
  BY DEF LedgerTypeOK, Terms
<1>5. LiveNumbers \subseteq Nat /\ IssuedNumbers \subseteq Nat
  BY <1>1, <1>4 DEF LiveNumbers, IssuedNumbers, Numbers
<1> QED BY <1>1, <1>2, <1>3, <1>5, FS_CardinalityType

\* A set of records S loses b, which fails.
LEMMA FailureTakesOne ==
  ASSUME LedgerTypeOK, NEW S \in SUBSET Attempts, NEW b \in S,
         Missing(Numbers(S), Cardinality(S), Cardinality(Failed))
  PROVE  Missing(Numbers(S \ {b}), Cardinality(S \ {b}), Cardinality(Failed) + 1)
<1>1. IsFiniteSet(S) /\ Cardinality(S) \in Nat
  BY LedgerAssumption, FS_Subset, FS_CardinalityType
<1>2. Cardinality(S \ {b}) = Cardinality(S) - 1 /\ Cardinality(S \ {b}) \in Nat
  BY <1>1, FS_RemoveElement, FS_CardinalityType
<1>3. Numbers(S) \in SUBSET Nat
  BY DEF Numbers, LedgerTypeOK, Terms
<1>4. /\ Numbers(S) \ {terms[b].cycle} \subseteq Numbers(S \ {b})
      /\ Numbers(S \ {b}) \subseteq Numbers(S)
  BY DEF Numbers
<1>5. Missing(Numbers(S), Cardinality(S \ {b}) + 1, Cardinality(Failed))
  BY <1>1, <1>2
<1>6. Cardinality(Failed) \in Nat
  BY CycleSets
<1> QED BY <1>2, <1>3, <1>4, <1>5, <1>6, MissingRemove

\* A reservation in the single-process store: nothing else is pending.
LEMMA ReserveNumbers ==
  ASSUME TypeOK, CyclesCounted, CycleInv, Recurring, ~Transactional,
         NEW a \in Attempts, NEW k \in Keys \cup {NoKey}, NEW q \in Request,
         ReserveInvoice(a, k, q)
  PROVE  CycleInv'
<1>t. LedgerTypeOK /\ status \in [Attempts -> Statuses] /\ terms \in [Attempts -> Terms]
  BY DEF TypeOK, LedgerTypeOK
<1>1. Pending = {} /\ lapsed = {} /\ Reserve(a, k, q)
  BY DEF ReserveInvoice, Pending, CycleInv
<1>2. Purged = status
  BY <1>t, <1>1 DEF Purged
<1>3. /\ status[a] = "unused" /\ status' = [status EXCEPT ![a] = "invoice_pending"]
      /\ terms'[a].cycle = Cardinality(Live) + 1
      /\ \A b \in Attempts \ {a} : terms'[b] = terms[b]
      /\ lapsed' = {}
  BY <1>t, <1>1, <1>2 DEF Reserve, CycleOf, NextCycle, Live
<1>4. Cardinality(Live) \in Nat /\ IsFiniteSet(Live) /\ LiveNumbers \in SUBSET Nat
      /\ Cardinality(Failed) \in Nat
  BY <1>t, CycleSets
<1>5. Live' = Live \cup {a} /\ a \notin Live /\ Live \subseteq Attempts
  BY <1>t, <1>3, <1>4 DEF Live, CycleRecords, Prior, Stored
<1>6. Pending' = {a} /\ Issued = Live /\ Issued' = Live /\ Failed' = Failed
  BY <1>t, <1>1, <1>3, <1>5 DEF Pending, Issued, Failed, Stored
<1>7. LiveNumbers' = LiveNumbers \cup {Cardinality(Live) + 1}
  BY <1>3, <1>5 DEF LiveNumbers, Numbers
<1>8. IssuedNumbers' = LiveNumbers
  BY <1>3, <1>5, <1>6 DEF LiveNumbers, IssuedNumbers, Numbers
<1>9. Cardinality(Live') = Cardinality(Live) + 1
  BY <1>4, <1>5, FS_AddElement
<1>10. Missing(LiveNumbers, Cardinality(Live), Cardinality(Failed))
  BY DEF CycleInv
<1>11. Missing(LiveNumbers', Cardinality(Live'), Cardinality(Failed'))
  BY <1>4, <1>6, <1>7, <1>9, <1>10, MissingAdd
<1> QED BY <1>3, <1>6, <1>8, <1>10, <1>11 DEF CycleInv

\* A write that revives no failed record.
LEMMA WriteNumbers ==
  ASSUME TypeOK, CyclesCounted, CycleInv, Recurring, NEW b \in Attempts,
         NEW s \in SettlementStatuses, UpdateStatus(b, s), FailedStays
  PROVE  CycleInv'
<1>t. LedgerTypeOK /\ status \in [Attempts -> Statuses]
  BY DEF TypeOK, LedgerTypeOK
<1>1. /\ b \in Stored(status) /\ status' = [status EXCEPT ![b] = s] /\ terms' = terms
      /\ lapsed' = {} /\ status'[b] = s
  BY <1>t DEF UpdateStatus, StatusWritable, CycleInv
<1>2. /\ \A a, c \in Pending : a = c
      /\ Missing(LiveNumbers, Cardinality(Live), Cardinality(Failed))
      /\ Missing(IssuedNumbers, Cardinality(Issued), Cardinality(Failed))
  BY DEF CycleInv
<1>3. Pending' = Pending \ {b}
  BY <1>t, <1>1 DEF Pending, SettlementStatuses
<1>4. CASE status[b] = "invoice_failed"
  <2>1. status' = status
    BY <1>t, <1>1, <1>4 DEF FailedStays
  <2> QED BY <1>1, <1>2, <2>1 DEF CycleInv, Pending, Live, Issued, LiveNumbers, IssuedNumbers,
          Numbers, CycleRecords, Prior, Failed
<1>5. CASE status[b] # "invoice_failed"
  <2>1. b \in Live
    BY <1>1, <1>5 DEF Live, CycleRecords, Prior, CyclesCounted
  <2>2. CASE s # "invoice_failed"
    <3>1. Live' = Live /\ Failed' = Failed
      BY <1>t, <1>1, <1>5, <2>2 DEF Live, CycleRecords, Prior, Failed, Stored, SettlementStatuses
    <3>2. LiveNumbers' = LiveNumbers
      BY <1>1, <3>1 DEF LiveNumbers, Numbers
    <3>3. Issued' \in {Issued, Live}
      BY <1>2, <1>3, <3>1 DEF Issued
    <3>4. \/ Issued' = Issued /\ IssuedNumbers' = IssuedNumbers
          \/ Issued' = Live /\ IssuedNumbers' = LiveNumbers
      BY <1>1, <3>3 DEF IssuedNumbers, LiveNumbers, Numbers
    <3> QED BY <1>1, <1>2, <1>3, <3>1, <3>2, <3>4 DEF CycleInv
  <2>3. CASE s = "invoice_failed"
    <3>1. Live' = Live \ {b} /\ Failed' = Failed \cup {b} /\ b \notin Failed
      BY <1>t, <1>1, <1>5, <2>3 DEF Live, CycleRecords, Prior, Failed, Stored
    <3>2. Cardinality(Failed') = Cardinality(Failed) + 1
      BY <1>t, <3>1, CycleSets, FS_AddElement
    <3>3. LiveNumbers' = Numbers(Live \ {b})
      BY <1>1, <3>1 DEF LiveNumbers, Numbers
    <3>4. Missing(LiveNumbers', Cardinality(Live'), Cardinality(Failed'))
      BY <1>t, <1>2, <2>1, <3>1, <3>2, <3>3, CycleSets, FailureTakesOne DEF LiveNumbers
    <3>5. CASE b \in Pending
      <4>1. Pending = {b} /\ Pending' = {}
        BY <1>2, <1>3, <3>5
      <4>2. Issued' = Live'
        BY <4>1 DEF Issued
      <4>3. IssuedNumbers' = LiveNumbers'
        BY <4>2 DEF IssuedNumbers, LiveNumbers
      <4> QED BY <1>1, <3>4, <4>1, <4>2, <4>3 DEF CycleInv
    <3>6. CASE b \notin Pending
      <4>1. b \in Issued /\ Issued' = Issued \ {b} /\ Pending' = Pending
        BY <1>3, <2>1, <3>1, <3>6 DEF Issued
      <4>2. IssuedNumbers' = Numbers(Issued \ {b})
        BY <1>1, <4>1 DEF IssuedNumbers, Numbers
      <4>3. Missing(IssuedNumbers', Cardinality(Issued'), Cardinality(Failed'))
        BY <1>t, <1>2, <3>2, <4>1, <4>2, CycleSets, FailureTakesOne DEF IssuedNumbers
      <4> QED BY <1>1, <1>2, <3>4, <4>1, <4>3 DEF CycleInv
    <3> QED BY <3>5, <3>6
  <2> QED BY <2>2, <2>3
<1> QED BY <1>4, <1>5

LEMMA CycleNext ==
  ASSUME TypeOK, RecordInv, CycleInv, ~Transactional, [Next]_vars, FailedStays
  PROVE  CycleInv'
<1> SUFFICES ASSUME Recurring PROVE CycleInv'
  BY DEF CycleInv
<1>t. LedgerTypeOK /\ status \in [Attempts -> Statuses] /\ CyclesCounted
  BY DEF TypeOK, LedgerTypeOK, RecordInv
<1>q. ASSUME UNCHANGED ledgerVars PROVE CycleInv'
  BY <1>q DEF CycleInv, ledgerVars, Pending, Live, Issued, LiveNumbers, IssuedNumbers, Numbers,
     CycleRecords, Prior, Stored, Failed
<1>1. ASSUME NEW a \in Attempts, NEW k \in Keys \cup {NoKey}, NEW q \in Request,
             ReserveInvoice(a, k, q)
      PROVE  CycleInv'
  BY <1>1, <1>t, ReserveNumbers
<1>2. ASSUME NEW a \in Attempts, IssueInvoice(a) \/ DropReservation(a) PROVE CycleInv'
  <2>1. /\ a \in Pending /\ terms' = terms /\ lapsed' = {} /\ Pending = {a}
        /\ Missing(LiveNumbers, Cardinality(Live), Cardinality(Failed))
        /\ Missing(IssuedNumbers, Cardinality(Issued), Cardinality(Failed))
    BY <1>2 DEF IssueInvoice, DropReservation, Finalize, Abandon, Pending, CycleInv
  <2>2. Pending' = {} /\ Failed' = Failed
    BY <1>2, <1>t, <2>1 DEF IssueInvoice, DropReservation, Finalize, Abandon, Pending, Failed, Stored
  <2>3. Issued' = Live'
    BY <2>2 DEF Issued
  <2>4. Live' \in {Live, Issued}
    BY <1>2, <1>t, <2>1 DEF IssueInvoice, DropReservation, Finalize, Abandon, Live, Issued,
       CycleRecords, Prior, Stored
  <2>5. \/ Live' = Live /\ LiveNumbers' = LiveNumbers /\ IssuedNumbers' = LiveNumbers
        \/ Live' = Issued /\ LiveNumbers' = IssuedNumbers /\ IssuedNumbers' = IssuedNumbers
    BY <2>1, <2>3, <2>4 DEF LiveNumbers, IssuedNumbers, Numbers
  <2> QED BY <2>1, <2>2, <2>3, <2>5 DEF CycleInv
<1>3. ASSUME NEW w \in Writers, WriteStatus(w) PROVE CycleInv'
  <2>1. target[w] \in Attempts /\ next[w] \in SettlementStatuses
    BY DEF TypeOK
  <2> QED BY <1>3, <1>q, <1>t, <2>1, WriteNumbers DEF WriteStatus
<1>4. ASSUME NEW w \in Writers, Writer(w), ~WriteStatus(w) PROVE CycleInv'
  BY <1>4, <1>q DEF Writer, PostStatus, AskNode, HearNode, NodeSilent, PostEvent, WriterDies
<1>5. ASSUME NEW a \in Attempts, NodeProgress(a) PROVE CycleInv'
  BY <1>5, <1>q DEF NodeProgress
<1>6. CASE UNCHANGED vars
  BY <1>6, <1>q DEF vars
<1> QED BY <1>1, <1>2, <1>3, <1>4, <1>5, <1>6 DEF Next, Issuance

LEMMA CycleInit == Init => CycleInv
<1> SUFFICES ASSUME Init PROVE CycleInv
  OBVIOUS
<1>1. lapsed = {} /\ Pending = {} /\ Live = {} /\ Issued = {} /\ Failed = {}
  BY DEF Init, LedgerInit, Pending, Live, Issued, Failed, CycleRecords, Prior, Stored
<1>2. LiveNumbers = {} /\ IssuedNumbers = {}
  BY <1>1 DEF LiveNumbers, IssuedNumbers, Numbers
<1>3. Cardinality({}) = 0
  BY FS_EmptySet
<1>4. Missing({}, 0, 0)
  <2>1. (1 .. 0) \ {} = {}
    OBVIOUS
  <2> QED BY <1>3, <2>1 DEF Missing
<1> QED BY <1>1, <1>2, <1>3, <1>4 DEF CycleInv

\* In the single-process store a failed record costs the sequence of cycles
\* one number and no more, however many writers race and however many
\* reservations are dropped, as long as no write revives a failed record.
THEOREM CyclesStayAccounted ==
  ~Transactional => (SafetySpec /\ [][FailedStays]_vars => []CyclesAccounted)
<1> SUFFICES ASSUME ~Transactional
             PROVE  SafetySpec /\ [][FailedStays]_vars => []CyclesAccounted
  OBVIOUS
<1>1. UNCHANGED vars => FailedStays
  BY DEF vars, ledgerVars, FailedStays
<1>2. TypeOK /\ RecordInv /\ [Next]_vars /\ [FailedStays]_vars => RecordInv'
  BY <1>1, RecordsNext
<1>3. TypeOK /\ RecordInv /\ CycleInv /\ [Next]_vars /\ [FailedStays]_vars => CycleInv'
  BY <1>1, CycleNext
<1>4. CycleInv => CyclesAccounted
  BY DEF CycleInv, CyclesAccounted, Accounted, Missing, LiveNumbers, Live
<1> QED BY <1>2, <1>3, <1>4, RecordsInit, CycleInit, SettlementTypeCorrect, PTL DEF SafetySpec

-----------------------------------------------------------------------------
(* One writer at a time. *)

OneWriter == \A v, w \in Writers : v = w

\* While the only writer is between its read and its write, nobody else can
\* have settled its record: issuance moves records that are pending or new.
WriterInv ==
  \A w \in Writers :
    /\ at[w] = "asking" => target[w] \in invoiced /\ status[target[w]] = seen[w]
    /\ at[w] = "writing" =>
         (status[target[w]] \in TerminalStatuses => status[target[w]] = next[w])

IInv == RecordInv /\ WriterInv

Frozen == \A a \in Attempts : status[a] \in TerminalStatuses => status'[a] = status[a]

LEMMA OneWriterNext ==
  ASSUME OneWriter, TypeOK, IInv, [Next]_vars
  PROVE  IInv' /\ Frozen
<1> SUFFICES WriterInv' /\ Frozen
  <2>1. Frozen => FailedStays
    BY DEF Frozen, FailedStays, TerminalStatuses
  <2> QED BY <2>1, RecordsNext DEF IInv
<1>i. WriterInv
  BY DEF IInv
<1>q. UNCHANGED ledgerVars => Frozen
  BY DEF ledgerVars, Frozen
<1>1. CASE Issuance
  <2>1. /\ \A a \in Attempts : Unsettled(a)
        /\ UNCHANGED <<at, target, seen, next>>
        /\ \A a \in invoiced : status[a] \in SettlementStatuses
        /\ invoiced \subseteq invoiced'
    BY <1>1, IssuanceStep DEF IInv, RecordInv
  <2>2. Frozen
    BY <2>1 DEF Frozen, Unsettled, TerminalStatuses
  <2>3. \A w \in Writers : target[w] \in Attempts
    BY DEF TypeOK
  <2>4. WriterInv'
    BY <1>i, <2>1, <2>3 DEF WriterInv, Unsettled, TerminalStatuses, SettlementStatuses
  <2> QED BY <2>2, <2>4
<1>2. ASSUME NEW a \in Attempts, NodeProgress(a) PROVE WriterInv' /\ Frozen
  BY <1>2, <1>i, <1>q DEF NodeProgress, WriterInv, ledgerVars
<1>3. ASSUME NEW w \in Writers, NEW a \in Attempts, NEW s \in Posted, PostStatus(w, a, s)
      PROVE  WriterInv' /\ Frozen
  BY <1>3, <1>i, <1>q DEF PostStatus, WriterInv, ledgerVars, TypeOK, OneWriter, TransitionAllowed
<1>4. ASSUME NEW w \in Writers, NEW a \in Attempts, AskNode(w, a) PROVE WriterInv' /\ Frozen
  BY <1>4, <1>i, <1>q DEF AskNode, WriterInv, ledgerVars, TypeOK, OneWriter
<1>5. ASSUME NEW w \in Writers, HearNode(w) PROVE WriterInv' /\ Frozen
  <2> DEFINE learned == FiberStatus(node[target[w]])
  <2> HIDE DEF learned
  <2>1. /\ at[w] = "asking" /\ UNCHANGED <<ledgerVars, invoiced, target, seen>>
        /\ \/ /\ TransitionAllowed(seen[w], learned)
              /\ at' = [at EXCEPT ![w] = "writing"] /\ next' = [next EXCEPT ![w] = learned]
           \/ at' = [at EXCEPT ![w] = "idle"] /\ next' = next
    BY <1>5 DEF HearNode, learned
  <2> QED BY <2>1, <1>i, <1>q DEF WriterInv, ledgerVars, TypeOK, OneWriter, TransitionAllowed
<1>6. ASSUME NEW w \in Writers, WriteStatus(w) PROVE WriterInv' /\ Frozen
  <2>1. CASE UpdateStatus(target[w], next[w]) /\ at' = [at EXCEPT ![w] = "posting"]
    <3>1. at[w] = "writing" /\ status' = [status EXCEPT ![target[w]] = next[w]]
      BY <1>6, <2>1 DEF WriteStatus, UpdateStatus
    <3>2. Frozen
      BY <1>i, <3>1 DEF WriterInv, Frozen, TypeOK, LedgerTypeOK
    <3>3. \A v \in Writers : at'[v] = "posting"
      BY <2>1 DEF TypeOK, OneWriter
    <3> QED BY <3>2, <3>3 DEF WriterInv
  <2>2. CASE at' = [at EXCEPT ![w] = "idle"] /\ UNCHANGED ledgerVars
    BY <1>6, <2>2, <1>i, <1>q DEF WriteStatus, WriterInv, ledgerVars, TypeOK
  <2> QED BY <1>6, <2>1, <2>2 DEF WriteStatus
<1>7. ASSUME NEW w \in Writers, NodeSilent(w) \/ PostEvent(w) \/ WriterDies(w)
      PROVE  WriterInv' /\ Frozen
  BY <1>7, <1>i, <1>q DEF NodeSilent, PostEvent, WriterDies, WriterInv, ledgerVars, TypeOK
<1>8. CASE UNCHANGED vars
  BY <1>8, <1>i, <1>q DEF vars, settleVars, WriterInv, ledgerVars
<1> QED BY <1>1, <1>2, <1>3, <1>4, <1>5, <1>6, <1>7, <1>8 DEF Next, Writer

\* With one writer at a time a record that is paid, expired, failed or
\* cancelled never changes again, for any number of records and restarts.
THEOREM SettledStaysSettled == OneWriter => (SafetySpec => TerminalFrozen)
<1> SUFFICES ASSUME OneWriter PROVE SafetySpec => TerminalFrozen
  OBVIOUS
<1>1. Init => IInv
  BY RecordsInit DEF Init, IInv, WriterInv
<1>2. TypeOK /\ IInv /\ [Next]_vars => IInv'
  BY OneWriterNext
<1>3. TypeOK /\ IInv /\ [Next]_vars =>
        [\A a \in Attempts : status[a] \in TerminalStatuses => status'[a] = status[a]]_vars
  BY OneWriterNext DEF Frozen
<1> QED BY <1>1, <1>2, <1>3, SettlementTypeCorrect, PTL DEF SafetySpec, TerminalFrozen

\* Where settled records stay settled no failed one is revived.
LEMMA FrozenFailsForGood == TerminalFrozen => [][FailedStays]_vars
<1>1. [\A a \in Attempts : status[a] \in TerminalStatuses => status'[a] = status[a]]_vars
        => [FailedStays]_vars
  BY DEF FailedStays, TerminalStatuses
<1> QED BY <1>1, PTL DEF TerminalFrozen

\* With one writer at a time a single-use offer has at most one record that
\* can be paid: no failed record comes back beside its replacement.
THEOREM SingleUseStaysSingle == OneWriter => (SafetySpec => []SingleUseLive)
BY SettledStaysSettled, FrozenFailsForGood, RevivalAloneBreaksCaps, PTL

\* With one writer at a time the records that can be paid fit the caps, also
\* when cycles fail and are replaced.
THEOREM SettlementKeepsCaps == OneWriter => (SafetySpec => []CapsRespected)
BY SettledStaysSettled, FrozenFailsForGood, RevivalAloneBreaksCaps, PTL

\* With one writer at a time, and one process, the numbers of the cycles are
\* accounted for without a premise on the writes.
THEOREM SettlementKeepsNumbers ==
  ~Transactional /\ OneWriter => (SafetySpec => []CyclesAccounted)
BY SettledStaysSettled, FrozenFailsForGood, CyclesStayAccounted, PTL

-----------------------------------------------------------------------------
(* Announcements, for any number of writers. *)

Unannounced == {a \in Stored(status) : ~Announced(a)}

\* A step that cuts no handler short loses no announcement.
LEMMA StepsAnnounce ==
  ASSUME TypeOK, [Next]_vars, ~\E w \in Writers : WriterDies(w)
  PROVE  Unannounced' \subseteq Unannounced /\ deaths' = deaths
<1>t. /\ status \in [Attempts -> Statuses] /\ at \in [Writers -> {"idle", "asking", "writing", "posting"}]
      /\ target \in [Writers -> Attempts] /\ next \in [Writers -> SettlementStatuses]
  BY DEF TypeOK, LedgerTypeOK
\* what a step has to leave alone, or to announce
<1>s. ASSUME deaths' = deaths, events \subseteq events',
             \A a \in Attempts : \/ status'[a] = status[a] /\ a \in Stored(status)
                                 \/ a \notin Stored(status')
                                 \/ Announced(a)',
             \A w \in Writers : at[w] = "posting" =>
               \/ at'[w] = "posting" /\ target'[w] = target[w] /\ next'[w] = next[w]
               \/ <<target[w], next[w]>> \in events'
      PROVE  Unannounced' \subseteq Unannounced /\ deaths' = deaths
  <2> SUFFICES ASSUME NEW a \in Unannounced' PROVE a \in Unannounced
    BY <1>s
  <2>1. a \in Attempts /\ a \in Stored(status)' /\ ~Announced(a)'
    BY DEF Unannounced, Stored
  <2>2. status'[a] = status[a] /\ a \in Stored(status)
    BY <1>s, <2>1
  <2>3. Announced(a) => Announced(a)'
    BY <1>s, <2>2 DEF Announced
  <2> QED BY <2>1, <2>2, <2>3 DEF Unannounced
<1>1. CASE Issuance
  <2>1. UNCHANGED <<at, target, next, deaths>> /\ events \subseteq events'
    BY <1>1 DEF Issuance, ReserveInvoice, IssueInvoice, DropReservation, settleVars
  <2>2. ASSUME NEW a \in Attempts, status'[a] \in {"invoice_pending", "invoice_created"}
        PROVE  Announced(a)'
    BY <2>2 DEF Announced
  <2>3. ASSUME NEW a \in Attempts
        PROVE  \/ status'[a] = status[a]
               \/ status'[a] \in {"removed", "invoice_pending", "invoice_created"}
    BY <1>1, <1>t DEF Issuance, ReserveInvoice, IssueInvoice, DropReservation,
       ledgerVars, Reserve, Purged, Finalize, Abandon
  <2>4. \A a \in Attempts : status'[a] = status[a] =>
          (a \in Stored(status) \/ a \notin Stored(status'))
    BY DEF Stored
  <2>5. \A a \in Attempts : status'[a] = "removed" => a \notin Stored(status')
    BY DEF Stored
  <2> QED BY <1>s, <2>1, <2>2, <2>3, <2>4, <2>5
<1>q. ASSUME deaths' = deaths, UNCHANGED ledgerVars, events \subseteq events',
             \A w \in Writers : at[w] = "posting" =>
               \/ at'[w] = "posting" /\ target'[w] = target[w] /\ next'[w] = next[w]
               \/ <<target[w], next[w]>> \in events'
      PROVE  Unannounced' \subseteq Unannounced /\ deaths' = deaths
  BY <1>q, <1>s DEF ledgerVars, Stored
<1>2. ASSUME NEW a \in Attempts, NodeProgress(a)
      PROVE  Unannounced' \subseteq Unannounced /\ deaths' = deaths
  BY <1>2, <1>q DEF NodeProgress
<1>3. ASSUME NEW w \in Writers, NEW a \in Attempts, NEW s \in Posted, PostStatus(w, a, s)
      PROVE  Unannounced' \subseteq Unannounced /\ deaths' = deaths
  BY <1>3, <1>q, <1>t DEF PostStatus
<1>4. ASSUME NEW w \in Writers, NEW a \in Attempts, AskNode(w, a)
      PROVE  Unannounced' \subseteq Unannounced /\ deaths' = deaths
  BY <1>4, <1>q, <1>t DEF AskNode
<1>5. ASSUME NEW w \in Writers, HearNode(w) \/ NodeSilent(w)
      PROVE  Unannounced' \subseteq Unannounced /\ deaths' = deaths
  <2>1. /\ at[w] = "asking" /\ \E x : at' = [at EXCEPT ![w] = x]
        /\ \E x : next' = [next EXCEPT ![w] = x] \/ next' = next
        /\ UNCHANGED <<ledgerVars, target, events, deaths>>
    BY <1>5 DEF HearNode, NodeSilent
  <2> QED BY <1>q, <1>t, <2>1
<1>6. ASSUME NEW w \in Writers, WriteStatus(w)
      PROVE  Unannounced' \subseteq Unannounced /\ deaths' = deaths
  <2>1. at[w] = "writing" /\ UNCHANGED <<target, next, events, deaths>>
    BY <1>6 DEF WriteStatus
  <2>2. CASE UpdateStatus(target[w], next[w]) /\ at' = [at EXCEPT ![w] = "posting"]
    <3>1. /\ status' = [status EXCEPT ![target[w]] = next[w]] /\ target[w] \in Stored(status)
          /\ at'[w] = "posting" /\ \A v \in Writers \ {w} : at'[v] = at[v]
      BY <2>2, <1>t DEF UpdateStatus, StatusWritable
    <3>2. Announced(target[w])'
      BY <2>1, <3>1, <1>t DEF Announced
    <3>3. \A a \in Attempts \ {target[w]} : status'[a] = status[a]
      BY <3>1, <1>t
    <3>4. \A a \in Attempts \ {target[w]} : a \in Stored(status) \/ a \notin Stored(status')
      BY <3>3 DEF Stored
    <3> QED BY <1>s, <2>1, <3>1, <3>2, <3>3, <3>4
  <2>3. CASE at' = [at EXCEPT ![w] = "idle"] /\ UNCHANGED ledgerVars
    BY <1>q, <1>t, <2>1, <2>3
  <2> QED BY <1>6, <2>2, <2>3 DEF WriteStatus
<1>7. ASSUME NEW w \in Writers, PostEvent(w)
      PROVE  Unannounced' \subseteq Unannounced /\ deaths' = deaths
  BY <1>7, <1>q, <1>t DEF PostEvent
<1>8. CASE UNCHANGED vars
  BY <1>8, <1>q DEF vars, settleVars
<1> QED BY <1>1, <1>2, <1>3, <1>4, <1>5, <1>6, <1>7, <1>8 DEF Next, Writer

\* A handler that is cut short loses at most the announcement of its record.
LEMMA DeathLosesOne ==
  ASSUME TypeOK, NEW w \in Writers, WriterDies(w)
  PROVE  Unannounced' \subseteq Unannounced \cup {target[w]} /\ deaths' = deaths + 1
<1>1. /\ deaths' = deaths + 1 /\ UNCHANGED <<ledgerVars, target, next, events>>
      /\ \A v \in Writers \ {w} : at'[v] = at[v]
  BY DEF WriterDies, TypeOK
<1>2. status' = status /\ Stored(status') = Stored(status)
  BY <1>1 DEF ledgerVars
<1>3. \A a \in Attempts \ {target[w]} : Announced(a) => Announced(a)'
  BY <1>1, <1>2 DEF Announced
<1>4. Unannounced \subseteq Attempts /\ Unannounced' \subseteq Attempts
  BY DEF Unannounced, Stored
<1> QED BY <1>1, <1>2, <1>3, <1>4 DEF Unannounced

\* However many writers write over one another: the records whose last status
\* the merchant never hears of are no more than the handlers cut short.
THEOREM LostAnnouncementsBounded == SafetySpec => []StatusesAnnounced
<1>1. Init => StatusesAnnounced
  <2> SUFFICES ASSUME Init PROVE StatusesAnnounced
    OBVIOUS
  <2>1. {a \in Stored(status) : ~Announced(a)} = {} /\ deaths = 0
    BY DEF Init, LedgerInit, Stored
  <2> QED BY <2>1, FS_EmptySet DEF StatusesAnnounced
<1>2. TypeOK /\ StatusesAnnounced /\ [Next]_vars => StatusesAnnounced'
  <2> SUFFICES ASSUME TypeOK, StatusesAnnounced, [Next]_vars PROVE StatusesAnnounced'
    OBVIOUS
  <2>1. /\ IsFiniteSet(Unannounced) /\ Cardinality(Unannounced) \in Nat
        /\ Cardinality(Unannounced) <= deaths /\ deaths \in Nat
    <3>1. Unannounced \subseteq Attempts
      BY DEF Unannounced, Stored
    <3>2. IsFiniteSet(Unannounced)
      BY <3>1, FS_Subset, LedgerAssumption
    <3> QED BY <3>2, FS_CardinalityType, SettlementAssumption DEF StatusesAnnounced, Unannounced, TypeOK
  <2>2. CASE ~\E w \in Writers : WriterDies(w)
    <3>1. Unannounced' \subseteq Unannounced /\ deaths' = deaths
      BY <2>2, StepsAnnounce
    <3>2. Cardinality(Unannounced') <= Cardinality(Unannounced) /\ Cardinality(Unannounced') \in Nat
      BY <2>1, <3>1, FS_Subset, FS_CardinalityType
    <3> QED BY <2>1, <3>1, <3>2 DEF StatusesAnnounced, Unannounced
  <2>3. ASSUME NEW w \in Writers, WriterDies(w) PROVE StatusesAnnounced'
    <3> DEFINE more == Unannounced \cup {target[w]}
    <3>1. Unannounced' \subseteq more /\ deaths' = deaths + 1
      BY <2>3, DeathLosesOne
    <3>2. IsFiniteSet(more) /\ Cardinality(more) <= Cardinality(Unannounced) + 1
          /\ Cardinality(more) \in Nat
      <4>1. IsFiniteSet(more)
        BY <2>1, FS_AddElement
      <4>2. \/ Cardinality(more) = Cardinality(Unannounced)
            \/ Cardinality(more) = Cardinality(Unannounced) + 1
        BY <2>1, FS_AddElement
      <4> QED BY <2>1, <4>1, <4>2, FS_CardinalityType
    <3> HIDE DEF more
    <3>3. Cardinality(Unannounced') <= Cardinality(more) /\ Cardinality(Unannounced') \in Nat
      BY <3>1, <3>2, FS_Subset, FS_CardinalityType
    <3> QED BY <2>1, <3>1, <3>2, <3>3 DEF StatusesAnnounced, Unannounced
  <2> QED BY <2>2, <2>3
<1> QED BY <1>1, <1>2, SettlementTypeCorrect, PTL DEF SafetySpec

-----------------------------------------------------------------------------
(* The background workers. *)

\* Every step of a pass, of an operator or of the node is a step of
\* SettlementSync, or changes nothing there: what is proved of the
\* synchronisations holds of passes that overlap and die.
LEMMA PassesSynchronise == [WorkNext]_workVars => [Next]_vars
<1> SUFFICES ASSUME [WorkNext]_workVars PROVE [Next]_vars
  OBVIOUS
<1> USE DEF Next
<1>1. CASE OthersStep
  BY <1>1 DEF OthersStep
<1>2. ASSUME NEW w \in Workers, PassStep(w) PROVE [Next]_vars
  <2>1. w \in Writers
    BY WorkersAssumption
  <2>2. CASE StartPass(w) \/ EndPass(w)
    BY <2>2 DEF StartPass, EndPass, vars
  <2>3. CASE Restart(w)
    BY <2>1, <2>3 DEF Restart, Writer
  <2>4. ASSUME NEW a \in Attempts, Visit(w, a) PROVE [Next]_vars
    BY <2>1, <2>4 DEF Visit, Writer
  <2>5. CASE ItemFails(w) \/ Synchronises(w)
    BY <2>1, <2>5 DEF ItemFails, Synchronises, Writer
  <2> QED BY <1>2, <2>2, <2>3, <2>4, <2>5 DEF PassStep
<1>3. CASE UNCHANGED workVars
  BY <1>3 DEF workVars
<1> QED BY <1>1, <1>2, <1>3 DEF WorkNext

\* The workers implement the synchronisations of SettlementSync, for any
\* number of workers, records and restarts.
THEOREM WorkersImplementSync == WorkSafety => SafetySpec
<1>1. WorkInit => Init
  BY DEF WorkInit
<1> QED BY <1>1, PassesSynchronise, PTL DEF WorkSafety, SafetySpec

LEMMA PassTypeNext ==
  ASSUME PassTypeOK, TypeOK', [WorkNext]_workVars
  PROVE  PassTypeOK'
<1>t. /\ running \in [Workers -> BOOLEAN] /\ left \in [Workers -> SUBSET Attempts]
      /\ at \in [Writers -> {"idle", "asking", "writing", "posting"}]
      /\ \A v \in Workers : ~running[v] => left[v] = {} /\ at[v] = "idle"
      /\ Workers \subseteq Writers
  BY WorkersAssumption DEF PassTypeOK, TypeOK
<1>1. ASSUME UNCHANGED passVars, \A v \in Workers : at'[v] = at[v] PROVE PassTypeOK'
  BY <1>1, <1>t DEF PassTypeOK, passVars
<1>2. CASE OthersStep
  <2>1. CASE Issuance
    BY <1>1, <1>2, <2>1 DEF OthersStep, Issuance, ReserveInvoice, IssueInvoice,
       DropReservation, settleVars
  <2>2. ASSUME NEW a \in Attempts, NodeProgress(a) PROVE PassTypeOK'
    BY <1>1, <1>2, <2>2 DEF OthersStep, NodeProgress
  <2>3. ASSUME NEW w \in Writers \ Workers, Writer(w) PROVE PassTypeOK'
    <3>1. \E x : at' = [at EXCEPT ![w] = x]
      BY <2>3 DEF Writer, PostStatus, AskNode, HearNode, NodeSilent, WriteStatus, PostEvent, WriterDies
    <3>2. \A v \in Workers : at'[v] = at[v]
      BY <3>1, <1>t
    <3> QED BY <1>1, <1>2, <3>2 DEF OthersStep
  <2> QED BY <1>2, <2>1, <2>2, <2>3 DEF OthersStep
<1>3. ASSUME NEW w \in Workers, PassStep(w) PROVE PassTypeOK'
  <2>1. CASE StartPass(w)
    BY <2>1, <1>t DEF PassTypeOK, StartPass, Visited, Stored, vars, settleVars
  <2>2. CASE EndPass(w)
    BY <2>2, <1>t DEF PassTypeOK, EndPass, vars, settleVars
  <2>3. CASE Restart(w)
    <3>1. at'[w] = "idle" /\ \A v \in Workers \ {w} : at'[v] = at[v]
      BY <2>3, <1>t DEF Restart, WriterDies, vars, settleVars
    <3> QED BY <2>3, <3>1, <1>t DEF PassTypeOK, Restart
  <2>4. ASSUME NEW a \in Attempts, Visit(w, a) PROVE PassTypeOK'
    <3>1. running[w] /\ UNCHANGED running /\ left' = [left EXCEPT ![w] = @ \ {a}]
      BY <2>4 DEF Visit
    <3>2. \A v \in Workers \ {w} : at'[v] = at[v]
      BY <2>4, <1>t DEF Visit, AskNode
    <3> QED BY <3>1, <3>2, <1>t DEF PassTypeOK
  <2>5. CASE ItemFails(w) \/ (Synchronises(w) /\ UNCHANGED passVars)
    <3>1. /\ at[w] # "idle" /\ UNCHANGED passVars /\ \E x : at' = [at EXCEPT ![w] = x]
      BY <2>5 DEF ItemFails, Synchronises, HearNode, NodeSilent, WriteStatus, PostEvent, WriterDies
    <3>2. running[w] /\ \A v \in Workers \ {w} : at'[v] = at[v]
      BY <3>1, <1>t
    <3> QED BY <3>1, <3>2, <1>t DEF PassTypeOK, passVars
  <2> QED BY <1>3, <2>1, <2>2, <2>3, <2>4, <2>5 DEF PassStep
<1>4. CASE UNCHANGED workVars
  BY <1>1, <1>4 DEF workVars, vars, settleVars
<1> QED BY <1>2, <1>3, <1>4 DEF WorkNext

\* A process that is not in a pass has no record left over from one and no
\* synchronisation under way, however passes and restarts interleave.
THEOREM PassTypeCorrect == WorkSafety => []PassTypeOK
<1>1. WorkInit => PassTypeOK
  <2> SUFFICES ASSUME WorkInit PROVE PassTypeOK
    OBVIOUS
  <2>1. TypeOK /\ at = [w \in Writers |-> "idle"]
    BY SettlementTypeInit DEF WorkInit, Init
  <2> QED BY <2>1, WorkersAssumption DEF WorkInit, PassTypeOK
<1>2. PassTypeOK /\ TypeOK' /\ [WorkNext]_workVars => PassTypeOK'
  BY PassTypeNext
<1> QED BY <1>1, <1>2, WorkersImplementSync, SettlementTypeCorrect, PTL DEF WorkSafety
=============================================================================
