------------------------ MODULE InvoiceIssuanceProofs ------------------------
(***************************************************************************)
(* Theorems about InvoiceIssuance, for every value of its constants.       *)
(*                                                                         *)
(*   1. Types, and the chain of promises as a lock                         *)
(*   2. Records and answers                                                *)
(*   3. The caps of a recurring offer                                      *)
(*   4. Its cycles in the local store                                      *)
(*   5. The resolver implements InvoiceBook                                *)
(***************************************************************************)
EXTENDS InvoiceIssuance, InvoiceLedgerProofs

-----------------------------------------------------------------------------
(* 1. Types and the lock. *)

\* An attempt under the lock is the first in the chain of its process, and
\* one that waits is somewhere in it.
ChainInv ==
  \A a \in Attempts :
    LET chain == queue[proc[a]]
    IN /\ pc[a] \in Critical => chain # <<>> /\ Head(chain) = a
       /\ pc[a] = "queued" => \E i \in 1 .. Len(chain) : chain[i] = a

\* What a step of a handler does to its control state: it holds the lock,
\* and goes on with it or ends and hands it on.
Keeps(a) == \E to \in Critical : pc' = [pc EXCEPT ![a] = to] /\ UNCHANGED <<queue, answer>>
Ends(a) ==
  /\ pc' = [pc EXCEPT ![a] = "done"]
  /\ Release(a)
  /\ \E o \in Outcomes, b \in Attempts :
       answer' = [answer EXCEPT ![a] = [outcome |-> o, record |-> b]]

\* A step of a handler is taken with the lock held, and keeps or hands it on.
LEMMA HandlerStep ==
  ASSUME TypeOK, ChainInv, NEW a \in Attempts, Step(a) \/ StoreFails(a)
  PROVE  /\ pc[a] \in Critical \cup {"queued"}
         /\ queue[proc[a]] # <<>> /\ Head(queue[proc[a]]) = a
         /\ Keeps(a) \/ Ends(a)
         /\ UNCHANGED <<proc, ask, sawRevoked>>
         /\ minted' \in {minted, minted \cup {a}}
         /\ announced' \in {announced, announced \cup {a}}
         /\ faults' \in 0 .. MaxFaults
         /\ LedgerTypeOK'
<1> DEFINE Effect ==
      /\ pc[a] \in Critical \cup {"queued"}
      /\ pc[a] = "queued" => HoldsLock(a)
      /\ Keeps(a) \/ Ends(a)
      /\ UNCHANGED <<proc, ask, sawRevoked>>
      /\ minted' \in {minted, minted \cup {a}}
      /\ announced' \in {announced, announced \cup {a}}
      /\ LedgerTypeOK'
<1>1. ASSUME NEW from \in Critical \cup {"queued"}, NEW o \in Outcomes,
             NEW b \in Attempts, Respond(a, from, o, b),
             from = "queued" => HoldsLock(a),
             announced' \in {announced, announced \cup {a}}, LedgerTypeOK'
      PROVE  Effect
  BY <1>1 DEF Respond, Goto, Ends
<1>2. ASSUME NEW from \in Critical \cup {"queued"}, NEW to \in Critical,
             Continue(a, from, to),
             from = "queued" => HoldsLock(a),
             minted' \in {minted, minted \cup {a}}, announced' = announced, LedgerTypeOK'
      PROVE  Effect
  BY <1>2 DEF Continue, Goto, Keeps
<1>k. ask[a].key \in Keys \cup {NoKey} /\ ask[a].request \in Request /\ LedgerTypeOK
  BY DEF TypeOK
<1>o. {"created", "replayed", "refused", "unavailable", "conflict", "error"} \subseteq Outcomes
  BY DEF Outcomes
<1>c. Critical = {"checking", "reserving", "minting", "minted", "abandoning", "announcing"}
  BY DEF Critical
<1>u. UNCHANGED ledgerVars => LedgerTypeOK'
  BY <1>k, LedgerTypes
<1> HIDE DEF Effect
<1>3. ASSUME Acquire(a) PROVE Effect
  BY <1>3, <1>1, <1>2, <1>o, <1>c, <1>u DEF Acquire
<1>4. ASSUME CheckOffer(a) PROVE Effect
  BY <1>4, <1>1, <1>2, <1>o, <1>c, <1>u DEF CheckOffer
<1>5. ASSUME ReserveInvoice(a) PROVE Effect
  <2>1. LedgerTypeOK'
    BY <1>5, <1>k, LedgerTypes DEF ReserveInvoice
  <2> QED BY <1>5, <2>1, <1>1, <1>2, <1>o, <1>c DEF ReserveInvoice
<1>6. ASSUME NodeMints(a) PROVE Effect
  BY <1>6, <1>2, <1>c, <1>u DEF NodeMints
<1>7. ASSUME MintFails(a) PROVE Effect
  BY <1>7, <1>2, <1>c, <1>u DEF MintFails
<1>8. ASSUME AbandonReservation(a) PROVE Effect
  <2>1. LedgerTypeOK'
    BY <1>8, <1>k, <1>u, LedgerTypes DEF AbandonReservation
  <2> QED BY <1>8, <2>1, <1>1, <1>o, <1>c DEF AbandonReservation
<1>9. ASSUME FinalizeInvoice(a) PROVE Effect
  <2>1. LedgerTypeOK'
    BY <1>9, <1>k, <1>u, LedgerTypes DEF FinalizeInvoice
  <2> QED BY <1>9, <2>1, <1>1, <1>2, <1>o, <1>c DEF FinalizeInvoice
<1>10. ASSUME AnnounceInvoice(a) PROVE Effect
  BY <1>10, <1>1, <1>o, <1>c, <1>u DEF AnnounceInvoice
<1>11. ASSUME StoreFails(a) PROVE Effect
  <2>1. LedgerTypeOK'
    BY <1>11, <1>k, <1>u, LedgerTypes DEF StoreFails
  <2> QED BY <1>11, <2>1, <1>1, <1>o, <1>c DEF StoreFails
<1>12. Effect
  BY <1>3, <1>4, <1>5, <1>6, <1>7, <1>8, <1>9, <1>10, <1>11 DEF Step
<1>13. faults' \in 0 .. MaxFaults
  <2>1. faults \in 0 .. MaxFaults /\ MaxFaults \in Nat
    BY IssuanceAssumption DEF TypeOK
  <2> QED BY <2>1 DEF Step, StoreFails
<1>14. queue[proc[a]] # <<>> /\ Head(queue[proc[a]]) = a
  <2>1. proc[a] \in Procs /\ queue[proc[a]] \in Seq(Attempts)
    BY DEF TypeOK
  <2>2. CASE pc[a] \in Critical
    BY <2>2 DEF ChainInv
  <2>3. CASE pc[a] = "queued" /\ HoldsLock(a)
    BY <2>1, <2>3 DEF ChainInv, HoldsLock
  <2> QED BY <1>12, <2>2, <2>3 DEF Effect
<1> QED BY <1>12, <1>13, <1>14 DEF Effect

\* TypeOK and ChainInv depend on each other: the tail of a chain is a chain
\* because the attempt that leaves it is its first.
LEMMA TypeInit == Init => TypeOK /\ ChainInv
<1> SUFFICES ASSUME Init PROVE TypeOK /\ ChainInv
  OBVIOUS
<1>1. LedgerTypeOK
  BY NoTermsType DEF Init, LedgerInit, LedgerTypeOK, Statuses
<1>2. NoTerms.request \in Request
  BY NoTermsType DEF Terms
<1>3. (CHOOSE p \in Procs : TRUE) \in Procs
  BY IssuanceAssumption
<1>4. TypeOK
  BY <1>1, <1>2, <1>3, IssuanceAssumption DEF Init, TypeOK, PC, Outcomes
<1>5. ChainInv
  BY DEF Init, ChainInv, Critical
<1> QED BY <1>4, <1>5

\* A request joins the end of the chain of its process.
LEMMA ReceiveKeeps ==
  ASSUME TypeOK, ChainInv, NEW a \in Attempts, NEW p \in Procs,
         NEW k \in Keys \cup {NoKey}, NEW q \in Request, Receive(a, p, k, q)
  PROVE  TypeOK' /\ ChainInv'
<1>1. TypeOK'
  <2>1. LedgerTypeOK'
    BY LedgerTypes DEF Receive, TypeOK
  <2>2. queue' \in [Procs -> Seq(Attempts)]
    <3>1. Append(queue[p], a) \in Seq(Attempts)
      BY DEF TypeOK
    <3> QED BY <3>1 DEF Receive, TypeOK
  <2>3. [key |-> k, request |-> q] \in [key : Keys \cup {NoKey}, request : Request]
    OBVIOUS
  <2>4. revoked \in BOOLEAN /\ pc' \in [Attempts -> PC]
        /\ proc' \in [Attempts -> Procs]
    BY DEF Receive, Goto, TypeOK, PC, LedgerTypeOK
  <2>5. ask' \in [Attempts -> [key : Keys \cup {NoKey}, request : Request]]
    BY <2>3 DEF Receive, TypeOK
  <2>6. sawRevoked' \in [Attempts -> BOOLEAN]
    BY <2>4 DEF Receive, TypeOK
  <2> QED BY <2>1, <2>2, <2>4, <2>5, <2>6 DEF Receive, TypeOK
<1>2. ChainInv'
  <2> SUFFICES ASSUME NEW b \in Attempts
               PROVE  LET chain == queue'[proc'[b]]
                      IN /\ pc'[b] \in Critical => chain # <<>> /\ Head(chain) = b
                         /\ pc'[b] = "queued" => \E i \in 1 .. Len(chain) : chain[i] = b
    BY DEF ChainInv
  <2>1. queue[p] \in Seq(Attempts) /\ queue'[p] = Append(queue[p], a)
    BY DEF Receive, TypeOK
  <2>2. queue'[p] # <<>> /\ Len(queue'[p]) = Len(queue[p]) + 1
        /\ queue'[p][Len(queue[p]) + 1] = a
        /\ \A i \in 1 .. Len(queue[p]) : queue'[p][i] = queue[p][i]
    BY <2>1
  <2>3. CASE b = a
    BY <2>1, <2>2, <2>3 DEF Receive, Goto, TypeOK, Critical
  <2>4. CASE b # a
    <3>1. pc'[b] = pc[b] /\ proc'[b] = proc[b] /\ proc[b] \in Procs
      BY <2>4 DEF Receive, Goto, TypeOK
    <3>2. CASE proc[b] # p
      BY <3>1, <3>2 DEF Receive, TypeOK, ChainInv
    <3>3. CASE proc[b] = p
      <4>1. queue[p] # <<>> => Head(queue'[p]) = Head(queue[p])
        BY <2>1
      <4>2. pc'[b] \in Critical => queue'[p] # <<>> /\ Head(queue'[p]) = b
        BY <3>1, <3>3, <4>1, <2>2 DEF ChainInv
      <4>3. ASSUME pc'[b] = "queued"
            PROVE  \E i \in 1 .. Len(queue'[p]) : queue'[p][i] = b
        <5>1. PICK i \in 1 .. Len(queue[p]) : queue[p][i] = b
          BY <3>1, <3>3, <4>3 DEF ChainInv
        <5>2. i \in 1 .. Len(queue'[p]) /\ queue'[p][i] = b
          BY <5>1, <2>1, <2>2
        <5> QED BY <5>2
      <4> QED BY <3>1, <3>3, <4>2, <4>3
    <3> QED BY <3>2, <3>3
  <2> QED BY <2>3, <2>4
<1> QED BY <1>1, <1>2

LEMMA HandlerKeeps ==
  ASSUME TypeOK, ChainInv, NEW a \in Attempts, Step(a) \/ StoreFails(a)
  PROVE  TypeOK' /\ ChainInv'
<1> DEFINE p == proc[a]
<1>1. /\ pc[a] \in Critical \cup {"queued"}
      /\ queue[p] # <<>> /\ Head(queue[p]) = a
      /\ Keeps(a) \/ Ends(a)
      /\ UNCHANGED <<proc, ask, sawRevoked>>
      /\ minted' \in {minted, minted \cup {a}}
      /\ announced' \in {announced, announced \cup {a}}
      /\ faults' \in 0 .. MaxFaults
      /\ LedgerTypeOK'
  BY HandlerStep
<1>2. p \in Procs /\ queue[p] \in Seq(Attempts)
  BY DEF TypeOK
<1>3. TypeOK'
  <2>1. pc' \in [Attempts -> PC]
    <3>1. \E to \in PC : pc' = [pc EXCEPT ![a] = to]
      BY <1>1 DEF Keeps, Ends, PC
    <3> QED BY <3>1 DEF TypeOK
  <2>2. queue' \in [Procs -> Seq(Attempts)]
    <3>1. Tail(queue[p]) \in Seq(Attempts)
      BY <1>1, <1>2
    <3> QED BY <1>1, <3>1 DEF Keeps, Ends, Release, TypeOK
  <2>3. answer' \in [Attempts -> [outcome : Outcomes, record : Attempts]]
    <3>1. answer \in [Attempts -> [outcome : Outcomes, record : Attempts]]
      BY DEF TypeOK
    <3>2. CASE Keeps(a)
      BY <3>1, <3>2 DEF Keeps
    <3>3. CASE Ends(a)
      <4>1. PICK o \in Outcomes, b \in Attempts :
              answer' = [answer EXCEPT ![a] = [outcome |-> o, record |-> b]]
        BY <3>3 DEF Ends
      <4> QED BY <3>1, <4>1
    <3> QED BY <1>1, <3>2, <3>3
  <2>4. minted' \subseteq Attempts /\ announced' \subseteq Attempts
    BY <1>1 DEF TypeOK
  <2> QED BY <1>1, <2>1, <2>2, <2>3, <2>4 DEF TypeOK
<1>4. CASE Keeps(a)
  BY <1>1, <1>3, <1>4 DEF Keeps, TypeOK, ChainInv, Critical
<1>5. CASE Ends(a)
  <2> SUFFICES ASSUME NEW b \in Attempts
               PROVE  LET chain == queue'[proc'[b]]
                      IN /\ pc'[b] \in Critical => chain # <<>> /\ Head(chain) = b
                         /\ pc'[b] = "queued" => \E i \in 1 .. Len(chain) : chain[i] = b
    BY <1>3 DEF ChainInv
  <2>1. CASE b = a
    BY <1>5, <2>1 DEF Ends, TypeOK, Critical
  <2>2. CASE b # a /\ proc[b] # p
    <3>1. pc'[b] = pc[b] /\ proc'[b] = proc[b] /\ queue'[proc[b]] = queue[proc[b]]
      BY <1>1, <1>5, <2>2 DEF Ends, Release, TypeOK
    <3> QED BY <3>1 DEF ChainInv
  <2>3. CASE b # a /\ proc[b] = p
    <3>1. pc'[b] = pc[b] /\ proc'[b] = p /\ queue'[p] = Tail(queue[p])
      BY <1>1, <1>5, <2>3 DEF Ends, Release, TypeOK
    <3>2. pc[b] \notin Critical
      BY <1>1, <2>3 DEF ChainInv
    <3>3. ASSUME pc[b] = "queued"
          PROVE  \E i \in 1 .. Len(Tail(queue[p])) : Tail(queue[p])[i] = b
      <4>1. PICK i \in 1 .. Len(queue[p]) : queue[p][i] = b
        BY <2>3, <3>3 DEF ChainInv
      <4>2. i # 1
        BY <1>1, <1>2, <2>3, <4>1
      <4>3. i - 1 \in 1 .. Len(Tail(queue[p])) /\ Tail(queue[p])[i - 1] = b
        BY <1>1, <1>2, <4>1, <4>2
      <4> QED BY <4>3
    <3> QED BY <3>1, <3>2, <3>3
  <2> QED BY <2>1, <2>2, <2>3
<1> QED BY <1>1, <1>3, <1>4, <1>5

\* A process that dies leaves no handler and an empty chain.
LEMMA CrashKeeps ==
  ASSUME TypeOK, ChainInv, NEW p \in Procs, Crash(p)
  PROVE  TypeOK' /\ ChainInv'
<1>1. TypeOK'
  <2>1. LedgerTypeOK'
    BY DEF Crash, TypeOK, ledgerVars, LedgerTypeOK
  <2>2. faults' \in 0 .. MaxFaults
    BY IssuanceAssumption DEF Crash, TypeOK
  <2> QED BY <2>1, <2>2 DEF Crash, TypeOK, PC
<1>2. ChainInv'
  <2> SUFFICES ASSUME NEW b \in Attempts
               PROVE  LET chain == queue'[proc'[b]]
                      IN /\ pc'[b] \in Critical => chain # <<>> /\ Head(chain) = b
                         /\ pc'[b] = "queued" => \E i \in 1 .. Len(chain) : chain[i] = b
    BY DEF ChainInv
  <2>1. CASE proc[b] = p
    BY <2>1 DEF Crash, TypeOK, InHandler, Critical
  <2>2. CASE proc[b] # p
    <3>1. pc'[b] = pc[b] /\ proc'[b] = proc[b] /\ queue'[proc[b]] = queue[proc[b]]
      BY <2>2 DEF Crash, TypeOK
    <3> QED BY <3>1 DEF ChainInv
  <2> QED BY <2>1, <2>2
<1> QED BY <1>1, <1>2

LEMMA TypeNext == TypeOK /\ ChainInv /\ [Next]_vars => TypeOK' /\ ChainInv'
<1> SUFFICES ASSUME TypeOK, ChainInv, [Next]_vars PROVE TypeOK' /\ ChainInv'
  OBVIOUS
<1>1. ASSUME NEW a \in Attempts, NEW p \in Procs, NEW k \in Keys \cup {NoKey},
             NEW q \in Request, Receive(a, p, k, q)
      PROVE  TypeOK' /\ ChainInv'
  BY <1>1, ReceiveKeeps
<1>2. ASSUME NEW a \in Attempts, Step(a) \/ StoreFails(a)
      PROVE  TypeOK' /\ ChainInv'
  BY <1>2, HandlerKeeps
<1>3. ASSUME LedgerTypeOK', UNCHANGED issuanceVars
      PROVE  TypeOK' /\ ChainInv'
  BY <1>3 DEF issuanceVars, TypeOK, ChainInv
<1>4. ASSUME NEW a \in Attempts, Lapse(a), UNCHANGED issuanceVars
      PROVE  TypeOK' /\ ChainInv'
  BY <1>3, <1>4 DEF Lapse, LedgerTypeOK, TypeOK
<1>5. ASSUME NEW p \in Procs, Crash(p)
      PROVE  TypeOK' /\ ChainInv'
  BY <1>5, CrashKeeps
<1>6. ASSUME Revoke, UNCHANGED issuanceVars
      PROVE  TypeOK' /\ ChainInv'
  BY <1>3, <1>6 DEF Revoke, LedgerTypeOK, TypeOK
<1>7. CASE UNCHANGED vars
  BY <1>3, <1>7 DEF vars, ledgerVars, LedgerTypeOK, TypeOK
<1> QED BY <1>1, <1>2, <1>4, <1>5, <1>6, <1>7 DEF Next

LEMMA ChainCorrect == Spec => [](TypeOK /\ ChainInv)
<1> QED BY TypeInit, TypeNext, PTL DEF Spec

\* Every variable of the issuance keeps its type: a chain only loses its
\* first attempt when that one is there.
THEOREM TypeCorrect == Spec => []TypeOK
<1> QED BY ChainCorrect, PTL

\* Two handlers of one process are never both past the lock of an offer,
\* however many processes, requests, failures and deaths there are.
THEOREM LockCorrect == Spec => []LockExclusive
<1>1. TypeOK /\ ChainInv => LockExclusive
  BY DEF TypeOK, ChainInv, LockExclusive
<1> QED BY <1>1, ChainCorrect, PTL

Live == Critical \cup {"queued"}

\* Whoever is in the chain of a process is a handler of that process which has
\* not ended, and is there once.
LiveChain(p) ==
  /\ \A i \in 1 .. Len(queue[p]) : pc[queue[p][i]] \in Live /\ proc[queue[p][i]] = p
  /\ \A i, j \in 1 .. Len(queue[p]) : queue[p][i] = queue[p][j] => i = j

ChainsLive == \A p \in Procs : LiveChain(p)

PassedOn(a) ==
  LET chain == queue[proc[a]]
  IN chain # <<>> /\ InHandler(Head(chain)) /\ proc[Head(chain)] = proc[a]

LockPassedOn == \A a \in Attempts : InHandler(a) => PassedOn(a)

\* The handlers that are served before a.
Ahead(a) ==
  LET chain == queue[proc[a]]
  IN {b \in Attempts : \E i, j \in 1 .. Len(chain) : i < j /\ chain[i] = b /\ chain[j] = a}

NoOvertaking ==
  \A a \in Attempts : pc[a] = "queued" /\ pc'[a] = "queued" => Ahead(a)' \subseteq Ahead(a)

\* A chain nobody has touched.
LEMMA ChainStays ==
  ASSUME TypeOK, NEW p \in Procs, LiveChain(p), queue'[p] = queue[p],
         \A b \in Attempts : pc[b] \in Live /\ proc[b] = p => pc'[b] \in Live /\ proc'[b] = p
  PROVE  LiveChain(p)'
<1>1. \A i \in 1 .. Len(queue[p]) : queue[p][i] \in Attempts
  BY DEF TypeOK
<1> QED BY <1>1 DEF LiveChain

LEMMA ReceiveInTurn ==
  ASSUME TypeOK, ChainsLive, NEW a \in Attempts, NEW p \in Procs,
         NEW k \in Keys \cup {NoKey}, NEW q \in Request, Receive(a, p, k, q)
  PROVE  ChainsLive' /\ NoOvertaking
<1>1. /\ pc[a] = "new" /\ pc[a] \notin Live /\ pc'[a] \in Live /\ proc'[a] = p
      /\ \A b \in Attempts \ {a} : pc'[b] = pc[b] /\ proc'[b] = proc[b]
      /\ \A r \in Procs \ {p} : queue'[r] = queue[r]
  BY DEF Receive, Goto, TypeOK, Live, Critical
<1>2. /\ queue[p] \in Seq(Attempts) /\ queue'[p] = Append(queue[p], a)
      /\ Len(queue[p]) \in Nat /\ Len(queue'[p]) = Len(queue[p]) + 1
      /\ queue'[p][Len(queue[p]) + 1] = a
      /\ \A i \in 1 .. Len(queue[p]) : queue'[p][i] = queue[p][i] /\ queue[p][i] \in Attempts
  BY DEF Receive, TypeOK
<1>3. \A i \in 1 .. Len(queue[p]) : queue[p][i] # a
  BY <1>1 DEF ChainsLive, LiveChain
<1>4. LiveChain(p)'
  <2>1. \A i \in 1 .. Len(queue'[p]) : i \in 1 .. Len(queue[p]) \/ i = Len(queue[p]) + 1
    BY <1>2
  <2>2. \A i \in 1 .. Len(queue[p]) : pc'[queue'[p][i]] \in Live /\ proc'[queue'[p][i]] = p
    BY <1>1, <1>2, <1>3 DEF ChainsLive, LiveChain, Live
  <2>3. \A i, j \in 1 .. Len(queue[p]) : queue'[p][i] = queue'[p][j] => i = j
    BY <1>2 DEF ChainsLive, LiveChain
  <2>4. \A i \in 1 .. Len(queue'[p]) : pc'[queue'[p][i]] \in Live /\ proc'[queue'[p][i]] = p
    BY <1>1, <1>2, <2>1, <2>2
  <2>5. \A i, j \in 1 .. Len(queue'[p]) : queue'[p][i] = queue'[p][j] => i = j
    BY <1>2, <1>3, <2>1, <2>3
  <2> QED BY <2>4, <2>5 DEF LiveChain
<1>5. \A r \in Procs \ {p} : LiveChain(r)'
  <2> SUFFICES ASSUME NEW r \in Procs \ {p} PROVE LiveChain(r)'
    OBVIOUS
  <2>1. \A b \in Attempts : pc[b] \in Live /\ proc[b] = r => pc'[b] \in Live /\ proc'[b] = r
    BY <1>1 DEF Live
  <2> QED BY <1>1, <2>1, ChainStays DEF ChainsLive
<1>6. NoOvertaking
  <2> SUFFICES ASSUME NEW b \in Attempts, pc[b] = "queued", NEW c \in Ahead(b)' PROVE c \in Ahead(b)
    BY DEF NoOvertaking
  <2>1. b # a /\ proc'[b] = proc[b] /\ proc[b] \in Procs /\ c \in Attempts
    BY <1>1 DEF Ahead, TypeOK
  <2>2. CASE proc[b] # p
    BY <1>1, <2>1, <2>2 DEF Ahead
  <2>3. CASE proc[b] = p
    <3>1. PICK i, j \in 1 .. Len(queue'[p]) : i < j /\ queue'[p][i] = c /\ queue'[p][j] = b
      BY <2>1, <2>3 DEF Ahead
    <3>2. i \in 1 .. Len(queue[p]) /\ j \in 1 .. Len(queue[p])
      BY <1>2, <2>1, <3>1
    <3> QED BY <1>2, <2>1, <2>3, <3>1, <3>2 DEF Ahead
  <2> QED BY <2>2, <2>3
<1> QED BY <1>4, <1>5, <1>6 DEF ChainsLive

LEMMA HandlerInTurn ==
  ASSUME TypeOK, ChainInv, ChainsLive,
         NEW a \in Attempts, Step(a) \/ StoreFails(a)
  PROVE  ChainsLive' /\ NoOvertaking
<1> DEFINE p == proc[a]
<1>1. /\ pc[a] \in Live /\ queue[p] # <<>> /\ Head(queue[p]) = a
      /\ Keeps(a) \/ Ends(a)
      /\ proc' = proc /\ p \in Procs /\ queue[p] \in Seq(Attempts)
  BY HandlerStep DEF TypeOK, Live
<1>2. \A b \in Attempts \ {a} : pc'[b] = pc[b]
  BY <1>1 DEF Keeps, Ends, TypeOK
<1>3. CASE Keeps(a)
  <2>1. pc'[a] \in Live /\ queue' = queue
    BY <1>3 DEF Keeps, TypeOK, Live
  <2>2. \A b \in Attempts : pc[b] \in Live => pc'[b] \in Live
    BY <1>2, <2>1 DEF Live
  <2>3. \A r \in Procs : LiveChain(r)'
    BY <1>1, <2>1, <2>2, ChainStays DEF ChainsLive
  <2> QED BY <1>1, <2>1, <2>3 DEF NoOvertaking, Ahead, ChainsLive
<1>4. CASE Ends(a)
  <2>1. /\ queue'[p] = Tail(queue[p]) /\ Len(queue[p]) \in Nat /\ Len(queue'[p]) = Len(queue[p]) - 1
        /\ \A i \in 1 .. Len(queue'[p]) : /\ i + 1 \in 1 .. Len(queue[p])
                                          /\ queue'[p][i] = queue[p][i + 1]
        /\ queue[p][1] = a /\ 1 \in 1 .. Len(queue[p])
        /\ \A i \in 1 .. Len(queue[p]) : queue[p][i] \in Attempts
    BY <1>1, <1>4 DEF Ends, Release, TypeOK
  <2>2. \A r \in Procs \ {p} : queue'[r] = queue[r]
    BY <1>4 DEF Ends, Release, TypeOK
  <2>l. /\ \A i \in 1 .. Len(queue[p]) : pc[queue[p][i]] \in Live /\ proc[queue[p][i]] = p
        /\ \A i, j \in 1 .. Len(queue[p]) : queue[p][i] = queue[p][j] => i = j
    BY <1>1 DEF ChainsLive, LiveChain
  <2> HIDE DEF p
  <2>3. ASSUME NEW r \in Procs, r = p PROVE LiveChain(r)'
    <3>1. \A i \in 1 .. Len(queue'[p]) : queue'[p][i] # a
      BY <2>1, <2>l
    <3>2. \A i \in 1 .. Len(queue'[p]) : queue'[p][i] \in Attempts \ {a} /\ pc[queue'[p][i]] \in Live
                                         /\ proc[queue'[p][i]] = p
      BY <2>1, <2>l, <3>1
    <3>3. \A i \in 1 .. Len(queue'[p]) : pc'[queue'[p][i]] \in Live /\ proc'[queue'[p][i]] = p
      BY <1>1, <1>2, <3>2 DEF Live
    <3>4. ASSUME NEW i \in 1 .. Len(queue'[p]), NEW j \in 1 .. Len(queue'[p]),
                 queue'[p][i] = queue'[p][j]
          PROVE  i = j
      <4>1. queue[p][i + 1] = queue[p][j + 1] /\ i + 1 \in 1 .. Len(queue[p]) /\ j + 1 \in 1 .. Len(queue[p])
        BY <2>1, <3>4
      <4>2. i + 1 = j + 1
        BY <2>l, <4>1
      <4> QED BY <4>2
    <3> QED BY <2>3, <3>3, <3>4 DEF LiveChain
  <2>4. \A r \in Procs \ {p} : LiveChain(r)'
    <3> SUFFICES ASSUME NEW r \in Procs \ {p} PROVE LiveChain(r)'
      OBVIOUS
    <3>1. \A b \in Attempts : pc[b] \in Live /\ proc[b] = r => pc'[b] \in Live /\ proc'[b] = r
      BY <1>1, <1>2 DEF Live, p
    <3> QED BY <2>2, <3>1, ChainStays DEF ChainsLive
  <2>5. NoOvertaking
    <3> SUFFICES ASSUME NEW b \in Attempts, NEW c \in Ahead(b)' PROVE c \in Ahead(b)
      BY DEF NoOvertaking
    <3>1. proc'[b] = proc[b] /\ proc[b] \in Procs
      BY <1>1 DEF TypeOK
    <3>2. CASE proc[b] # p
      BY <2>2, <3>1, <3>2 DEF Ahead
    <3>3. CASE proc[b] = p
      <4>1. c \in Attempts /\ \E i, j \in 1 .. Len(queue'[p]) :
                                 i < j /\ queue'[p][i] = c /\ queue'[p][j] = b
        BY <3>1, <3>3 DEF Ahead
      <4>2. PICK i, j \in 1 .. Len(queue'[p]) : i < j /\ queue'[p][i] = c /\ queue'[p][j] = b
        BY <4>1
      <4>3. i + 1 < j + 1 /\ i + 1 \in 1 .. Len(queue[p]) /\ j + 1 \in 1 .. Len(queue[p])
            /\ queue[p][i + 1] = c /\ queue[p][j + 1] = b
        BY <2>1, <4>2
      <4> QED BY <3>3, <4>1, <4>3 DEF Ahead
    <3> QED BY <3>2, <3>3
  <2> QED BY <2>3, <2>4, <2>5 DEF ChainsLive
<1> QED BY <1>1, <1>3, <1>4

LEMMA CrashInTurn ==
  ASSUME TypeOK, ChainsLive, NEW p \in Procs, Crash(p)
  PROVE  ChainsLive' /\ NoOvertaking
<1>1. /\ proc' = proc /\ queue'[p] = <<>> /\ \A r \in Procs \ {p} : queue'[r] = queue[r]
      /\ \A b \in Attempts : proc[b] # p => pc'[b] = pc[b]
      /\ \A b \in Attempts : proc[b] = p => pc'[b] # "queued"
  BY DEF Crash, TypeOK, InHandler
<1>2. LiveChain(p)'
  BY <1>1 DEF ChainsLive, LiveChain
<1>3. ASSUME NEW r \in Procs \ {p} PROVE LiveChain(r)'
  <2>1. \A b \in Attempts : pc[b] \in Live /\ proc[b] = r => pc'[b] \in Live /\ proc'[b] = r
    BY <1>1 DEF Live
  <2> QED BY <1>1, <2>1, ChainStays DEF ChainsLive
<1>4. NoOvertaking
  BY <1>1 DEF NoOvertaking, Ahead, TypeOK
<1> QED BY <1>2, <1>3, <1>4 DEF ChainsLive

LEMMA ChainsInTurn ==
  ASSUME TypeOK, ChainInv, ChainsLive, [Next]_vars
  PROVE  ChainsLive' /\ NoOvertaking
<1>1. ASSUME UNCHANGED issuanceVars PROVE ChainsLive' /\ NoOvertaking
  BY <1>1, ChainStays DEF issuanceVars, ChainsLive, NoOvertaking, Ahead
<1>2. UNCHANGED vars => UNCHANGED issuanceVars
  BY DEF vars
<1> QED BY <1>1, <1>2, ReceiveInTurn, HandlerInTurn, CrashInTurn DEF Next

LEMMA LiveChains == Spec => [](TypeOK /\ ChainInv /\ ChainsLive)
<1>1. Init => ChainsLive
  BY DEF Init, ChainsLive, LiveChain
<1>2. TypeOK /\ ChainInv /\ ChainsLive /\ [Next]_vars
        => ChainsLive'
  BY ChainsInTurn
<1> QED BY <1>1, <1>2, ChainCorrect, PTL DEF Spec

\* The lock is never left with a handler that has ended or died: whoever waits,
\* waits for the first of its chain, a live handler of its own process.  No way
\* out of resolveInvoice forgets to pass the lock on.
THEOREM LockNeverOrphaned ==
  Spec => []LockPassedOn
<1>1. ASSUME TypeOK, ChainInv, ChainsLive, NEW a \in Attempts, InHandler(a)
      PROVE  PassedOn(a)
  <2> DEFINE chain == queue[proc[a]]
  <2>1. proc[a] \in Procs /\ chain \in Seq(Attempts) /\ chain # <<>>
    BY <1>1 DEF TypeOK, ChainInv, InHandler
  <2>2. 1 \in 1 .. Len(chain) /\ Head(chain) = chain[1]
    BY <2>1
  <2> QED BY <1>1, <2>1, <2>2 DEF ChainsLive, LiveChain, Live, InHandler, PassedOn
<1>2. TypeOK /\ ChainInv /\ ChainsLive => LockPassedOn
  BY <1>1 DEF LockPassedOn
<1> QED BY <1>2, LiveChains, PTL

\* The lock is handed on in the order of the requests: who waits never finds
\* anyone new before it.  With the theorem above, a request is answered as soon
\* as finitely many handlers have gone on.
THEOREM LockInTurn == Spec => [][NoOvertaking]_vars
<1>1. TypeOK /\ ChainInv /\ ChainsLive /\ [Next]_vars => [NoOvertaking]_vars
  BY ChainsInTurn
<1> QED BY <1>1, LiveChains, PTL DEF Spec

-----------------------------------------------------------------------------
(* 2. Records and answers. *)

\* What the store guarantees: statuses of an invoice that nobody settles,
\* one record per key, one record in all of a single-use offer.
UniqueInv ==
  /\ \A a \in Attempts : status[a] \in {"unused", "invoice_pending", "invoice_created", "removed"}
  /\ \A a, b \in Stored(status) :
       (terms[a].key = terms[b].key /\ terms[a].key # NoKey) \/ SingleUse => a = b

\* How far the record of an attempt is when its handler stands at pc.
RecordOf(a) ==
  /\ pc[a] \in {"new", "queued", "checking", "reserving"} => status[a] = "unused"
  /\ pc[a] = "announcing" => status[a] = "invoice_created"
  /\ status[a] # "unused" => terms[a].key = ask[a].key /\ terms[a].request = ask[a].request
  /\ pc[a] \in {"minted", "announcing"} \/ status[a] = "invoice_created" => a \in minted

\* An answer with an invoice is about a finalised record under the key and
\* for the request that the client sent.
AnswerOf(a) ==
  Carries(a) =>
    LET b == answer[a].record
    IN /\ pc[a] = "done"
       /\ status[b] = "invoice_created"
       /\ terms[b].key = ask[a].key /\ terms[b].request = ask[a].request
       /\ answer[a].outcome = "created" => b = a /\ a \in announced

RecordInv ==
  /\ UniqueInv
  /\ \A a \in Attempts : RecordOf(a) /\ AnswerOf(a)

\* Records of other attempts: nothing changes but that pending ones may go.
Spares(S) ==
  /\ \A b \in S : \/ status'[b] = status[b]
                  \/ status[b] = "invoice_pending" /\ status'[b] = "removed"
  /\ \A b \in S : terms'[b] = terms[b]

LEMMA PurgeSpares ==
  ASSUME TypeOK, NEW S \in SUBSET Attempts, status' \in {status, Purged}, terms' = terms
  PROVE  Spares(S)
BY DEF Spares, Purged, TypeOK, LedgerTypeOK

\* The effect of an operation of the store on the records.
LEMMA StoreEffect ==
  ASSUME TypeOK, UniqueInv, NEW a \in Attempts, NEW k \in Keys \cup {NoKey}, NEW q \in Request
  PROVE  /\ Reserve(a, k, q) => /\ Spares(Attempts \ {a})
                                /\ status[a] = "unused" /\ status'[a] = "invoice_pending"
                                /\ terms'[a].key = k /\ terms'[a].request = q
                                /\ UniqueInv'
         /\ \A b \in Attempts : Replay(k, q, b) =>
              /\ Spares(Attempts) /\ UniqueInv'
              /\ status'[b] = "invoice_created" /\ terms'[b].key = k /\ terms'[b].request = q
         /\ Refuse(a, k, q) => Spares(Attempts) /\ UniqueInv'
         /\ Abandon(a) => Spares(Attempts) /\ UniqueInv'
         /\ Finalize(a) => /\ Spares(Attempts \ {a}) /\ UniqueInv'
                           /\ status[a] = "invoice_pending" /\ status'[a] = "invoice_created"
                           /\ terms'[a] = terms[a]
         /\ UNCHANGED ledgerVars => Spares(Attempts) /\ UniqueInv'
<1>s. Spares(Attempts) => UniqueInv'
  BY DEF Spares, UniqueInv, Stored
<1>1. ASSUME Reserve(a, k, q)
      PROVE  /\ Spares(Attempts \ {a})
             /\ status[a] = "unused" /\ status'[a] = "invoice_pending"
             /\ terms'[a].key = k /\ terms'[a].request = q
             /\ UniqueInv'
  <2>1. \A b \in Attempts \ {a} : status'[b] = Purged[b] /\ terms'[b] = terms[b]
    BY <1>1 DEF Reserve, TypeOK, LedgerTypeOK, Purged
  <2>2. /\ status[a] = "unused" /\ status'[a] = "invoice_pending"
        /\ terms'[a].key = k /\ terms'[a].request = q
    BY <1>1 DEF Reserve, TypeOK, LedgerTypeOK, Purged
  <2>3. Spares(Attempts \ {a})
    BY <2>1 DEF Spares, Purged
  <2>4. \A b \in Attempts : status'[b] \in {"unused", "invoice_pending", "invoice_created", "removed"}
    BY <2>2, <2>3 DEF UniqueInv, Spares
  <2>5. \A b \in Stored(status') \ {a} : b \in Stored(status) /\ b \in Stored(Purged)
    BY <2>1, <2>3 DEF Stored, Spares
  <2>6. \A b \in Stored(status') \ {a} : k # NoKey => terms[b].key # k
    BY <1>1, <2>5 DEF Reserve, MayReserve, KeyHolders
  <2>7. SingleUse => Stored(status') \ {a} = {}
    BY <1>1, <2>1, <2>4, <2>5 DEF Reserve, MayReserve, Prior, Stored
  <2>8. ASSUME NEW b \in Stored(status'), NEW c \in Stored(status'),
               (terms'[b].key = terms'[c].key /\ terms'[b].key # NoKey) \/ SingleUse
        PROVE  b = c
    <3>1. b \in Attempts /\ c \in Attempts
      BY DEF Stored
    <3> QED BY <2>1, <2>2, <2>5, <2>6, <2>7, <2>8, <3>1 DEF UniqueInv
  <2> QED BY <2>2, <2>3, <2>4, <2>8 DEF UniqueInv
<1>2. ASSUME NEW b \in Attempts, Replay(k, q, b)
      PROVE  /\ Spares(Attempts) /\ UniqueInv'
             /\ status'[b] = "invoice_created" /\ terms'[b].key = k /\ terms'[b].request = q
  <2>1. Spares(Attempts)
    BY <1>2, PurgeSpares DEF Replay
  <2>2. status'[b] = "invoice_created"
    BY <1>2, <2>1, <1>s DEF Replay, Replays, KeyHolders, Stored, UniqueInv
  <2> QED BY <1>2, <2>1, <2>2, <1>s DEF Replay, Replays, KeyHolders
<1>3. ASSUME Refuse(a, k, q)
      PROVE  Spares(Attempts) /\ UniqueInv'
  BY <1>3, <1>s, PurgeSpares DEF Refuse
<1>4. ASSUME Abandon(a)
      PROVE  Spares(Attempts) /\ UniqueInv'
  <2>1. Spares(Attempts)
    BY <1>4 DEF Abandon, Spares, TypeOK, LedgerTypeOK
  <2> QED BY <2>1, <1>s
<1>5. ASSUME Finalize(a)
      PROVE  /\ Spares(Attempts \ {a}) /\ UniqueInv'
             /\ status[a] = "invoice_pending" /\ status'[a] = "invoice_created"
             /\ terms'[a] = terms[a]
  <2>1. status' = [status EXCEPT ![a] = "invoice_created"] /\ terms' = terms
        /\ status[a] = "invoice_pending"
    BY <1>5 DEF Finalize
  <2>2. Stored(status') = Stored(status)
    BY <2>1 DEF Stored, TypeOK, LedgerTypeOK
  <2> QED BY <2>1, <2>2 DEF Spares, UniqueInv, TypeOK, LedgerTypeOK
<1>6. ASSUME UNCHANGED ledgerVars
      PROVE  Spares(Attempts) /\ UniqueInv'
  BY <1>6, <1>s DEF ledgerVars, Spares
<1> QED BY <1>1, <1>2, <1>3, <1>4, <1>5, <1>6

\* What a step of attempt a leaves alone, the records and answers of others.
LEMMA OthersKeep ==
  ASSUME TypeOK, RecordInv, NEW a \in Attempts,
         Spares(Attempts \ {a}),
         status[a] = "invoice_created" => status'[a] = status[a] /\ terms'[a] = terms[a],
         \A b \in Attempts \ {a} : pc'[b] = pc[b] /\ answer'[b] = answer[b],
         UNCHANGED ask, minted \subseteq minted', announced \subseteq announced'
  PROVE  \A b \in Attempts \ {a} : RecordOf(b)' /\ AnswerOf(b)'
<1> SUFFICES ASSUME NEW b \in Attempts \ {a} PROVE RecordOf(b)' /\ AnswerOf(b)'
  OBVIOUS
<1>1. RecordOf(b) /\ AnswerOf(b) /\ answer[b].record \in Attempts
  BY DEF RecordInv, TypeOK
<1>2. RecordOf(b)'
  BY <1>1 DEF RecordOf, Spares
<1>3. status[answer[b].record] = "invoice_created" =>
        /\ status'[answer[b].record] = "invoice_created"
        /\ terms'[answer[b].record] = terms[answer[b].record]
  BY <1>1 DEF Spares
<1>4. AnswerOf(b)'
  BY <1>1, <1>3 DEF AnswerOf, Carries
<1> QED BY <1>2, <1>4

\* The control part of an answer, and of going on.
LEMMA RespondEffect ==
  ASSUME TypeOK, NEW a \in Attempts, NEW from, NEW o, NEW r, Respond(a, from, o, r)
  PROVE  /\ pc[a] = from /\ pc'[a] = "done"
         /\ answer'[a].outcome = o /\ answer'[a].record = r
         /\ \A b \in Attempts \ {a} : pc'[b] = pc[b] /\ answer'[b] = answer[b]
         /\ UNCHANGED <<ask, minted>>
BY DEF Respond, Goto, TypeOK

LEMMA ContinueEffect ==
  ASSUME TypeOK, NEW a \in Attempts, NEW from, NEW to, Continue(a, from, to)
  PROVE  /\ pc[a] = from /\ pc'[a] = to /\ answer'[a] = answer[a]
         /\ \A b \in Attempts \ {a} : pc'[b] = pc[b] /\ answer'[b] = answer[b]
         /\ UNCHANGED ask
BY DEF Continue, Goto, TypeOK

LEMMA HandlerRecords ==
  ASSUME TypeOK, RecordInv, NEW a \in Attempts, Step(a) \/ StoreFails(a)
  PROVE  RecordInv'
<1> DEFINE k == ask[a].key
           q == ask[a].request
<1>t. k \in Keys \cup {NoKey} /\ q \in Request
  BY DEF TypeOK
<1>i. UniqueInv /\ RecordOf(a) /\ AnswerOf(a)
  BY DEF RecordInv
<1>e. /\ Reserve(a, k, q) => /\ Spares(Attempts \ {a})
                             /\ status[a] = "unused" /\ status'[a] = "invoice_pending"
                             /\ terms'[a].key = k /\ terms'[a].request = q
                             /\ UniqueInv'
      /\ \A b \in Attempts : Replay(k, q, b) =>
           /\ Spares(Attempts) /\ UniqueInv'
           /\ status'[b] = "invoice_created" /\ terms'[b].key = k /\ terms'[b].request = q
      /\ Refuse(a, k, q) => Spares(Attempts) /\ UniqueInv'
      /\ Abandon(a) => Spares(Attempts) /\ UniqueInv'
      /\ Finalize(a) => /\ Spares(Attempts \ {a}) /\ UniqueInv'
                        /\ status[a] = "invoice_pending" /\ status'[a] = "invoice_created"
                        /\ terms'[a] = terms[a]
      /\ UNCHANGED ledgerVars => Spares(Attempts) /\ UniqueInv'
  <2> HIDE DEF k, q
  <2> QED BY <1>t, <1>i, StoreEffect
<1>s. Spares(Attempts) =>
        /\ Spares(Attempts \ {a}) /\ terms'[a] = terms[a]
        /\ \/ status'[a] = status[a]
           \/ status[a] = "invoice_pending" /\ status'[a] = "removed"
  BY DEF Spares
<1>r. \A from, o, r : Respond(a, from, o, r) =>
        /\ pc[a] = from /\ pc'[a] = "done"
        /\ answer'[a].outcome = o /\ answer'[a].record = r
        /\ \A b \in Attempts \ {a} : pc'[b] = pc[b] /\ answer'[b] = answer[b]
        /\ UNCHANGED <<ask, minted>>
  BY RespondEffect
<1>c. \A from, to : Continue(a, from, to) =>
        /\ pc[a] = from /\ pc'[a] = to /\ answer'[a] = answer[a]
        /\ \A b \in Attempts \ {a} : pc'[b] = pc[b] /\ answer'[b] = answer[b]
        /\ UNCHANGED ask
  BY ContinueEffect
\* what is left to show of an action
<1> DEFINE Effect ==
      /\ UniqueInv' /\ RecordOf(a)' /\ AnswerOf(a)'
      /\ Spares(Attempts \ {a})
      /\ status[a] = "invoice_created" => status'[a] = status[a] /\ terms'[a] = terms[a]
      /\ \A b \in Attempts \ {a} : pc'[b] = pc[b] /\ answer'[b] = answer[b]
      /\ UNCHANGED ask /\ minted \subseteq minted' /\ announced \subseteq announced'
<1>1. ASSUME Acquire(a) PROVE Effect
  BY <1>1, <1>i, <1>e, <1>s, <1>r, <1>c DEF Acquire, RecordOf, AnswerOf, Carries, Critical
<1>2. ASSUME CheckOffer(a) PROVE Effect
  BY <1>2, <1>i, <1>e, <1>s, <1>r, <1>c DEF CheckOffer, RecordOf, AnswerOf, Carries
<1>3. ASSUME ReserveInvoice(a) PROVE Effect
  <2>1. CASE Reserve(a, k, q) /\ Continue(a, "reserving", "minting") /\ UNCHANGED minted
    BY <1>3, <2>1, <1>i, <1>e, <1>r, <1>c DEF ReserveInvoice, RecordOf, AnswerOf, Carries
  <2>2. ASSUME NEW b \in Attempts, Replay(k, q, b), Respond(a, "reserving", "replayed", b)
        PROVE  Effect
    BY <1>3, <2>2, <1>i, <1>e, <1>s, <1>r, <1>c DEF ReserveInvoice, RecordOf, AnswerOf, Carries
  <2>3. CASE Refuse(a, k, q) /\ Respond(a, "reserving", "refused", a)
    BY <1>3, <2>3, <1>i, <1>e, <1>s, <1>r, <1>c DEF ReserveInvoice, RecordOf, AnswerOf, Carries
  <2> QED BY <1>3, <2>1, <2>2, <2>3 DEF ReserveInvoice
<1>4. ASSUME NodeMints(a) PROVE Effect
  BY <1>4, <1>i, <1>e, <1>s, <1>r, <1>c DEF NodeMints, RecordOf, AnswerOf, Carries
<1>5. ASSUME MintFails(a) PROVE Effect
  BY <1>5, <1>i, <1>e, <1>s, <1>r, <1>c DEF MintFails, RecordOf, AnswerOf, Carries
<1>6. ASSUME AbandonReservation(a) PROVE Effect
  BY <1>6, <1>i, <1>e, <1>s, <1>r, <1>c DEF AbandonReservation, RecordOf, AnswerOf, Carries
<1>7. ASSUME FinalizeInvoice(a) PROVE Effect
  BY <1>7, <1>i, <1>e, <1>s, <1>r, <1>c DEF FinalizeInvoice, RecordOf, AnswerOf, Carries
<1>8. ASSUME AnnounceInvoice(a) PROVE Effect
  BY <1>8, <1>i, <1>e, <1>s, <1>r, <1>c DEF AnnounceInvoice, RecordOf, AnswerOf, Carries
<1>9. ASSUME StoreFails(a) PROVE Effect
  BY <1>9, <1>i, <1>e, <1>s, <1>r, <1>c DEF StoreFails, RecordOf, AnswerOf, Carries
<1>10. Effect
  BY <1>1, <1>2, <1>3, <1>4, <1>5, <1>6, <1>7, <1>8, <1>9 DEF Step
<1> QED BY <1>10, OthersKeep DEF RecordInv

\* A request that arrives has no record yet, so its key and request are new.
LEMMA ReceiveRecords ==
  ASSUME TypeOK, RecordInv, NEW a \in Attempts, NEW p \in Procs,
         NEW k \in Keys \cup {NoKey}, NEW q \in Request, Receive(a, p, k, q)
  PROVE  RecordInv'
<1>1. /\ pc[a] = "new" /\ pc'[a] = "queued" /\ status[a] = "unused"
      /\ \A b \in Attempts \ {a} : pc'[b] = pc[b] /\ ask'[b] = ask[b]
      /\ UNCHANGED <<status, terms, minted, announced, answer>>
  BY DEF Receive, Goto, TypeOK, RecordInv, RecordOf, ledgerVars
<1>2. UniqueInv'
  BY <1>1 DEF RecordInv, UniqueInv, Stored
<1>3. ASSUME NEW b \in Attempts PROVE RecordOf(b)' /\ AnswerOf(b)'
  <2>1. RecordOf(b) /\ AnswerOf(b)
    BY DEF RecordInv
  <2>2. RecordOf(b)'
    BY <1>1, <2>1 DEF RecordOf
  <2>3. AnswerOf(b)'
    BY <1>1, <2>1 DEF AnswerOf, Carries
  <2> QED BY <2>2, <2>3
<1> QED BY <1>2, <1>3 DEF RecordInv

LEMMA CrashRecords ==
  ASSUME TypeOK, RecordInv, NEW p \in Procs, Crash(p)
  PROVE  RecordInv'
<1>1. /\ \A b \in Attempts : pc'[b] = pc[b] \/ (InHandler(b) /\ pc'[b] = "lost")
      /\ UNCHANGED <<status, terms, ask, minted, announced, answer>>
  BY DEF Crash, TypeOK, ledgerVars
<1>2. UniqueInv'
  BY <1>1 DEF RecordInv, UniqueInv, Stored
<1>3. ASSUME NEW b \in Attempts PROVE RecordOf(b)' /\ AnswerOf(b)'
  <2>1. RecordOf(b) /\ AnswerOf(b)
    BY DEF RecordInv
  <2>2. RecordOf(b)'
    BY <1>1, <2>1 DEF RecordOf
  <2>3. AnswerOf(b)'
    BY <1>1, <2>1 DEF AnswerOf, Carries, InHandler, Critical
  <2> QED BY <2>2, <2>3
<1> QED BY <1>2, <1>3 DEF RecordInv

LEMMA RecordNext == TypeOK /\ RecordInv /\ [Next]_vars => RecordInv'
<1> SUFFICES ASSUME TypeOK, RecordInv, [Next]_vars PROVE RecordInv'
  OBVIOUS
<1>1. ASSUME UNCHANGED <<status, terms, pc, ask, minted, announced, answer>>
      PROVE  RecordInv'
  BY <1>1 DEF RecordInv, UniqueInv, Stored, RecordOf, AnswerOf, Carries
<1>2. ASSUME NEW a \in Attempts, Lapse(a), UNCHANGED issuanceVars
      PROVE  RecordInv'
  BY <1>1, <1>2 DEF Lapse, issuanceVars
<1>3. ASSUME Revoke, UNCHANGED issuanceVars
      PROVE  RecordInv'
  BY <1>1, <1>3 DEF Revoke, issuanceVars
<1>4. CASE UNCHANGED vars
  BY <1>1, <1>4 DEF vars, ledgerVars, issuanceVars
<1> QED BY <1>2, <1>3, <1>4, ReceiveRecords, HandlerRecords, CrashRecords DEF Next

LEMMA RecordCorrect == Spec => [](TypeOK /\ RecordInv)
<1>1. Init => RecordInv
  BY DEF Init, LedgerInit, RecordInv, UniqueInv, Stored, RecordOf, AnswerOf, Carries
<1> QED BY <1>1, RecordNext, TypeCorrect, PTL DEF Spec

\* Answers under one idempotency key are about one record and one request,
\* for any number of keys, attempts and processes.
THEOREM IdempotenceCorrect == Spec => []IdempotentAnswers
<1>1. TypeOK /\ RecordInv => IdempotentAnswers
  <2> SUFFICES ASSUME TypeOK, RecordInv, NEW a \in Attempts, NEW b \in Attempts,
                      Carries(a), Carries(b), ask[a].key = ask[b].key, ask[a].key # NoKey
               PROVE  answer[a].record = answer[b].record /\ ask[a].request = ask[b].request
    BY DEF IdempotentAnswers
  <2>1. AnswerOf(a) /\ AnswerOf(b) /\ UniqueInv
    BY DEF RecordInv
  <2>2. answer[a].record \in Stored(status) /\ answer[b].record \in Stored(status)
    BY <2>1 DEF AnswerOf, Stored, TypeOK
  <2> QED BY <2>1, <2>2 DEF AnswerOf, UniqueInv
<1> QED BY <1>1, RecordCorrect, PTL

\* A single-use offer hands out one record.
THEOREM SingleUseCorrect == Spec => []SingleUseOnce
<1>1. TypeOK /\ RecordInv => SingleUseOnce
  <2> SUFFICES ASSUME TypeOK, RecordInv, SingleUse, NEW a \in Attempts, NEW b \in Attempts,
                      Carries(a), Carries(b)
               PROVE  answer[a].record = answer[b].record
    BY DEF SingleUseOnce
  <2>1. AnswerOf(a) /\ AnswerOf(b) /\ UniqueInv
    BY DEF RecordInv
  <2>2. answer[a].record \in Stored(status) /\ answer[b].record \in Stored(status)
    BY <2>1 DEF AnswerOf, Stored, TypeOK
  <2> QED BY <2>1, <2>2 DEF UniqueInv
<1> QED BY <1>1, RecordCorrect, PTL

\* An answer with an invoice is about a finalised record whose invoice the
\* Fiber node holds.
THEOREM AnswersCorrect == Spec => []AnswersBacked
<1>1. TypeOK /\ RecordInv => AnswersBacked
  <2> SUFFICES ASSUME TypeOK, RecordInv, NEW a \in Attempts, Carries(a)
               PROVE  LET b == answer[a].record
                      IN /\ b \in Stored(status) /\ status[b] # "invoice_pending"
                         /\ b \in minted
                         /\ answer[a].outcome = "created" => b = a /\ a \in announced
    BY DEF AnswersBacked
  <2>1. answer[a].record \in Attempts /\ AnswerOf(a) /\ RecordOf(answer[a].record)
    BY DEF TypeOK, RecordInv
  <2> QED BY <2>1 DEF AnswerOf, RecordOf, Stored
<1> QED BY <1>1, RecordCorrect, PTL

\* A step of a handler: its own reservation has it at a later stage, or ends
\* with an answer that says so.
LEMMA HandlerOwns ==
  ASSUME TypeOK, RecordInv, ReservationsOwned, NEW a \in Attempts, Step(a) \/ StoreFails(a)
  PROVE  ReservationsOwned'
<1> DEFINE k == ask[a].key
           q == ask[a].request
           Owned == \/ pc'[a] \in {"minting", "minted", "abandoning", "lost"}
                    \/ answer'[a].outcome = "error"
                    \/ Transactional /\ answer'[a].outcome = "unavailable"
           Effect == /\ status'[a] = "invoice_pending" => Owned
                     /\ Spares(Attempts \ {a})
                     /\ \A b \in Attempts \ {a} : pc'[b] = pc[b] /\ answer'[b] = answer[b]
<1>e. /\ Reserve(a, k, q) => Spares(Attempts \ {a})
      /\ \A b \in Attempts : Replay(k, q, b) => Spares(Attempts)
      /\ Refuse(a, k, q) => Spares(Attempts)
      /\ Abandon(a) => Spares(Attempts) /\ status'[a] # "invoice_pending"
      /\ Finalize(a) => Spares(Attempts \ {a}) /\ status'[a] # "invoice_pending"
      /\ UNCHANGED ledgerVars => Spares(Attempts)
  <2>1. k \in Keys \cup {NoKey} /\ q \in Request /\ UniqueInv
    BY DEF TypeOK, RecordInv
  <2>2. Abandon(a) => status'[a] # "invoice_pending"
    BY DEF Abandon, TypeOK, LedgerTypeOK
  <2> HIDE DEF k, q
  <2> QED BY <2>1, <2>2, StoreEffect
<1>s. Spares(Attempts) => Spares(Attempts \ {a}) /\ status'[a] \in {status[a], "removed"}
  BY DEF Spares
<1>r. \A from, o, r : Respond(a, from, o, r) =>
        /\ pc[a] = from /\ pc'[a] = "done" /\ answer'[a].outcome = o
        /\ \A b \in Attempts \ {a} : pc'[b] = pc[b] /\ answer'[b] = answer[b]
  BY RespondEffect
<1>c. \A from, to : Continue(a, from, to) =>
        /\ pc[a] = from /\ pc'[a] = to
        /\ \A b \in Attempts \ {a} : pc'[b] = pc[b] /\ answer'[b] = answer[b]
  BY ContinueEffect
<1>i. /\ pc[a] \in {"queued", "checking", "reserving"} => status[a] = "unused"
      /\ pc[a] = "announcing" => status[a] = "invoice_created"
  BY DEF RecordInv, RecordOf
<1>1. ASSUME Acquire(a) PROVE Effect
  BY <1>1, <1>e, <1>s, <1>r, <1>c, <1>i DEF Acquire
<1>2. ASSUME CheckOffer(a) PROVE Effect
  BY <1>2, <1>e, <1>s, <1>r, <1>c, <1>i DEF CheckOffer
<1>3. ASSUME ReserveInvoice(a) PROVE Effect
  BY <1>3, <1>e, <1>s, <1>r, <1>c, <1>i DEF ReserveInvoice
<1>4. ASSUME NodeMints(a) \/ MintFails(a) PROVE Effect
  BY <1>4, <1>e, <1>s, <1>c DEF NodeMints, MintFails
<1>5. ASSUME AbandonReservation(a) PROVE Effect
  BY <1>5, <1>e, <1>s, <1>r DEF AbandonReservation
<1>6. ASSUME FinalizeInvoice(a) PROVE Effect
  BY <1>6, <1>e, <1>s, <1>r, <1>c DEF FinalizeInvoice
<1>7. ASSUME AnnounceInvoice(a) PROVE Effect
  BY <1>7, <1>e, <1>s, <1>r, <1>i DEF AnnounceInvoice
<1>8. ASSUME StoreFails(a) PROVE Effect
  BY <1>8, <1>e, <1>s, <1>r DEF StoreFails
<1>9. Effect
  BY <1>1, <1>2, <1>3, <1>4, <1>5, <1>6, <1>7, <1>8 DEF Step
<1> QED BY <1>9 DEF ReservationsOwned, Spares

\* A reservation never outlives its handler unnoticed: the handler still works
\* on it, or it died, or a call of the store failed.
THEOREM OwnedCorrect == Spec => []ReservationsOwned
<1>1. Init => ReservationsOwned
  BY DEF Init, LedgerInit, ReservationsOwned
<1>2. TypeOK /\ RecordInv /\ ReservationsOwned /\ [Next]_vars => ReservationsOwned'
  <2> SUFFICES ASSUME TypeOK, RecordInv, ReservationsOwned, [Next]_vars
               PROVE  ReservationsOwned'
    OBVIOUS
  <2>1. ASSUME UNCHANGED <<status, answer>>,
               \A b \in Attempts : pc[b] \in {"minting", "minted", "abandoning", "lost"} =>
                                     pc'[b] = pc[b] \/ pc'[b] = "lost"
        PROVE  ReservationsOwned'
    BY <2>1 DEF ReservationsOwned
  <2>2. ASSUME NEW a \in Attempts, NEW p \in Procs, NEW k \in Keys \cup {NoKey},
               NEW q \in Request, Receive(a, p, k, q)
        PROVE  ReservationsOwned'
    BY <2>1, <2>2 DEF Receive, Goto, ledgerVars, TypeOK
  <2>3. ASSUME NEW p \in Procs, Crash(p) PROVE ReservationsOwned'
    BY <2>1, <2>3 DEF Crash, ledgerVars, TypeOK
  <2>4. CASE UNCHANGED <<status, answer, pc>>
    BY <2>1, <2>4
  <2>5. ASSUME NEW a \in Attempts, Lapse(a), UNCHANGED issuanceVars PROVE ReservationsOwned'
    BY <2>4, <2>5 DEF Lapse, issuanceVars
  <2>6. CASE Revoke /\ UNCHANGED issuanceVars
    BY <2>4, <2>6 DEF Revoke, issuanceVars
  <2>7. CASE UNCHANGED vars
    BY <2>4, <2>7 DEF vars, ledgerVars, issuanceVars
  <2> QED BY <2>2, <2>3, <2>5, <2>6, <2>7, HandlerOwns DEF Next
<1> QED BY <1>1, <1>2, RecordCorrect, PTL DEF Spec

-----------------------------------------------------------------------------
(* 3. The caps of a recurring offer. *)

\* Next, as the store sees it.
LEMMA LedgerNext ==
  ASSUME TypeOK, [Next]_vars
  PROVE  \/ \E a \in Attempts :
              \/ \E k \in Keys \cup {NoKey}, q \in Request :
                   Reserve(a, k, q) \/ Refuse(a, k, q) \/ Replay(k, q, a)
              \/ Finalize(a) \/ Abandon(a) \/ Lapse(a)
         \/ Revoke
         \/ UNCHANGED ledgerVars
<1> DEFINE Ledger ==
      \/ \E a \in Attempts :
           \/ \E k \in Keys \cup {NoKey}, q \in Request :
                Reserve(a, k, q) \/ Refuse(a, k, q) \/ Replay(k, q, a)
           \/ Finalize(a) \/ Abandon(a) \/ Lapse(a)
      \/ Revoke
      \/ UNCHANGED ledgerVars
<1>1. ASSUME NEW a \in Attempts, Step(a) \/ StoreFails(a)
      PROVE  Ledger
  <2>1. ask[a].key \in Keys \cup {NoKey} /\ ask[a].request \in Request
    BY DEF TypeOK
  <2> QED BY <1>1, <2>1 DEF Step, StoreFails, Acquire, CheckOffer, ReserveInvoice, NodeMints,
             MintFails, AbandonReservation, FinalizeInvoice, AnnounceInvoice
<1>2. ASSUME NEW a \in Attempts, NEW p \in Procs, NEW k \in Keys \cup {NoKey},
             NEW q \in Request, Receive(a, p, k, q)
      PROVE  Ledger
  BY <1>2 DEF Receive
<1>3. ASSUME NEW p \in Procs, Crash(p)
      PROVE  Ledger
  BY <1>3 DEF Crash
<1>4. CASE UNCHANGED vars
  BY <1>4 DEF vars
<1> QED BY <1>1, <1>2, <1>3, <1>4 DEF Next

\* A record has a cycle exactly when the offer is recurring, and the cycles
\* fit the caps.
CapInv == CyclesCounted /\ CapsRespected

LEMMA CapNext == TypeOK /\ UniqueInv /\ CapInv /\ [Next]_vars => CapInv'
<1> SUFFICES ASSUME TypeOK, UniqueInv, CapInv, [Next]_vars PROVE CapInv'
  OBVIOUS
<1>t. LedgerTypeOK
  BY DEF TypeOK
<1>s. ASSUME Spares(Attempts) PROVE CapInv'
  <2>1. \A a \in Stored(status') : a \in Stored(status) /\ terms'[a] = terms[a]
    BY <1>s DEF Spares, Stored
  <2>2. \A a \in Attempts : status[a] # "invoice_failed"
    BY DEF UniqueInv
  <2> QED BY <2>1, <2>2, FewerKeepCaps DEF CapInv
<1>1. ASSUME NEW a \in Attempts, NEW k \in Keys \cup {NoKey}, NEW q \in Request, Reserve(a, k, q)
      PROVE  CapInv'
  BY <1>1, <1>t, ReserveKeepsCaps DEF CapInv
<1>2. ASSUME NEW a \in Attempts, Finalize(a) PROVE CapInv'
  <2>1. \A b \in Stored(status') : b \in Stored(status) /\ terms'[b] = terms[b]
    BY <1>2, <1>t DEF Finalize, Stored, LedgerTypeOK
  <2>2. \A b \in Attempts : status[b] # "invoice_failed"
    BY DEF UniqueInv
  <2> QED BY <2>1, <2>2, FewerKeepCaps DEF CapInv
<1>3. ASSUME NEW a \in Attempts, NEW k \in Keys \cup {NoKey}, NEW q \in Request,
             Replay(k, q, a) \/ Refuse(a, k, q)
      PROVE  CapInv'
  BY <1>3, <1>s, StoreEffect
<1>4. ASSUME NEW a \in Attempts, Abandon(a) \/ Lapse(a) PROVE CapInv'
  BY <1>4, <1>s DEF Abandon, Lapse, Spares, TypeOK, LedgerTypeOK
<1>5. ASSUME Revoke \/ UNCHANGED ledgerVars PROVE CapInv'
  BY <1>5, <1>s DEF Revoke, ledgerVars, Spares
<1> QED BY <1>1, <1>2, <1>3, <1>4, <1>5, LedgerNext

LEMMA CapCorrect == Spec => [](TypeOK /\ RecordInv /\ CapInv)
<1>1. Init => CapInv
  BY CapsInit DEF Init, CapInv
<1>2. RecordInv => UniqueInv
  BY DEF RecordInv
<1> QED BY <1>1, <1>2, CapNext, RecordCorrect, PTL DEF Spec

\* Issuance never exceeds the caps the payer signed, for any cap, amount,
\* number of attempts and processes.
THEOREM CapsCorrect == Spec => []CapsRespected
<1>1. CapInv => CapsRespected
  BY DEF CapInv
<1> QED BY <1>1, CapCorrect, PTL

-----------------------------------------------------------------------------
(* 4. The cycles of a recurring offer in the local store, while nobody dies.*)
(*    Over PostgreSQL, or when a process dies, they may have gaps.         *)

Calm == ~Transactional /\ MaxFaults = 0

\* nobody was cut short
Faultless == \A a \in Attempts : pc[a] # "lost" /\ answer[a].outcome # "error"

LEMMA FaultlessNext ==
  ASSUME Calm, TypeOK, Faultless, [Next]_vars
  PROVE  Faultless'
<1>1. ~\E p \in Procs : Crash(p)
  BY DEF Calm, Crash, TypeOK
<1>2. ~\E a \in Attempts : StoreFails(a)
  BY DEF Calm, StoreFails, TypeOK
<1>3. ASSUME NEW a \in Attempts, NEW p \in Procs, NEW k \in Keys \cup {NoKey},
             NEW q \in Request, Receive(a, p, k, q)
      PROVE  Faultless'
  BY <1>3 DEF Faultless, Receive, Goto, TypeOK
<1>4. ASSUME NEW a \in Attempts, Step(a) PROVE Faultless'
  <2>1. \A from, o, r : Respond(a, from, o, r) =>
          /\ pc'[a] = "done" /\ answer'[a].outcome = o
          /\ \A b \in Attempts \ {a} : pc'[b] = pc[b] /\ answer'[b] = answer[b]
    BY RespondEffect
  <2>2. \A from, to : Continue(a, from, to) =>
          /\ pc'[a] = to /\ answer'[a] = answer[a]
          /\ \A b \in Attempts \ {a} : pc'[b] = pc[b] /\ answer'[b] = answer[b]
    BY ContinueEffect
  <2>3. pc'[a] # "lost" /\ answer'[a].outcome # "error"
        /\ \A b \in Attempts \ {a} : pc'[b] = pc[b] /\ answer'[b] = answer[b]
    BY <1>4, <2>1, <2>2 DEF Faultless, Step, Acquire, CheckOffer, ReserveInvoice, NodeMints,
       MintFails, AbandonReservation, FinalizeInvoice, AnnounceInvoice
  <2> QED BY <2>3 DEF Faultless
<1>5. CASE UNCHANGED issuanceVars
  BY <1>5 DEF Faultless, issuanceVars
<1>6. CASE UNCHANGED vars
  BY <1>5, <1>6 DEF vars
<1> QED BY <1>1, <1>2, <1>3, <1>4, <1>5, <1>6 DEF Next

\* With one process the lock leaves room for one reservation only: that of
\* the handler past it.
LEMMA OnePending ==
  ASSUME Calm, TypeOK, ChainInv, ReservationsOwned, Faultless,
         NEW a \in Attempts, status[a] = "invoice_pending"
  PROVE  \A b \in Attempts : pc[b] \in Critical \/ status[b] = "invoice_pending" => b = a
<1>1. \A b \in Attempts : status[b] = "invoice_pending" => pc[b] \in Critical
  BY DEF ReservationsOwned, Faultless, Calm, Critical
<1>2. \A b, c \in Attempts : proc[b] = proc[c]
  BY IssuanceAssumption DEF Calm, TypeOK
<1>3. \A b, c \in Attempts : pc[b] \in Critical /\ pc[c] \in Critical => b = c
  BY <1>2 DEF TypeOK, ChainInv
<1> QED BY <1>1, <1>3

\* The live cycles are 1 .. n, each taken once, and a reservation has the last.
CycleInv ==
  LET live == CycleRecords(status)
  IN Recurring =>
       /\ {terms[a].cycle : a \in live} = 1 .. Cardinality(live)
       /\ \A a, b \in live : terms[a].cycle = terms[b].cycle => a = b
       /\ \A a \in live : status[a] = "invoice_pending" => terms[a].cycle = Cardinality(live)

LEMMA ReserveNumbers ==
  ASSUME TypeOK, CycleInv, Recurring, \A b \in Attempts : status[b] # "invoice_pending",
         NEW a \in Attempts, NEW k, NEW q, Reserve(a, k, q)
  PROVE  CycleInv'
<1> DEFINE live == CycleRecords(status)
           n == Cardinality(live)
<1>1. Purged = status
  BY DEF Purged, TypeOK, LedgerTypeOK
<1>2. /\ status[a] = "unused" /\ status' = [status EXCEPT ![a] = "invoice_pending"]
      /\ terms'[a].cycle = n + 1 /\ \A b \in Attempts \ {a} : terms'[b] = terms[b]
  BY <1>1 DEF Reserve, CycleOf, NextCycle, TypeOK, LedgerTypeOK
<1>3. IsFiniteSet(live) /\ n \in Nat /\ live \subseteq Attempts /\ a \notin live
  BY <1>2, NextCycleType DEF CycleRecords, Prior, Stored
<1>4. CycleRecords(status)' = live \cup {a}
  BY <1>2, <1>3 DEF CycleRecords, Prior, Stored, TypeOK, LedgerTypeOK
<1>5. Cardinality(live \cup {a}) = n + 1
  BY <1>3, FS_AddElement
<1>6. /\ {terms[b].cycle : b \in live} = 1 .. n
      /\ \A b, c \in live : terms[b].cycle = terms[c].cycle => b = c
  BY DEF CycleInv
<1>7. \A b \in live : status'[b] # "invoice_pending"
  BY <1>2, <1>3 DEF TypeOK, LedgerTypeOK
<1> HIDE DEF live, n
<1>8. {terms'[b].cycle : b \in live \cup {a}} = 1 .. n + 1
  <2>1. \A b \in live : terms'[b].cycle = terms[b].cycle
    BY <1>2, <1>3
  <2>2. {terms'[b].cycle : b \in live} = 1 .. n
    BY <1>6, <2>1
  <2>3. {terms'[b].cycle : b \in live \cup {a}} = {terms'[b].cycle : b \in live} \cup {n + 1}
    BY <1>2
  <2> QED BY <1>3, <2>2, <2>3
<1>9. \A b, c \in live \cup {a} : terms'[b].cycle = terms'[c].cycle => b = c
  <2>1. \A b \in live : terms'[b].cycle = terms[b].cycle /\ terms[b].cycle \in 1 .. n
    BY <1>2, <1>3, <1>6
  <2> QED BY <1>2, <1>3, <1>6, <2>1
<1> QED BY <1>2, <1>4, <1>5, <1>7, <1>8, <1>9 DEF CycleInv

LEMMA AbandonFreesLast ==
  ASSUME TypeOK, CyclesCounted, CycleInv, Recurring, NEW a \in Attempts, Abandon(a),
         status[a] = "invoice_pending",
         \A b \in Attempts : status[b] = "invoice_pending" => b = a
  PROVE  CycleInv'
<1> DEFINE live == CycleRecords(status)
           n == Cardinality(live)
<1>1. status' = [status EXCEPT ![a] = "removed"] /\ terms' = terms
  BY DEF Abandon
<1>2. IsFiniteSet(live) /\ n \in Nat /\ live \subseteq Attempts /\ a \in live
  BY NextCycleType DEF CycleRecords, Prior, Stored, CyclesCounted
<1>3. CycleRecords(status)' = live \ {a}
  BY <1>1, <1>2 DEF CycleRecords, Prior, Stored, TypeOK, LedgerTypeOK
<1>4. Cardinality(live \ {a}) = n - 1
  BY <1>2, FS_RemoveElement
<1>5. /\ {terms[b].cycle : b \in live} = 1 .. n
      /\ \A b, c \in live : terms[b].cycle = terms[c].cycle => b = c
      /\ terms[a].cycle = n
  BY <1>2 DEF CycleInv
<1>6. \A b \in live \ {a} : status'[b] # "invoice_pending"
  BY <1>1, <1>2 DEF TypeOK, LedgerTypeOK
<1> HIDE DEF live, n
<1>7. {terms[b].cycle : b \in live \ {a}} = 1 .. n - 1
  <2>1. {terms[b].cycle : b \in live \ {a}} = (1 .. n) \ {n}
    BY <1>2, <1>5
  <2> QED BY <1>2, <2>1
<1>8. {terms'[b].cycle : b \in live \ {a}} = 1 .. n - 1
  BY <1>1, <1>7
<1>9. \A b, c \in live \ {a} : terms'[b].cycle = terms'[c].cycle => b = c
  BY <1>1, <1>5
<1> QED BY <1>3, <1>4, <1>6, <1>8, <1>9 DEF CycleInv

LEMMA CycleNext ==
  ASSUME Calm, TypeOK, ChainInv, ReservationsOwned, Faultless, CyclesCounted, CycleInv,
         [Next]_vars
  PROVE  CycleInv'
<1> SUFFICES ASSUME Recurring PROVE CycleInv'
  BY DEF CycleInv
<1>u. ASSUME UNCHANGED <<status, terms>> PROVE CycleInv'
  BY <1>u DEF CycleInv, CycleRecords, Prior, Stored
<1>1. ASSUME NEW a \in Attempts, ReserveInvoice(a) PROVE CycleInv'
  <2>1. pc[a] = "reserving"
    BY <1>1 DEF ReserveInvoice, Continue, Respond, Goto
  <2>2. ASSUME NEW b \in Attempts PROVE status[b] # "invoice_pending"
    <3> SUFFICES ASSUME status[b] = "invoice_pending" PROVE FALSE
      OBVIOUS
    <3>1. a = b
      BY <2>1, OnePending DEF Critical
    <3> QED BY <2>1, <3>1 DEF ReservationsOwned, Faultless, Calm
  <2>3. Purged = status
    BY <2>2 DEF Purged, TypeOK, LedgerTypeOK
  <2>4. \/ Reserve(a, ask[a].key, ask[a].request)
        \/ UNCHANGED <<status, terms>>
    BY <1>1, <2>3 DEF ReserveInvoice, Replay, Refuse
  <2> QED BY <1>u, <2>2, <2>4, ReserveNumbers
<1>2. ASSUME NEW a \in Attempts, FinalizeInvoice(a) PROVE CycleInv'
  <2>1. CASE Finalize(a)
    <3>1. /\ status[a] = "invoice_pending" /\ terms' = terms
          /\ status' = [status EXCEPT ![a] = "invoice_created"]
      BY <2>1 DEF Finalize
    <3>2. CycleRecords(status)' = CycleRecords(status)
      BY <3>1 DEF CycleRecords, Prior, Stored, TypeOK, LedgerTypeOK
    <3>3. \A b \in CycleRecords(status) : status'[b] = "invoice_pending" => status[b] = "invoice_pending"
      BY <3>1 DEF CycleRecords, Prior, Stored, TypeOK, LedgerTypeOK
    <3> DEFINE live == CycleRecords(status)
               n == Cardinality(live)
    <3>4. /\ {terms[b].cycle : b \in live} = 1 .. n
          /\ \A b, c \in live : terms[b].cycle = terms[c].cycle => b = c
          /\ \A b \in live : status[b] = "invoice_pending" => terms[b].cycle = n
      BY DEF CycleInv
    <3>5. \A b \in live : status'[b] = "invoice_pending" => terms[b].cycle = n
      BY <3>3, <3>4
    <3> HIDE DEF live, n
    <3>6. {terms'[b].cycle : b \in live} = 1 .. n
      BY <3>1, <3>4
    <3>7. \A b, c \in live : terms'[b].cycle = terms'[c].cycle => b = c
      BY <3>1, <3>4
    <3>8. \A b \in live : status'[b] = "invoice_pending" => terms'[b].cycle = n
      BY <3>1, <3>5
    <3> QED BY <3>2, <3>6, <3>7, <3>8 DEF CycleInv, live, n
  <2>2. CASE UNCHANGED ledgerVars
    BY <1>u, <2>2 DEF ledgerVars
  <2> QED BY <1>2, <2>1, <2>2 DEF FinalizeInvoice
<1>3. ASSUME NEW a \in Attempts, AbandonReservation(a) PROVE CycleInv'
  <2>1. Abandon(a)
    BY <1>3 DEF AbandonReservation, Calm
  <2>2. CASE status[a] = "invoice_pending"
    BY <2>1, <2>2, OnePending, AbandonFreesLast
  <2>3. CASE status[a] # "invoice_pending"
    BY <1>u, <2>1, <2>3 DEF Abandon
  <2> QED BY <2>2, <2>3
<1>4. ASSUME NEW a \in Attempts, Acquire(a) \/ CheckOffer(a) \/ NodeMints(a) \/ MintFails(a)
                                 \/ AnnounceInvoice(a)
      PROVE  CycleInv'
  BY <1>4, <1>u DEF Acquire, CheckOffer, NodeMints, MintFails, AnnounceInvoice, ledgerVars
<1>5. ~\E a \in Attempts : StoreFails(a)
  BY DEF Calm, StoreFails, TypeOK
<1>6. ASSUME \/ \E a \in Attempts, p \in Procs, k \in Keys \cup {NoKey}, q \in Request :
                  Receive(a, p, k, q)
             \/ \E a \in Attempts : Lapse(a)
             \/ \E p \in Procs : Crash(p)
             \/ Revoke
             \/ UNCHANGED vars
      PROVE  CycleInv'
  BY <1>6, <1>u DEF Receive, Lapse, Crash, Revoke, vars, ledgerVars
<1> QED BY <1>1, <1>2, <1>3, <1>4, <1>5, <1>6 DEF Next, Step

LEMMA CycleCorrect ==
  Calm => (Spec => [](TypeOK /\ ChainInv /\ ReservationsOwned /\ Faultless /\ CycleInv))
<1> SUFFICES ASSUME Calm
             PROVE  Spec => [](TypeOK /\ ChainInv /\ ReservationsOwned /\ Faultless /\ CycleInv)
  OBVIOUS
<1>1. Init => Faultless /\ CycleInv
  <2> SUFFICES ASSUME Init PROVE Faultless /\ CycleInv
    OBVIOUS
  <2>1. CycleRecords(status) = {}
    BY DEF Init, LedgerInit, CycleRecords, Prior, Stored
  <2>2. Cardinality(CycleRecords(status)) = 0
    BY <2>1, FS_EmptySet
  <2> QED BY <2>1, <2>2 DEF Init, Faultless, CycleInv
<1>2. TypeOK /\ Faultless /\ [Next]_vars => Faultless'
  BY FaultlessNext
<1>3. TypeOK /\ ChainInv /\ ReservationsOwned /\ Faultless /\ CapInv /\ CycleInv /\ [Next]_vars
        => CycleInv'
  BY CycleNext DEF CapInv
<1> QED BY <1>1, <1>2, <1>3, ChainCorrect, OwnedCorrect, CapCorrect, PTL DEF Spec

\* In the local store the cycles of an offer's live records are 1, 2, ..., n,
\* for any number of requests, lapses and failed mints, as long as nobody dies.
THEOREM SequenceCorrect == Calm => (Spec => []SequentialCycles)
<1> SUFFICES ASSUME Calm PROVE Spec => []SequentialCycles
  OBVIOUS
<1>1. CycleInv => SequentialCycles
  BY DEF CycleInv, SequentialCycles
<1> QED BY <1>1, CycleCorrect, PTL

-----------------------------------------------------------------------------
(* 5. The resolver implements InvoiceBook. *)

\* A reservation is an admission; the expired ones it drops leave.
LEMMA ReserveAdmits ==
  ASSUME TypeOK, NEW a \in Attempts, NEW k \in Keys \cup {NoKey}, NEW q \in Request,
         Reserve(a, k, q)
  PROVE  Book!BookNext
<1> DEFINE gone == {b \in Attempts : status[b] = "invoice_pending" /\ b \in lapsed}
<1>1. /\ \A b \in Attempts \ {a} : status'[b] = IF b \in gone THEN "removed" ELSE status[b]
      /\ \A b \in Attempts \ {a} : terms'[b] = terms[b]
      /\ status[a] = "unused" /\ status'[a] = "invoice_pending" /\ terms'[a].key = k
      /\ ~revoked /\ revoked' = revoked
  BY DEF Reserve, TypeOK, LedgerTypeOK, Purged
<1>2. Admitted' = (Admitted \ gone) \cup {a}
  BY <1>1 DEF Admitted
<1>3. TurnedAway' = TurnedAway \cup gone /\ Issued' = Issued
  BY <1>1 DEF TurnedAway, Issued
<1>4. KeyOf' = [KeyOf EXCEPT ![a] = k]
  BY <1>1 DEF KeyOf
<1>5. gone \subseteq Admitted /\ a \notin Admitted \cup Issued \cup TurnedAway
  BY <1>1 DEF Admitted, Issued, TurnedAway
<1>6. gone \in SUBSET Attempts
  OBVIOUS
<1> HIDE DEF gone
<1>7. Book!Admit(a, k, gone)
  BY <1>1, <1>2, <1>3, <1>4, <1>5 DEF Book!Admit
<1> QED BY <1>6, <1>7 DEF Book!BookNext, Book!Admit

\* Dropping reservations turns their attempts away.
LEMMA DropTurnsAway ==
  ASSUME TypeOK, Spares(Attempts), revoked' = revoked
  PROVE  Book!BookNext
<1> DEFINE gone == {b \in Attempts : status[b] = "invoice_pending" /\ status'[b] = "removed"}
<1>1. Admitted' = Admitted \ gone
  BY DEF Admitted, Spares
<1>2. TurnedAway' = TurnedAway \cup gone /\ Issued' = Issued /\ KeyOf' = KeyOf
  BY DEF TurnedAway, Issued, KeyOf, Spares
<1>3. gone \subseteq Admitted
  BY DEF Admitted
<1>4. gone \in SUBSET Attempts
  OBVIOUS
<1> HIDE DEF gone
<1>5. Book!TurnAway(gone)
  BY <1>1, <1>2, <1>3 DEF Book!TurnAway
<1> QED BY <1>4, <1>5 DEF Book!BookNext, Book!TurnAway

\* A finalised record is an issued invoice, and there was room for it: the
\* pending record itself was counted when it was reserved.
LEMMA FinalizeIssues ==
  ASSUME TypeOK, UniqueInv, CapInv, NEW a \in Attempts, Finalize(a)
  PROVE  Book!BookNext
<1>1. /\ status[a] = "invoice_pending" /\ status' = [status EXCEPT ![a] = "invoice_created"]
      /\ revoked' = revoked /\ terms' = terms /\ status \in [Attempts -> Statuses]
  BY DEF Finalize, TypeOK, LedgerTypeOK
<1>2. /\ a \in Admitted /\ Admitted' = Admitted \ {a}
      /\ Issued' = Issued \cup {a} /\ TurnedAway' = TurnedAway /\ KeyOf' = KeyOf
  BY <1>1 DEF Admitted, Issued, TurnedAway, KeyOf
<1>3. a \in Stored(status) /\ Issued \subseteq Stored(status) /\ a \notin Issued
  BY <1>1 DEF Issued, Stored
<1>4. \A b \in Issued : KeyOf[b] = KeyOf[a] => KeyOf[a] = NoKey
  BY <1>3 DEF UniqueInv, KeyOf, Stored
<1>5. Cardinality(Issued) < Limit
  <2>1. CASE SingleUse
    <3>1. Issued = {}
      BY <1>3, <2>1 DEF UniqueInv
    <3> QED BY <2>1, <3>1, FS_EmptySet DEF Limit
  <2>2. CASE ~SingleUse /\ Recurring
    <3>1. Issued \subseteq CycleRecords(status) /\ a \in CycleRecords(status)
      BY <1>1, <1>3, <2>2 DEF CapInv, CyclesCounted, CycleRecords, Prior, Issued
    <3>2. Cardinality(CycleRecords(status) \ {a}) = Cardinality(CycleRecords(status)) - 1
      BY <3>1, NextCycleType, FS_RemoveElement
    <3>3. Cardinality(Issued) <= Cardinality(CycleRecords(status) \ {a})
      <4>1. IsFiniteSet(CycleRecords(status) \ {a})
        BY NextCycleType, FS_Subset
      <4> QED BY <1>3, <3>1, <4>1, FS_Subset
    <3>4. Cardinality(Issued) \in Nat
      BY <3>1, NextCycleType, FS_Subset, FS_CardinalityType
    <3> QED BY <2>2, <3>2, <3>3, <3>4, NextCycleType, LedgerAssumption
            DEF CapInv, CapsRespected, Limit
  <2>3. CASE ~SingleUse /\ ~Recurring
    <3>1. Issued \subseteq Attempts \ {a}
      BY <1>3 DEF Issued
    <3>2. Cardinality(Attempts \ {a}) = Cardinality(Attempts) - 1
          /\ IsFiniteSet(Attempts \ {a}) /\ Cardinality(Attempts) \in Nat
      BY LedgerAssumption, FS_RemoveElement, FS_Subset, FS_CardinalityType
    <3>3. Cardinality(Issued) <= Cardinality(Attempts \ {a}) /\ Cardinality(Issued) \in Nat
      BY <3>1, <3>2, FS_Subset, FS_CardinalityType
    <3> QED BY <2>3, <3>2, <3>3 DEF Limit
  <2> QED BY <2>1, <2>2, <2>3
<1>6. Book!Issue(a)
  <2>1. Book!Cardinality(Issued) = Cardinality(Issued)
    BY DEF Book!Cardinality, Cardinality
  <2> QED BY <1>1, <1>2, <1>4, <1>5, <2>1 DEF Book!Issue
<1> QED BY <1>6 DEF Book!BookNext

LEMMA NextKeepsBook ==
  TypeOK /\ UniqueInv /\ CapInv /\ [Next]_vars => [Book!BookNext]_(Book!bookVars)
<1> SUFFICES ASSUME TypeOK, UniqueInv, CapInv, [Next]_vars
             PROVE  [Book!BookNext]_(Book!bookVars)
  OBVIOUS
<1>1. ASSUME NEW a \in Attempts, NEW k \in Keys \cup {NoKey}, NEW q \in Request,
             Reserve(a, k, q) \/ Refuse(a, k, q) \/ Replay(k, q, a)
      PROVE  Book!BookNext
  <2>1. CASE Refuse(a, k, q) \/ Replay(k, q, a)
    <3>1. Spares(Attempts)
      BY <2>1, StoreEffect
    <3>2. revoked' = revoked
      BY <2>1 DEF Refuse, Replay
    <3> QED BY <3>1, <3>2, DropTurnsAway
  <2> QED BY <1>1, <2>1, ReserveAdmits
<1>2. ASSUME NEW a \in Attempts, Abandon(a) \/ Lapse(a)
      PROVE  Book!BookNext
  <2>1. Spares(Attempts) /\ revoked' = revoked
    BY <1>2 DEF Abandon, Lapse, Spares, TypeOK, LedgerTypeOK
  <2> QED BY <2>1, DropTurnsAway
<1>3. CASE Revoke
  BY <1>3 DEF Revoke, Book!BookNext, Book!Close, Admitted, Issued, TurnedAway, KeyOf
<1>4. CASE UNCHANGED ledgerVars
  BY <1>4 DEF ledgerVars, Book!bookVars, Admitted, Issued, TurnedAway, KeyOf
<1> QED BY <1>1, <1>2, <1>3, <1>4, FinalizeIssues, LedgerNext

\* Whatever the lapses, lost replies, store failures and deaths, and however
\* many processes there are, the resolver keeps the promise of InvoiceBook.
THEOREM BookCorrect == Spec => KeepsBook
<1>1. Init => Book!BookInit
  BY DEF Init, LedgerInit, NoTerms, Book!BookInit, Admitted, Issued, TurnedAway, KeyOf
<1>2. RecordInv => UniqueInv
  BY DEF RecordInv
<1> QED BY <1>1, <1>2, CapCorrect, NextKeepsBook, PTL DEF Spec, KeepsBook, Book!BookSpec
=============================================================================
