------------------------- MODULE WebhookOutboxProofs -------------------------
(***************************************************************************)
(* Theorems about WebhookOutbox, for any number of events, endpoints,      *)
(* processes and requests: its types, that a delivery marked delivered was *)
(* accepted, and that automatic attempts end.                              *)
(***************************************************************************)
EXTENDS WebhookOutbox, FiniteSetTheorems, TLAPS

-----------------------------------------------------------------------------
(* Types. *)

LEMMA RowTypes ==
  /\ NoRow \in Rows /\ NoRows \in [Hooks -> Rows]
  /\ NoEdit \in [edit : Edits \cup {"none"}, hook : Hooks, copy : Rows]
<1>1. NoRow \in Rows
  BY OutboxAssumption DEF NoRow, Rows
<1>2. (CHOOSE h \in Hooks : TRUE) \in Hooks
  BY OutboxAssumption
<1> QED BY <1>1, <1>2 DEF NoRows, NoEdit

LEMMA EditedType ==
  ASSUME NEW row \in Rows, NEW e \in Edits, edits \in 0 .. MaxEdits
  PROVE  Edited(row, e) \in Rows
BY DEF Edited, Edits, Rows

LEMMA RecordedType ==
  ASSUME TypeOK, NEW x \in Pairs, NEW s \in {"delivered", "failed"}
  PROVE  Recorded(x, s) \in [Pairs -> [status : Statuses, attempts : Nat]]
BY DEF Recorded, TypeOK, Statuses

LEMMA CountedType ==
  ASSUME TypeOK, NEW d, NEW x \in Pairs
  PROVE  Counted(d, x) \in [Pairs -> Nat]
BY DEF Counted, TypeOK

LEMMA OutboxTypeInit == Init => TypeOK
<1> SUFFICES ASSUME Init PROVE TypeOK
  OBVIOUS
<1>1. 0 \in 0 .. MaxRequests /\ 0 \in 0 .. MaxEdits /\ 0 \in 0 .. MaxDeaths
  BY OutboxAssumption
<1> QED BY <1>1, RowTypes DEF Init, TypeOK, Statuses

LEMMA DrainTypes ==
  ASSUME TypeOK, NEW d \in Drains, Drain(d)
  PROVE  TypeOK'
<1>1. CASE ListHooks(d)
  BY <1>1 DEF ListHooks, TypeOK, hookVars
<1>2. ASSUME NEW x \in Pairs, Send(d, x) PROVE TypeOK'
  <2>1. auto' \in [Pairs -> Nat]
    BY <1>2, CountedType DEF Send
  <2> QED BY <1>2, <2>1 DEF Send, TypeOK, hookVars
<1>3. CASE Answer(d)
  BY <1>3 DEF Answer, TypeOK, hookVars
<1>4. CASE Record(d)
  <2>1. PICK x \in sending[d] : delivery' = Recorded(x, heard[d])
    BY <1>4 DEF Record
  <2>2. x \in Pairs /\ heard[d] \in {"delivered", "failed"}
    BY DEF TypeOK
  <2>3. delivery' \in [Pairs -> [status : Statuses, attempts : Nat]]
    BY <2>1, <2>2, RecordedType
  <2> QED BY <1>4, <2>3 DEF Record, TypeOK, hookVars
<1>5. ASSUME NEW x \in Pairs, RecordMissing(d, x) PROVE TypeOK'
  <2>1. auto' \in [Pairs -> Nat]
    BY <1>5, CountedType DEF RecordMissing
  <2>2. delivery' \in [Pairs -> [status : Statuses, attempts : Nat]]
    BY <1>5, RecordedType DEF RecordMissing
  <2> QED BY <1>5, <2>1, <2>2 DEF RecordMissing, TypeOK, hookVars
<1>6. CASE Finish(d)
  BY <1>6, RowTypes DEF Finish, TypeOK, hookVars
<1> QED BY <1>1, <1>2, <1>3, <1>4, <1>5, <1>6 DEF Drain

LEMMA ListTypes ==
  ASSUME TypeOK, NEW d \in Drains, NEW chosen \in SUBSET Pairs,
         NEW r \in BOOLEAN, NEW l \in BOOLEAN,
         List(d, chosen, r, l), requests' \in 0 .. MaxRequests
  PROVE  TypeOK'
BY DEF List, TypeOK, hookVars

LEMMA OutboxTypeNext == TypeOK /\ [Next]_vars => TypeOK'
<1> SUFFICES ASSUME TypeOK, [Next]_vars PROVE TypeOK'
  OBVIOUS
<1>1. ASSUME NEW h \in Hooks, AddWebhook(h) PROVE TypeOK'
  <2>1. [NoRow EXCEPT !.state = "live"] \in Rows
    BY RowTypes DEF Rows
  <2> QED BY <1>1, <2>1 DEF AddWebhook, TypeOK, drainVars
<1>2. ASSUME NEW o \in Operators, NEW h \in Hooks, NEW e \in Edits, BeginEdit(o, h, e) PROVE TypeOK'
  BY <1>2, OutboxAssumption DEF BeginEdit, TypeOK, drainVars
<1>3. ASSUME NEW o \in Operators, FinishEdit(o) PROVE TypeOK'
  <2>1. editor[o].edit \in Edits /\ editor[o].hook \in Hooks /\ editor[o].copy \in Rows
    BY <1>3 DEF FinishEdit, TypeOK
  <2>2. \A row \in Rows : Edited(row, editor[o].edit) \in Rows
    BY <2>1, EditedType DEF TypeOK
  <2>3. hooks' \in [Hooks -> Rows]
    BY <1>3, <2>1, <2>2 DEF FinishEdit, TypeOK
  <2> QED BY <1>3, <2>3, RowTypes DEF FinishEdit, TypeOK, drainVars
<1>4. ASSUME NEW e \in Events, NEW targets, Append(e, targets) PROVE TypeOK'
  BY <1>4 DEF Append, TypeOK, hookVars, drainVars, Statuses
<1>5. ASSUME NEW p \in Passes, NEW young \in SUBSET Pairs, StartPass(p, young) PROVE TypeOK'
  <2>1. p \in Drains /\ Pairs \ {x \in young : delivery[x].status = "failed"} \in SUBSET Pairs
    BY DEF Drains
  <2>2. requests' \in 0 .. MaxRequests
    BY <1>5 DEF StartPass, TypeOK
  <2> QED BY <1>5, <2>1, <2>2, ListTypes DEF StartPass
<1>6. ASSUME NEW r \in Requests, NEW retryFailed \in BOOLEAN, NEW chosen \in SUBSET Pairs,
             StartRequest(r, chosen, retryFailed)
      PROVE  TypeOK'
  <2>1. r \in Drains
    BY DEF Drains
  <2>2. requests' \in 0 .. MaxRequests
    BY <1>6, OutboxAssumption DEF StartRequest, TypeOK
  <2> QED BY <1>6, <2>1, <2>2, ListTypes DEF StartRequest
<1>7. \A e \in appended : {e} \X Hooks \in SUBSET Pairs
  BY DEF TypeOK, Pairs
<1>8. ASSUME NEW d \in Drains, CutShort(d) PROVE TypeOK'
  BY <1>8, RowTypes, OutboxAssumption DEF CutShort, TypeOK, hookVars
<1>9. CASE UNCHANGED vars
  BY <1>9 DEF vars, hookVars, drainVars, TypeOK
<1>10. Pairs \in SUBSET Pairs
  OBVIOUS
<1> QED BY <1>1, <1>2, <1>3, <1>4, <1>5, <1>6, <1>7, <1>8, <1>9, <1>10, DrainTypes DEF Next

\* Every variable keeps its type; in particular a drain's list stays within
\* the outbox and the statuses written are those of the code.
THEOREM OutboxTypeCorrect == SafetySpec => []TypeOK
<1> QED BY OutboxTypeInit, OutboxTypeNext, PTL DEF SafetySpec

-----------------------------------------------------------------------------
(* What a drain holds, step by step. *)

\* A drain holds deliveries of the outbox; it sends at most one, no longer on
\* its list, and hears an acceptance only of what the endpoint accepted.
Holds(d) ==
  /\ at[d] = "idle" => todo[d] = {}
  /\ at[d] \in {"idle", "listed", "scanning"} => sending[d] = {}
  /\ at[d] # "recording" => heard[d] = "failed"
  /\ heard[d] = "delivered" => sending[d] \subseteq accepted
  /\ sending[d] \cap todo[d] = {}
  /\ \A x, y \in sending[d] : x = y
  /\ \A x \in todo[d] \cup sending[d] : x[1] \in appended

\* Attempts are counted from the first one on.
Unattempted(x) ==
  /\ delivery[x].status \in {"none", "pending"} => delivery[x].attempts = 0
  /\ x[1] \notin appended => delivery[x].status = "none"

DrainInv ==
  /\ TypeOK
  /\ DeliveredWasAccepted
  /\ \A d \in Drains : Holds(d)
  /\ \A x \in Pairs : Unattempted(x)

\* What the status and the count of a delivery become when it is recorded.
LEMMA RecordedFields ==
  ASSUME TypeOK, NEW x \in Pairs, NEW s \in {"delivered", "failed"}
  PROVE  /\ Recorded(x, s)[x].status = s
         /\ Recorded(x, s)[x].attempts = delivery[x].attempts + 1
         /\ \A y \in Pairs \ {x} : Recorded(x, s)[y] = delivery[y]
BY DEF Recorded, TypeOK

\* A record keeps the outbox sound when the endpoint accepted what is marked.
LEMMA RecordedKeeps ==
  ASSUME DrainInv, NEW x \in Pairs, NEW s \in {"delivered", "failed"},
         x[1] \in appended, delivery' = Recorded(x, s), UNCHANGED <<appended, accepted>>,
         s = "delivered" => x \in accepted
  PROVE  DeliveredWasAccepted' /\ \A y \in Pairs : Unattempted(y)'
<1>1. TypeOK
  BY DEF DrainInv
<1>2. /\ delivery'[x].status = s
      /\ \A y \in Pairs \ {x} : delivery'[y] = delivery[y]
  BY <1>1, RecordedFields
<1>3. DeliveredWasAccepted'
  BY <1>2 DEF DeliveredWasAccepted, DrainInv
<1>4. ASSUME NEW y \in Pairs PROVE Unattempted(y)'
  <2>1. CASE y = x
    BY <2>1, <1>2 DEF Unattempted
  <2>2. CASE y # x
    BY <2>2, <1>2 DEF Unattempted, DrainInv
  <2> QED BY <2>1, <2>2
<1> QED BY <1>3, <1>4

LEMMA DrainInvInit == Init => DrainInv
<1> SUFFICES ASSUME Init PROVE DrainInv
  OBVIOUS
<1>1. TypeOK
  BY OutboxTypeInit
<1>2. DeliveredWasAccepted /\ \A x \in Pairs : Unattempted(x)
  BY DEF Init, DeliveredWasAccepted, Unattempted
<1>3. \A d \in Drains : Holds(d)
  BY DEF Init, Holds
<1> QED BY <1>1, <1>2, <1>3 DEF DrainInv

LEMMA DrainKeeps ==
  ASSUME DrainInv, NEW d \in Drains, Drain(d)
  PROVE  DrainInv'
<1>1. TypeOK /\ TypeOK'
  BY DrainTypes DEF DrainInv
<1>2. CASE ListHooks(d)
  <2>1. \A q \in Drains : Holds(q)'
    BY <1>1, <1>2 DEF ListHooks, DrainInv, Holds, TypeOK
  <2> QED BY <1>1, <1>2, <2>1 DEF ListHooks, DrainInv, DeliveredWasAccepted, Unattempted
<1>3. ASSUME NEW x \in Pairs, Send(d, x) PROVE DrainInv'
  <2>1. Holds(d)'
    BY <1>1, <1>3 DEF Send, DrainInv, Holds, TypeOK
  <2>2. \A q \in Drains \ {d} : Holds(q)'
    BY <1>1, <1>3 DEF Send, DrainInv, Holds, TypeOK
  <2> QED BY <1>1, <1>3, <2>1, <2>2 DEF Send, DrainInv, DeliveredWasAccepted, Unattempted
<1>4. CASE Answer(d)
  <2>1. accepted \subseteq accepted'
    BY <1>4 DEF Answer
  <2>2. Holds(d)'
    BY <1>1, <1>4 DEF Answer, DrainInv, Holds, TypeOK
  <2>3. \A q \in Drains \ {d} : Holds(q)'
    BY <1>1, <1>4, <2>1 DEF Answer, DrainInv, Holds, TypeOK
  <2> QED BY <1>1, <1>4, <2>1, <2>2, <2>3 DEF Answer, DrainInv, DeliveredWasAccepted, Unattempted
<1>5. CASE Record(d)
  <2>1. PICK x \in sending[d] : delivery' = Recorded(x, heard[d])
    BY <1>5 DEF Record
  <2>2. /\ x \in Pairs /\ heard[d] \in {"delivered", "failed"} /\ x[1] \in appended
        /\ heard[d] = "delivered" => x \in accepted
    BY <1>1, <2>1 DEF TypeOK, DrainInv, Holds
  <2>3. DeliveredWasAccepted' /\ \A y \in Pairs : Unattempted(y)'
    BY <1>5, <2>1, <2>2, RecordedKeeps DEF Record
  <2>4. \A q \in Drains : Holds(q)'
    BY <1>1, <1>5 DEF Record, DrainInv, Holds, TypeOK
  <2> QED BY <1>1, <2>3, <2>4 DEF DrainInv
<1>6. ASSUME NEW x \in Pairs, RecordMissing(d, x) PROVE DrainInv'
  <2>1. x[1] \in appended
    BY <1>6 DEF RecordMissing, DrainInv, Holds
  <2>2. DeliveredWasAccepted' /\ \A y \in Pairs : Unattempted(y)'
    BY <1>6, <2>1, RecordedKeeps DEF RecordMissing
  <2>3. \A q \in Drains : Holds(q)'
    BY <1>1, <1>6 DEF RecordMissing, DrainInv, Holds, TypeOK
  <2> QED BY <1>1, <2>2, <2>3 DEF DrainInv
<1>7. CASE Finish(d)
  <2>1. \A q \in Drains : Holds(q)'
    BY <1>1, <1>7 DEF Finish, DrainInv, Holds, TypeOK
  <2> QED BY <1>1, <1>7, <2>1 DEF Finish, DrainInv, DeliveredWasAccepted, Unattempted
<1> QED BY <1>2, <1>3, <1>4, <1>5, <1>6, <1>7 DEF Drain

LEMMA ListKeeps ==
  ASSUME DrainInv, TypeOK', NEW d \in Drains, NEW chosen \in SUBSET Pairs,
         NEW r \in BOOLEAN, NEW l \in BOOLEAN, List(d, chosen, r, l)
  PROVE  DrainInv'
<1>1. \A x \in chosen : Attemptable(x, r, l) => x[1] \in appended
  BY DEF Attemptable, DrainInv, Unattempted
<1>2. Holds(d)'
  BY <1>1 DEF List, DrainInv, Holds, TypeOK
<1>3. \A q \in Drains \ {d} : Holds(q)'
  BY DEF List, DrainInv, Holds, TypeOK
<1> QED BY <1>2, <1>3 DEF List, DrainInv, DeliveredWasAccepted, Unattempted

\* The steps of an outbox, as the cases of an induction: those that leave
\* drains and outbox alone, and the others.
LEMMA OutboxSteps ==
  ASSUME TypeOK, [Next]_vars
  PROVE  \/ UNCHANGED <<drainVars, delivery, appended, accepted, auto, deaths>>
         \/ \E e \in Events, targets \in SUBSET Hooks : Append(e, targets)
         \/ \E d \in Drains, chosen \in SUBSET Pairs, r, l \in BOOLEAN :
              List(d, chosen, r, l) /\ (d \in Passes => l)
         \/ \E d \in Drains : Drain(d)
         \/ \E d \in Drains : CutShort(d)
<1>1. ASSUME NEW h \in Hooks, AddWebhook(h)
      PROVE UNCHANGED <<drainVars, delivery, appended, accepted, auto, deaths>>
  BY <1>1 DEF AddWebhook
<1>2. ASSUME NEW o \in Operators, NEW h \in Hooks, NEW e \in Edits, BeginEdit(o, h, e)
      PROVE UNCHANGED <<drainVars, delivery, appended, accepted, auto, deaths>>
  BY <1>2 DEF BeginEdit
<1>3. ASSUME NEW o \in Operators, FinishEdit(o)
      PROVE UNCHANGED <<drainVars, delivery, appended, accepted, auto, deaths>>
  BY <1>3 DEF FinishEdit
<1>4. ASSUME NEW p \in Passes, NEW young \in SUBSET Pairs, StartPass(p, young)
      PROVE \E d \in Drains, chosen \in SUBSET Pairs, r, l \in BOOLEAN :
              List(d, chosen, r, l) /\ (d \in Passes => l)
  <2>1. p \in Drains /\ Pairs \ {x \in young : delivery[x].status = "failed"} \in SUBSET Pairs
    BY DEF Drains
  <2> QED BY <1>4, <2>1 DEF StartPass
<1>5. ASSUME NEW q \in Requests, NEW retryFailed \in BOOLEAN, NEW chosen \in SUBSET Pairs,
             StartRequest(q, chosen, retryFailed)
      PROVE \E d \in Drains, c \in SUBSET Pairs, r, l \in BOOLEAN :
              List(d, c, r, l) /\ (d \in Passes => l)
  <2>1. q \in Drains /\ q \notin Passes
    BY OutboxAssumption DEF Drains
  <2> QED BY <1>5, <2>1 DEF StartRequest
<1>6. Pairs \in SUBSET Pairs /\ \A e \in appended : {e} \X Hooks \in SUBSET Pairs
  BY DEF TypeOK, Pairs
<1>7. Hooks \in SUBSET Hooks /\ \A h \in Hooks : {h} \in SUBSET Hooks
  OBVIOUS
<1>8. CASE UNCHANGED vars
  BY <1>8 DEF vars, drainVars
<1> QED BY <1>1, <1>2, <1>3, <1>4, <1>5, <1>6, <1>7, <1>8 DEF Next

LEMMA DrainInvNext == DrainInv /\ [Next]_vars => DrainInv'
<1> SUFFICES ASSUME DrainInv, [Next]_vars PROVE DrainInv'
  OBVIOUS
<1>1. TypeOK /\ TypeOK'
  BY OutboxTypeNext DEF DrainInv
<1>2. CASE UNCHANGED <<drainVars, delivery, appended, accepted, auto, deaths>>
  BY <1>1, <1>2 DEF drainVars, DrainInv, Holds, Unattempted, DeliveredWasAccepted
<1>3. ASSUME NEW e \in Events, NEW targets \in SUBSET Hooks, Append(e, targets) PROVE DrainInv'
  <2>1. \A x \in Pairs : delivery'[x] = IF x[1] = e /\ x[2] \in targets /\ Active(hooks[x[2]])
                                        THEN [status |-> "pending", attempts |-> 0] ELSE delivery[x]
    BY <1>3 DEF Append
  <2>2. DeliveredWasAccepted' /\ \A x \in Pairs : Unattempted(x)'
    BY <1>3, <2>1 DEF Append, DrainInv, DeliveredWasAccepted, Unattempted
  <2>3. \A d \in Drains : Holds(d)'
    BY <1>3 DEF Append, drainVars, DrainInv, Holds
  <2> QED BY <1>1, <2>2, <2>3 DEF DrainInv
<1>4. ASSUME NEW d \in Drains, CutShort(d) PROVE DrainInv'
  <2>1. \A q \in Drains : Holds(q)'
    BY <1>1, <1>4 DEF CutShort, DrainInv, Holds, TypeOK
  <2> QED BY <1>1, <1>4, <2>1 DEF CutShort, DrainInv, DeliveredWasAccepted, Unattempted
<1> QED BY <1>1, <1>2, <1>3, <1>4, OutboxSteps, ListKeeps, DrainKeeps

\* A delivery is marked delivered only after its endpoint accepted it, however
\* drains overlap: no drain hears an acceptance that was not given.
THEOREM DeliveredIsAccepted == SafetySpec => []DeliveredWasAccepted
<1>1. DrainInv => DeliveredWasAccepted
  BY DEF DrainInv
<1> QED BY <1>1, DrainInvInit, DrainInvNext, PTL DEF SafetySpec

-----------------------------------------------------------------------------
(* Automatic attempts end. *)

InFlight(x) == {p \in Passes : x \in sending[p]}
Awaits(x) == {p \in Passes : x \in todo[p]}

\* An automatic attempt is recorded, under way or was cut short; and a pass
\* lists a delivery only while attempts are left, so that each of the other
\* passes may hold it once more.
Budget(x) ==
  /\ auto[x] <= delivery[x].attempts + Cardinality(InFlight(x)) + deaths
  /\ auto[x] + Cardinality(Awaits(x)) <= MaxAttempts + (Cardinality(Passes) - 1) + deaths

BudgetInv == DrainInv /\ \A x \in Pairs : Budget(x)

LEMMA PassSets ==
  ASSUME NEW S \in SUBSET Passes
  PROVE  /\ IsFiniteSet(S) /\ Cardinality(S) \in Nat
         /\ Cardinality(Passes) \in Nat /\ Cardinality(S) <= Cardinality(Passes)
         /\ \A p \in Passes \ S : Cardinality(S \cup {p}) = Cardinality(S) + 1
         /\ \A p \in S : Cardinality(S \ {p}) = Cardinality(S) - 1
BY OutboxAssumption, FS_Subset, FS_CardinalityType, FS_AddElement, FS_RemoveElement

\* Two disjoint sets of passes that both miss one pass.
LEMMA TwoPassSets ==
  ASSUME NEW S \in SUBSET Passes, NEW T \in SUBSET Passes, S \cap T = {},
         NEW p \in Passes, p \notin S \cup T
  PROVE  Cardinality(S) + Cardinality(T) <= Cardinality(Passes) - 1
<1>1. /\ IsFiniteSet(S) /\ IsFiniteSet(T) /\ Cardinality(S) \in Nat /\ Cardinality(T) \in Nat
  BY PassSets
<1>2. Cardinality(S \cup T) = Cardinality(S) + Cardinality(T)
  <2>1. Cardinality(S \cup T) = Cardinality(S) + Cardinality(T) - Cardinality(S \cap T)
    BY <1>1, FS_Union
  <2>2. Cardinality(S \cap T) = 0
    BY FS_EmptySet
  <2> QED BY <1>1, <2>1, <2>2
<1>3. S \cup T \in SUBSET Passes /\ p \in Passes \ (S \cup T)
  OBVIOUS
<1>4. /\ Cardinality((S \cup T) \cup {p}) = Cardinality(S \cup T) + 1
      /\ (S \cup T) \cup {p} \in SUBSET Passes
  BY <1>3, PassSets
<1>5. /\ Cardinality((S \cup T) \cup {p}) <= Cardinality(Passes)
      /\ Cardinality(Passes) \in Nat
  BY <1>4, PassSets
<1> QED BY <1>1, <1>2, <1>4, <1>5

LEMMA BudgetTypes ==
  ASSUME TypeOK, NEW x \in Pairs
  PROVE  /\ auto[x] \in Nat /\ delivery[x].attempts \in Nat /\ deaths \in Nat
         /\ Cardinality(InFlight(x)) \in Nat /\ Cardinality(Awaits(x)) \in Nat
         /\ Cardinality(Passes) \in Nat /\ MaxAttempts \in Nat \ {0}
<1>1. InFlight(x) \in SUBSET Passes /\ Awaits(x) \in SUBSET Passes
  BY DEF InFlight, Awaits
<1> QED BY <1>1, PassSets, OutboxAssumption DEF TypeOK

LEMMA BudgetInit == Init => BudgetInv
<1> SUFFICES ASSUME Init, NEW x \in Pairs PROVE Budget(x)
  BY DrainInvInit DEF BudgetInv
<1>1. InFlight(x) = {} /\ Awaits(x) = {}
  BY DEF Init, InFlight, Awaits, Drains
<1>2. Cardinality({}) = 0
  BY FS_EmptySet
<1>3. auto[x] = 0 /\ delivery[x].attempts = 0 /\ deaths = 0
  BY DEF Init
<1>4. Cardinality(Passes) \in Nat /\ MaxAttempts \in Nat \ {0}
  BY BudgetTypes, OutboxTypeInit
<1> QED BY <1>1, <1>2, <1>3, <1>4 DEF Budget

\* A pass that lists a delivery was holding none, so only the others may.
LEMMA ListBudget ==
  ASSUME BudgetInv, NEW d \in Drains, NEW chosen \in SUBSET Pairs,
         NEW r \in BOOLEAN, NEW l \in BOOLEAN, List(d, chosen, r, l), d \in Passes => l,
         NEW x \in Pairs
  PROVE  Budget(x)'
<1>1. TypeOK /\ Budget(x) /\ Holds(d) /\ Unattempted(x)
  BY DEF BudgetInv, DrainInv
<1>2. /\ auto' = auto /\ delivery' = delivery /\ deaths' = deaths /\ InFlight(x)' = InFlight(x)
  BY DEF List, InFlight
<1>3. CASE Awaits(x)' = Awaits(x)
  BY <1>1, <1>2, <1>3 DEF Budget
<1>4. CASE Awaits(x)' # Awaits(x)
  <2>1. /\ d \in Passes /\ Attemptable(x, r, l)
        /\ Awaits(x)' = Awaits(x) \cup {d} /\ d \notin Awaits(x) /\ d \notin InFlight(x)
    BY <1>1, <1>4 DEF List, Awaits, InFlight, Holds, TypeOK
  <2>2. delivery[x].attempts < MaxAttempts
    BY <1>1, <2>1, OutboxAssumption DEF Attemptable, Unattempted
  <2>3. \A p \in Passes : ~(x \in sending[p] /\ x \in todo[p])
    BY DEF BudgetInv, DrainInv, Holds, Drains
  <2>4. /\ Awaits(x) \in SUBSET Passes /\ InFlight(x) \in SUBSET Passes
        /\ Awaits(x) \cap InFlight(x) = {}
    BY <2>3 DEF Awaits, InFlight
  <2>5. Cardinality(Awaits(x)) + Cardinality(InFlight(x)) <= Cardinality(Passes) - 1
    BY <2>1, <2>4, TwoPassSets
  <2>6. Cardinality(Awaits(x)') = Cardinality(Awaits(x)) + 1
    BY <2>1, <2>4, PassSets
  <2>7. auto[x] <= delivery[x].attempts + Cardinality(InFlight(x)) + deaths
    BY <1>1 DEF Budget
  <2>8. auto[x] + (Cardinality(Awaits(x)) + 1) <= MaxAttempts + (Cardinality(Passes) - 1) + deaths
    BY <1>1, <2>2, <2>5, <2>7, BudgetTypes
  <2> QED BY <1>2, <2>6, <2>7, <2>8 DEF Budget
<1> QED BY <1>3, <1>4

\* An attempt moves a delivery from the list of its pass to its send, and
\* from there to the count of attempts.
LEMMA DrainBudget ==
  ASSUME BudgetInv, NEW d \in Drains, Drain(d), NEW x \in Pairs
  PROVE  Budget(x)'
<1>1. TypeOK /\ Budget(x) /\ Holds(d)
  BY DEF BudgetInv, DrainInv
<1>2. /\ auto[x] <= delivery[x].attempts + Cardinality(InFlight(x)) + deaths
      /\ auto[x] + Cardinality(Awaits(x)) <= MaxAttempts + (Cardinality(Passes) - 1) + deaths
      /\ InFlight(x) \in SUBSET Passes /\ Awaits(x) \in SUBSET Passes
  BY <1>1 DEF Budget, InFlight, Awaits
<1>3. CASE UNCHANGED <<todo, sending, delivery, auto, deaths>>
  BY <1>2, <1>3 DEF Budget, InFlight, Awaits
<1>4. ASSUME NEW y \in Pairs, Send(d, y) PROVE Budget(x)'
  <2>1. delivery' = delivery /\ deaths' = deaths
    BY <1>4 DEF Send
  <2>2. CASE x = y /\ d \in Passes
    <3>1. /\ InFlight(x)' = InFlight(x) \cup {d} /\ d \notin InFlight(x)
          /\ Awaits(x)' = Awaits(x) \ {d} /\ d \in Awaits(x)
          /\ auto'[x] = auto[x] + 1
      BY <1>1, <1>4, <2>2 DEF Send, InFlight, Awaits, TypeOK, Holds, Counted
    <3>2. /\ Cardinality(InFlight(x)') = Cardinality(InFlight(x)) + 1
          /\ Cardinality(Awaits(x)') = Cardinality(Awaits(x)) - 1
      BY <1>2, <2>2, <3>1, PassSets
    <3> QED BY <1>1, <1>2, <2>1, <3>1, <3>2, BudgetTypes DEF Budget
  <2>3. CASE ~(x = y /\ d \in Passes)
    <3>1. InFlight(x)' = InFlight(x) /\ Awaits(x)' = Awaits(x) /\ auto'[x] = auto[x]
      BY <1>1, <1>4, <2>3 DEF Send, InFlight, Awaits, TypeOK, Holds, Counted
    <3> QED BY <1>2, <2>1, <3>1 DEF Budget
  <2> QED BY <2>2, <2>3
<1>5. CASE Record(d)
  <2>1. PICK y \in sending[d] : delivery' = Recorded(y, heard[d])
    BY <1>5 DEF Record
  <2>2. y \in Pairs /\ heard[d] \in {"delivered", "failed"} /\ \A z \in sending[d] : z = y
    BY <1>1, <2>1 DEF TypeOK, Holds
  <2>3. auto' = auto /\ deaths' = deaths /\ Awaits(x)' = Awaits(x)
    BY <1>5 DEF Record, Awaits
  <2>4. CASE x = y
    <3>1. delivery'[x].attempts = delivery[x].attempts + 1
      BY <1>1, <2>1, <2>2, <2>4, RecordedFields
    <3>2. CASE d \in Passes
      <4>1. InFlight(x)' = InFlight(x) \ {d} /\ d \in InFlight(x)
        BY <1>1, <1>5, <2>1, <2>4, <3>2 DEF Record, InFlight, TypeOK
      <4>2. Cardinality(InFlight(x)') = Cardinality(InFlight(x)) - 1
        BY <1>2, <4>1, PassSets
      <4> QED BY <1>1, <1>2, <2>3, <3>1, <4>2, BudgetTypes DEF Budget
    <3>3. CASE d \notin Passes
      <4>1. InFlight(x)' = InFlight(x)
        BY <1>1, <1>5, <3>3 DEF Record, InFlight, TypeOK
      <4> QED BY <1>1, <1>2, <2>3, <3>1, <4>1, BudgetTypes DEF Budget
    <3> QED BY <3>2, <3>3
  <2>5. CASE x # y
    <3>1. delivery'[x] = delivery[x]
      BY <1>1, <2>1, <2>2, <2>5, RecordedFields
    <3>2. InFlight(x)' = InFlight(x)
      BY <1>1, <1>5, <2>2, <2>5 DEF Record, InFlight, TypeOK
    <3> QED BY <1>2, <2>3, <3>1, <3>2 DEF Budget
  <2> QED BY <2>4, <2>5
<1>6. ASSUME NEW y \in Pairs, RecordMissing(d, y) PROVE Budget(x)'
  <2>1. deaths' = deaths /\ InFlight(x)' = InFlight(x) /\ delivery' = Recorded(y, "failed")
    BY <1>6 DEF RecordMissing, InFlight
  <2>2. CASE x = y
    <3>1. delivery'[x].attempts = delivery[x].attempts + 1
      BY <1>1, <2>1, <2>2, RecordedFields
    <3>2. CASE d \in Passes
      <4>1. Awaits(x)' = Awaits(x) \ {d} /\ d \in Awaits(x) /\ auto'[x] = auto[x] + 1
        BY <1>1, <1>6, <2>2, <3>2 DEF RecordMissing, Awaits, TypeOK, Counted
      <4>2. Cardinality(Awaits(x)') = Cardinality(Awaits(x)) - 1
        BY <1>2, <4>1, PassSets
      <4> QED BY <1>1, <1>2, <2>1, <3>1, <4>1, <4>2, BudgetTypes DEF Budget
    <3>3. CASE d \notin Passes
      <4>1. Awaits(x)' = Awaits(x) /\ auto'[x] = auto[x]
        BY <1>1, <1>6, <3>3 DEF RecordMissing, Awaits, TypeOK, Counted
      <4> QED BY <1>1, <1>2, <2>1, <3>1, <4>1, BudgetTypes DEF Budget
    <3> QED BY <3>2, <3>3
  <2>3. CASE x # y
    <3>1. delivery'[x] = delivery[x]
      BY <1>1, <2>1, <2>3, RecordedFields
    <3>2. Awaits(x)' = Awaits(x) /\ auto'[x] = auto[x]
      BY <1>1, <1>6, <2>3 DEF RecordMissing, Awaits, TypeOK, Counted
    <3> QED BY <1>2, <2>1, <3>1, <3>2 DEF Budget
  <2> QED BY <2>2, <2>3
<1>7. \/ UNCHANGED <<todo, sending, delivery, auto, deaths>>
      \/ \E y \in Pairs : Send(d, y)
      \/ Record(d)
      \/ \E y \in Pairs : RecordMissing(d, y)
  BY DEF Drain, ListHooks, Answer, Finish
<1> QED BY <1>3, <1>4, <1>5, <1>6, <1>7

LEMMA BudgetNext == BudgetInv /\ [Next]_vars => BudgetInv'
<1> SUFFICES ASSUME BudgetInv, [Next]_vars, NEW x \in Pairs PROVE Budget(x)'
  BY DrainInvNext DEF BudgetInv
<1>1. TypeOK /\ Budget(x) /\ \A d \in Drains : Holds(d)
  BY DEF BudgetInv, DrainInv
<1>2. CASE UNCHANGED <<drainVars, delivery, appended, accepted, auto, deaths>>
  BY <1>1, <1>2 DEF drainVars, Budget, InFlight, Awaits
<1>3. ASSUME NEW e \in Events, NEW targets \in SUBSET Hooks, Append(e, targets) PROVE Budget(x)'
  <2>1. delivery'[x].attempts = delivery[x].attempts
    BY <1>3 DEF Append, BudgetInv, DrainInv, Unattempted
  <2> QED BY <1>1, <1>3, <2>1 DEF Append, drainVars, Budget, InFlight, Awaits
<1>4. ASSUME NEW d \in Drains, CutShort(d) PROVE Budget(x)'
  <2>1. auto' = auto /\ delivery' = delivery /\ deaths' = deaths + 1
    BY <1>4 DEF CutShort
  <2>2. /\ InFlight(x)' = InFlight(x) \/ (InFlight(x)' = InFlight(x) \ {d} /\ d \in InFlight(x))
        /\ Awaits(x)' = Awaits(x) \/ (Awaits(x)' = Awaits(x) \ {d} /\ d \in Awaits(x))
    BY <1>1, <1>4 DEF CutShort, InFlight, Awaits, TypeOK
  <2>3. InFlight(x) \in SUBSET Passes /\ Awaits(x) \in SUBSET Passes
    BY DEF InFlight, Awaits
  <2>4. /\ Cardinality(InFlight(x)') \in {Cardinality(InFlight(x)), Cardinality(InFlight(x)) - 1}
        /\ Cardinality(Awaits(x)') \in {Cardinality(Awaits(x)), Cardinality(Awaits(x)) - 1}
    BY <2>2, <2>3, PassSets
  <2> QED BY <1>1, <2>1, <2>4, BudgetTypes DEF Budget
<1> QED BY <1>1, <1>2, <1>3, <1>4, OutboxSteps, ListBudget, DrainBudget

\* The automatic attempts of a delivery end at the limit, but for one more of
\* each further process and one for each drain cut short: what passes decide
\* on may be stale, yet every attempt is counted or under way.
THEOREM AutomaticAttemptsEnd == SafetySpec => []PassesGiveUp
<1>1. BudgetInv => PassesGiveUp
  <2> SUFFICES ASSUME BudgetInv, NEW x \in Pairs
               PROVE auto[x] <= MaxAttempts + (Cardinality(Passes) - 1) + deaths
    BY DEF PassesGiveUp
  <2>1. TypeOK /\ Budget(x)
    BY DEF BudgetInv, DrainInv
  <2> QED BY <2>1, BudgetTypes DEF Budget
<1> QED BY <1>1, BudgetInit, BudgetNext, PTL DEF SafetySpec
=============================================================================
