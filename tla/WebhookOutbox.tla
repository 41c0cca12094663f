---------------------------- MODULE WebhookOutbox ----------------------------
(***************************************************************************)
(* The webhook outbox of one offer: events get one delivery per subscribed *)
(* endpoint (addWebhookEvent), drains send them (drainWebhookEvents), and  *)
(* operators edit the endpoints meanwhile.  A drain is a background pass,  *)
(* one at a time in each process (runTask), or an operator's request.      *)
(*                                                                         *)
(* A drain works on what it read at its start: deliveries first, endpoints *)
(* second.  Its sends and its writes come later, so drains overlap.  A     *)
(* delivery goes to the URL of the endpoint at the time of the event; the  *)
(* signature uses the secret the drain read.                               *)
(***************************************************************************)
EXTENDS Naturals, FiniteSets

CONSTANTS
  Events,         \* events
  Hooks,          \* webhook subscriptions
  Passes,         \* processes that run the background delivery pass
  Requests,       \* delivery requests of operators
  Operators,      \* handlers of PATCH, DELETE and rotate-secret
  MaxAttempts,    \* webhookMaxAttempts
  MaxRequests,    \* bound on delivery requests begun
  MaxEdits,       \* bound on edits begun
  MaxDeaths,      \* bound on drains cut short
  Transactional   \* TRUE: postgres-store.js, FALSE: store.js

ASSUME OutboxAssumption ==
  /\ IsFiniteSet(Passes) /\ Passes \cap Requests = {}
  /\ Hooks # {}
  /\ MaxAttempts \in Nat \ {0}
  /\ MaxRequests \in Nat /\ MaxEdits \in Nat /\ MaxDeaths \in Nat
  /\ Transactional \in BOOLEAN

VARIABLES
  hooks,     \* subscription -> its row
  delivery,  \* event and subscription -> its delivery
  appended,  \* events in the outbox
  at,        \* drain -> where it stands
  subs,      \* drain -> the subscriptions it read
  todo,      \* drain -> deliveries it has yet to attempt
  sending,   \* drain -> the deliveries it is sending (at most one)
  heard,     \* drain -> what came of the send
  editor,    \* operator -> the edit under way
  accepted,  \* deliveries that the endpoint answered with a 2xx
  auto,      \* delivery -> attempts begun by background passes
  requests, edits, deaths

hookVars == <<hooks, editor, edits>>
drainVars == <<at, subs, todo, sending, heard>>
vars == <<hookVars, drainVars, delivery, appended, accepted, auto, requests, deaths>>

Drains == Passes \cup Requests
Pairs == Events \X Hooks

\* A secret is the number of edits begun when it was written: a secret
\* written later never has a smaller number.
Rows == [state : {"none", "live", "deleted"}, disabled : BOOLEAN, secret : 0 .. MaxEdits]
Statuses == {"none", "pending", "delivered", "failed"}
Edits == {"pause", "resume", "rotate", "delete"}

TypeOK ==
  /\ hooks \in [Hooks -> Rows]
  /\ delivery \in [Pairs -> [status : Statuses, attempts : Nat]]
  /\ appended \subseteq Events
  /\ at \in [Drains -> {"idle", "listed", "scanning", "sending", "recording"}]
  /\ subs \in [Drains -> [Hooks -> Rows]]
  /\ todo \in [Drains -> SUBSET Pairs]
  /\ sending \in [Drains -> SUBSET Pairs]
  /\ heard \in [Drains -> {"delivered", "failed"}]
  /\ editor \in [Operators -> [edit : Edits \cup {"none"}, hook : Hooks, copy : Rows]]
  /\ accepted \subseteq Pairs
  /\ auto \in [Pairs -> Nat]
  /\ requests \in 0 .. MaxRequests /\ edits \in 0 .. MaxEdits /\ deaths \in 0 .. MaxDeaths

NoRow == [state |-> "none", disabled |-> FALSE, secret |-> 0]
NoRows == [h \in Hooks |-> NoRow]
NoEdit == [edit |-> "none", hook |-> CHOOSE h \in Hooks : TRUE, copy |-> NoRow]

Init ==
  /\ hooks = NoRows
  /\ delivery = [x \in Pairs |-> [status |-> "none", attempts |-> 0]]
  /\ appended = {}
  /\ at = [d \in Drains |-> "idle"]
  /\ subs = [d \in Drains |-> NoRows]
  /\ todo = [d \in Drains |-> {}]
  /\ sending = [d \in Drains |-> {}]
  /\ heard = [d \in Drains |-> "failed"]
  /\ editor = [o \in Operators |-> NoEdit]
  /\ accepted = {}
  /\ auto = [x \in Pairs |-> 0]
  /\ requests = 0 /\ edits = 0 /\ deaths = 0

-----------------------------------------------------------------------------
(* Subscriptions. *)

Active(row) == row.state = "live" /\ ~row.disabled

AddWebhook(h) ==
  /\ hooks[h].state = "none"
  /\ hooks' = [hooks EXCEPT ![h] = [NoRow EXCEPT !.state = "live"]]
  /\ UNCHANGED <<drainVars, delivery, appended, editor, accepted, auto, requests, edits, deaths>>

\* The route and, in postgres-store.js, updateWebhook read the row.
BeginEdit(o, h, e) ==
  /\ edits < MaxEdits
  /\ editor[o].edit = "none"
  /\ hooks[h].state = "live"
  /\ editor' = [editor EXCEPT ![o] = [edit |-> e, hook |-> h, copy |-> hooks[h]]]
  /\ edits' = edits + 1
  /\ UNCHANGED <<hooks, drainVars, delivery, appended, accepted, auto, requests, deaths>>

Edited(row, e) ==
  CASE e = "pause"  -> [row EXCEPT !.disabled = TRUE]
    [] e = "resume" -> [row EXCEPT !.disabled = FALSE]
    [] e = "rotate" -> [row EXCEPT !.secret = edits]
    [] e = "delete" -> [row EXCEPT !.state = "deleted"]

\* UPDATE or DELETE; store.js sets only the fields of the edit, while
\* postgres-store.js writes every field as it read it.  A row that is gone
\* stays gone.
FinishEdit(o) ==
  LET e == editor[o].edit
      h == editor[o].hook
      base == IF Transactional /\ e # "delete" THEN editor[o].copy ELSE hooks[h]
  IN /\ e # "none"
     /\ hooks' = IF hooks[h].state = "live"
                 THEN [hooks EXCEPT ![h] = Edited(base, e)] ELSE hooks
     /\ editor' = [editor EXCEPT ![o] = NoEdit]
     /\ UNCHANGED <<drainVars, delivery, appended, accepted, auto, requests, edits, deaths>>

(* Events. *)

\* addWebhookEvent: each active subscription among targets, the ones that
\* take events of this type or the one that is tested, gets a delivery
Append(e, targets) ==
  /\ e \notin appended
  /\ appended' = appended \cup {e}
  /\ delivery' = [x \in Pairs |->
                    IF x[1] = e /\ x[2] \in targets /\ Active(hooks[x[2]])
                    THEN [status |-> "pending", attempts |-> 0] ELSE delivery[x]]
  /\ UNCHANGED <<hookVars, drainVars, accepted, auto, requests, deaths>>

-----------------------------------------------------------------------------
(* Drains. *)

\* Mutant of Attemptable: the limit is passed by one.
AttemptableOnceMore(x, retryFailed, limited) ==
  \/ delivery[x].status = "pending"
  \/ /\ delivery[x].status = "failed"
     /\ retryFailed
     /\ limited => delivery[x].attempts <= MaxAttempts

\* shouldAttemptWebhookDelivery, the minimum age of a retry apart
Attemptable(x, retryFailed, limited) ==
  \/ delivery[x].status = "pending"
  \/ /\ delivery[x].status = "failed"
     /\ retryFailed
     /\ limited => delivery[x].attempts < MaxAttempts

\* listWebhookEvents; chosen are the deliveries of one event or of all
List(d, chosen, retryFailed, limited) ==
  /\ at[d] = "idle"
  /\ at' = [at EXCEPT ![d] = "listed"]
  /\ todo' = [todo EXCEPT ![d] = {x \in chosen : Attemptable(x, retryFailed, limited)}]
  /\ UNCHANGED <<hookVars, subs, sending, heard, delivery, appended, accepted, auto, deaths>>

\* Mutant of StartPass: passes look at pending deliveries only.
StartPassPendingOnly(p, young) == List(p, Pairs, FALSE, TRUE) /\ UNCHANGED requests

\* A pass leaves alone the failed deliveries whose last attempt is too recent.
StartPass(p, young) ==
  /\ List(p, Pairs \ {x \in young : delivery[x].status = "failed"}, TRUE, TRUE)
  /\ UNCHANGED requests

StartRequest(r, chosen, retryFailed) ==
  /\ requests < MaxRequests
  /\ requests' = requests + 1
  /\ List(r, chosen, retryFailed, FALSE)

\* listWebhooks
ListHooks(d) ==
  /\ at[d] = "listed"
  /\ at' = [at EXCEPT ![d] = "scanning"]
  /\ subs' = [subs EXCEPT ![d] = hooks]
  /\ UNCHANGED <<hookVars, todo, sending, heard, delivery, appended, accepted, auto, requests, deaths>>

Counted(d, x) == IF d \in Passes THEN [auto EXCEPT ![x] = @ + 1] ELSE auto

\* deliverWebhookEvent posts the event
Send(d, x) ==
  /\ at[d] = "scanning" /\ x \in todo[d]
  /\ Active(subs[d][x[2]])
  /\ at' = [at EXCEPT ![d] = "sending"]
  /\ todo' = [todo EXCEPT ![d] = @ \ {x}]
  /\ sending' = [sending EXCEPT ![d] = {x}]
  /\ auto' = Counted(d, x)
  /\ UNCHANGED <<hookVars, subs, heard, delivery, appended, accepted, requests, deaths>>

\* Mutant of Answer: any HTTP response counts as delivered.
AnswerAny(d) ==
  /\ at[d] = "sending"
  /\ at' = [at EXCEPT ![d] = "recording"]
  /\ heard' = [heard EXCEPT ![d] = "delivered"]
  /\ accepted' \in {accepted, accepted \cup sending[d]}
  /\ UNCHANGED <<hookVars, subs, todo, sending, delivery, appended, auto, requests, deaths>>

\* A 2xx in time, or another status, an error or the timeout; an endpoint
\* that timed out may have accepted the event all the same.
Answer(d) ==
  /\ at[d] = "sending"
  /\ at' = [at EXCEPT ![d] = "recording"]
  /\ \/ heard' = [heard EXCEPT ![d] = "delivered"] /\ accepted' = accepted \cup sending[d]
     \/ heard' = [heard EXCEPT ![d] = "failed"] /\ accepted' \in {accepted, accepted \cup sending[d]}
  /\ UNCHANGED <<hookVars, subs, todo, sending, delivery, appended, auto, requests, deaths>>

\* Mutant of Recorded: an error is stored as a status of its own.
RecordedError(x, s) ==
  [delivery EXCEPT ![x] = [status |-> IF s = "failed" THEN "error" ELSE s, attempts |-> @.attempts + 1]]

\* updateWebhookDelivery
Recorded(x, s) == [delivery EXCEPT ![x] = [status |-> s, attempts |-> @.attempts + 1]]

Record(d) ==
  /\ at[d] = "recording"
  /\ at' = [at EXCEPT ![d] = "scanning"]
  /\ \E x \in sending[d] : delivery' = Recorded(x, heard[d])
  /\ sending' = [sending EXCEPT ![d] = {}]
  /\ heard' = [heard EXCEPT ![d] = "failed"]
  /\ UNCHANGED <<hookVars, subs, todo, appended, accepted, auto, requests, deaths>>

\* the subscription is missing or disabled: a failed attempt without a send
RecordMissing(d, x) ==
  /\ at[d] = "scanning" /\ x \in todo[d]
  /\ ~Active(subs[d][x[2]])
  /\ todo' = [todo EXCEPT ![d] = @ \ {x}]
  /\ delivery' = Recorded(x, "failed")
  /\ auto' = Counted(d, x)
  /\ UNCHANGED <<hookVars, at, subs, sending, heard, appended, accepted, requests, deaths>>

Finish(d) ==
  /\ at[d] = "scanning" /\ todo[d] = {}
  /\ at' = [at EXCEPT ![d] = "idle"]
  /\ subs' = [subs EXCEPT ![d] = NoRows]
  /\ UNCHANGED <<hookVars, todo, sending, heard, delivery, appended, accepted, auto, requests, deaths>>

\* The process dies, or a store call rejects and the drain throws.
CutShort(d) ==
  /\ at[d] # "idle" /\ deaths < MaxDeaths
  /\ deaths' = deaths + 1
  /\ at' = [at EXCEPT ![d] = "idle"]
  /\ subs' = [subs EXCEPT ![d] = NoRows]
  /\ todo' = [todo EXCEPT ![d] = {}]
  /\ sending' = [sending EXCEPT ![d] = {}]
  /\ heard' = [heard EXCEPT ![d] = "failed"]
  /\ UNCHANGED <<hookVars, delivery, appended, accepted, auto, requests>>

Drain(d) ==
  \/ ListHooks(d)
  \/ \E x \in Pairs : Send(d, x)
  \/ Answer(d)
  \/ Record(d)
  \/ \E x \in Pairs : RecordMissing(d, x)
  \/ Finish(d)

Next ==
  \/ \E h \in Hooks : AddWebhook(h)
  \/ \E o \in Operators, h \in Hooks, e \in Edits : BeginEdit(o, h, e)
  \/ \E o \in Operators : FinishEdit(o)
  \/ \E e \in Events, targets \in SUBSET Hooks : Append(e, targets)
  \/ \E p \in Passes, young \in SUBSET Pairs : StartPass(p, young)
  \/ \E r \in Requests, retryFailed \in BOOLEAN :
       \/ StartRequest(r, Pairs, retryFailed)
       \/ \E e \in appended : StartRequest(r, {e} \X Hooks, retryFailed)
  \/ \E d \in Drains : Drain(d)
  \/ \E d \in Drains : CutShort(d)

\* Timers start a pass again and again, a failed delivery grows old enough
\* for a pass, and a pass goes on: the fetch of a send has a timeout.
Fairness ==
  \A p \in Passes :
    /\ WF_vars(Drain(p))
    /\ \A x \in Pairs :
         SF_vars(\E young \in SUBSET Pairs : StartPass(p, young) /\ x \in todo'[p])

SafetySpec == Init /\ [][Next]_vars
Spec == SafetySpec /\ Fairness

-----------------------------------------------------------------------------
(* Safety. *)

\* "A successful 2xx response marks the attempt delivered": a delivery is
\* marked so only after its endpoint accepted it, whichever drain got there
\* first.
DeliveredWasAccepted == \A x \in Pairs : delivery[x].status = "delivered" => x \in accepted

\* The automatic attempts of a delivery end: the limit is passed by at most
\* one for each further process, and one for each drain cut short.
PassesGiveUp ==
  \A x \in Pairs : auto[x] <= MaxAttempts + (Cardinality(Passes) - 1) + deaths

-----------------------------------------------------------------------------
(* Liveness. *)

Settled(x) == delivery[x].status = "delivered" \/ delivery[x].attempts >= MaxAttempts

\* Every delivery is accepted or given up in the end, whatever drains
\* overlap, die or overwrite each other.
EveryDeliverySettles ==
  \A x \in Pairs : delivery[x].status # "none" ~> [](Settled(x))
=============================================================================
