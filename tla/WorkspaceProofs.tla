---------------------------- MODULE WorkspaceProofs ----------------------------
(***************************************************************************)
(* Theorems about Workspace, for any number of offers, invoices, clicks and*)
(* faults.  A request marks only what it was made for: the page may show   *)
(* one offer and have another one selected; what protects the other        *)
(* offer's invoices is that a request carries its offer and its invoice    *)
(* from the moment of the click, and that the resolver compares the two.   *)
(* The state keeps its types: what the page lists and what a request names *)
(* are records that the resolver has.  And the plain buttons are disabled  *)
(* exactly while a handler is under way, if no two ever are.               *)
(***************************************************************************)
EXTENDS Workspace, TLAPS, SequenceTheorems

Status == {"created", "paid"}

\* The inductive invariant: the ledger has its type, and the poll never
\* makes a request of a handler.
IInv ==
  /\ ledger \in [Offers -> Seq(Status)]
  /\ DOMAIN tasks = Tasks
  /\ tasks["poll"].at # "calling"

\* A record of the ledger changes only as the request of t says.
Owed(t) ==
  \A o \in Offers : \A i \in DOMAIN ledger[o] :
    ledger'[o][i] # ledger[o][i] =>
      /\ tasks[t].offer = o
      /\ \/ tasks[t].h.call = "sync"
         \/ tasks[t].names.offer = o /\ tasks[t].names.id = i

\* What the resolver does for a request whose names it knows.
LEMMA ServesWhatIsNamed ==
  ASSUME IInv, NEW t \in Tasks, Names(t), Serves(t)
  PROVE  ledger' \in [Offers -> Seq(Status)] /\ Owed(t)
<1> DEFINE o == tasks[t].offer
           n == tasks[t].names
           c == tasks[t].h.call
<1>t. ledger \in [Offers -> Seq(Status)]
  BY DEF IInv
<1>1. CASE c = "invoice"
  <2>1. ledger' = [ledger EXCEPT ![o] = Append(@, "created")]
    BY <1>1 DEF Serves
  <2> HIDE DEF o
  <2>2. CASE o \in Offers
    <3>1. /\ Append(ledger[o], "created") \in Seq(Status)
          /\ \A i \in DOMAIN ledger[o] : Append(ledger[o], "created")[i] = ledger[o][i]
      BY <1>t, <2>2 DEF Status
    <3> QED BY <1>t, <2>1, <2>2, <3>1 DEF Owed
  <2>3. CASE o \notin Offers
    BY <1>t, <2>1, <2>3 DEF Owed
  <2> QED BY <2>2, <2>3
<1>2. CASE c = "mark_paid"
  <2>1. n.offer = o
    BY <1>2 DEF Names
  <2>2. ledger' = [ledger EXCEPT ![o][n.id] = "paid"]
    BY <1>2 DEF Serves
  <2>3. CASE o \in Offers
    <3> DEFINE marked == [ledger[o] EXCEPT ![n.id] = "paid"]
    <3>1. marked \in Seq(Status)
      <4>1. ledger[o] \in Seq(Status)
        BY <1>t, <2>3
      <4>2. PICK len \in Nat : ledger[o] \in [1 .. len -> Status]
        BY <4>1, SeqDef
      <4>3. marked \in [1 .. len -> Status]
        BY <4>2 DEF Status
      <4> QED BY <4>3, SeqDef
    <3>2. \A i \in DOMAIN ledger[o] : marked[i] # ledger[o][i] => n.id = i
      BY <1>t, <2>3
    <3>3. /\ ledger'[o] = marked /\ DOMAIN ledger' = Offers
          /\ \A p \in Offers \ {o} : ledger'[p] = ledger[p]
      BY <1>t, <2>2, <2>3
    <3> HIDE DEF marked
    <3>4. ledger' \in [Offers -> Seq(Status)]
      BY <1>t, <2>2, <3>1, <3>3
    <3> QED BY <2>1, <3>2, <3>3, <3>4 DEF Owed
  <2>4. CASE o \notin Offers
    BY <1>t, <2>2, <2>4 DEF Owed
  <2> QED BY <2>3, <2>4
<1>3. CASE c = "sync"
  <2>1. PICK paid \in SUBSET DOMAIN ledger[o] :
          ledger' = [ledger EXCEPT ![o] = [i \in DOMAIN @ |-> IF i \in paid THEN "paid" ELSE @[i]]]
    BY <1>3 DEF Serves
  <2>2. CASE o \in Offers
    <3>1. [i \in DOMAIN ledger[o] |-> IF i \in paid THEN "paid" ELSE ledger[o][i]] \in Seq(Status)
      <4>1. PICK len \in Nat : ledger[o] \in [1 .. len -> Status]
        BY <1>t, <2>2, SeqDef
      <4>2. [i \in DOMAIN ledger[o] |-> IF i \in paid THEN "paid" ELSE ledger[o][i]]
              \in [1 .. len -> Status]
        BY <4>1 DEF Status
      <4> QED BY <4>2, SeqDef
    <3> QED BY <1>3, <1>t, <2>1, <2>2, <3>1 DEF Owed
  <2>3. CASE o \notin Offers
    BY <1>t, <2>1, <2>3 DEF Owed
  <2> QED BY <2>2, <2>3
<1>4. CASE c \notin {"invoice", "mark_paid", "sync"}
  <2>1. ledger' = ledger
    BY <1>4 DEF Serves, serverVars
  <2> QED BY <1>t, <2>1 DEF Owed
<1> QED BY <1>1, <1>2, <1>3, <1>4

\* Whoever goes on, ends or fails makes no request by that.
LEMMA TaskGoesOn ==
  ASSUME IInv, NEW t \in Tasks,
         Fails(t) \/ \E refreshes, o, bs : GoOn(t, refreshes, o, bs)
  PROVE  DOMAIN tasks' = Tasks /\ tasks'["poll"].at # "calling"
<1>1. Idle.at # "calling"
  BY DEF Idle
<1>2. ASSUME NEW h, NEW o PROVE Refreshing(h, o).at # "calling"
  BY DEF Refreshing, Idle
<1>3. PICK x : tasks' = [tasks EXCEPT ![t] = x] /\ x.at # "calling"
  <2>1. CASE Fails(t)
    BY <1>1, <2>1 DEF Fails
  <2>2. ASSUME NEW refreshes, NEW o, NEW bs, GoOn(t, refreshes, o, bs)
        PROVE  \E x : tasks' = [tasks EXCEPT ![t] = x] /\ x.at # "calling"
    <3>1. CASE refreshes
      BY <1>2, <2>2, <3>1 DEF GoOn
    <3>2. CASE ~refreshes
      BY <1>1, <2>2, <3>2 DEF GoOn
    <3> QED BY <3>1, <3>2
  <2> QED BY <2>1, <2>2
<1> QED BY <1>3 DEF IInv, Tasks

Marks ==
  \A o \in Offers : \A i \in DOMAIN ledger[o] :
    ledger'[o][i] # ledger[o][i] =>
      \E t \in Users : /\ tasks[t].at = "calling" /\ tasks[t].offer = o
                       /\ \/ tasks[t].h.call = "sync"
                          \/ tasks[t].names.offer = o /\ tasks[t].names.id = i

LEMMA WorkspaceNext ==
  ASSUME IInv, [Next]_vars
  PROVE  IInv' /\ Marks
<1>q. ASSUME ledger' = ledger, DOMAIN tasks' = Tasks, tasks'["poll"].at # "calling"
      PROVE  IInv' /\ Marks
  BY <1>q DEF IInv, Marks
<1>u. ASSUME UNCHANGED <<ledger, tasks>> PROVE IInv' /\ Marks
  BY <1>u, <1>q DEF IInv
<1>s. ASSUME NEW t \in Tasks, tasks[t].at = "calling", Names(t), Serves(t),
             DOMAIN tasks' = Tasks, tasks'["poll"].at # "calling"
      PROVE  IInv' /\ Marks
  <2>1. t \in Users
    BY <1>s DEF IInv, Tasks
  <2>2. ledger' \in [Offers -> Seq(Status)] /\ Owed(t)
    BY <1>s, ServesWhatIsNamed
  <2> QED BY <1>s, <2>1, <2>2 DEF IInv, Marks, Owed
<1>1. ASSUME NEW h \in Handlers, Click(h) PROVE IInv' /\ Marks
  <2>u. FreeUser \subseteq Users
    BY DEF FreeUser
  <2>1. PICK t \in Users : \E x : tasks' = [tasks EXCEPT ![t] = x]
    <3> HIDE DEF Users
    <3>1. PICK t \in FreeUser : \E o :
            tasks' = [tasks EXCEPT ![t] = IF h.call = "none" THEN Refreshing(h, o)
                                          ELSE Calling(h, o, Named(h))]
      BY <1>1 DEF Click
    <3> QED BY <2>u, <3>1
  <2>2. DOMAIN tasks' = Tasks /\ tasks'["poll"] = tasks["poll"]
    BY <2>1 DEF IInv, Users, Tasks
  <2> QED BY <1>1, <2>2, <1>q DEF Click, serverVars, IInv
<1>2. ASSUME NEW t \in Tasks, Call(t) PROVE IInv' /\ Marks
  <2>1. CASE Names(t) /\ Serves(t) /\ Takes(t)
             /\ \E refreshes, o, bs : GoOn(t, refreshes, o, bs)
    BY <1>2, <1>s, <2>1, TaskGoesOn DEF Call
  <2>2. CASE Fails(t) /\ UNCHANGED serverVars
    BY <1>q, <2>2, TaskGoesOn DEF serverVars
  <2> QED BY <1>2, <2>1, <2>2 DEF Call
<1>3. ASSUME NEW t \in Tasks, Answer(t) PROVE IInv' /\ Marks
  <2>1. /\ ledger' = ledger
        /\ tasks' = [tasks EXCEPT ![t] = [[@ EXCEPT !.at = "answered"] EXCEPT
                       !.got = [resolutions |-> ledger[tasks[t].offer],
                                webhooks |-> hook[tasks[t].offer]]]]
    BY <1>3 DEF Answer, serverVars, IInv
  <2>2. tasks["poll"].at = "refreshing" \/ t # "poll"
    BY <1>3 DEF Answer
  <2> QED BY <1>q, <2>1, <2>2 DEF IInv, Tasks
<1>4. ASSUME NEW t \in Tasks, Refresh(t) PROVE IInv' /\ Marks
  BY <1>4, <1>q, TaskGoesOn DEF Refresh, serverVars
<1>5. ASSUME NEW t \in Tasks, RequestFails(t) PROVE IInv' /\ Marks
  <2>1. DOMAIN tasks' = Tasks /\ tasks'["poll"].at # "calling"
    BY <1>5, TaskGoesOn DEF RequestFails
  <2> QED BY <1>5, <1>q, <1>s, <2>1 DEF RequestFails, serverVars
<1>6. ASSUME NEW t \in Tasks, Unauthorized(t) PROVE IInv' /\ Marks
  <2>1. UNCHANGED tasks \/ Fails(t)
    BY <1>6 DEF Unauthorized
  <2>2. DOMAIN tasks' = Tasks /\ tasks'["poll"].at # "calling"
    BY <2>1, TaskGoesOn DEF IInv
  <2> QED BY <1>6, <1>q, <2>2 DEF Unauthorized, serverVars
<1>7. CASE PollActivity
  <2>1. PICK o : ledger' = ledger /\ tasks' = [tasks EXCEPT !["poll"] = Refreshing(LivePoll, o)]
    BY <1>7 DEF PollActivity, serverVars
  <2>2. Refreshing(LivePoll, o).at # "calling"
    BY DEF Refreshing, Idle
  <2> QED BY <1>q, <2>1, <2>2 DEF IInv, Tasks
<1>8. CASE SessionEnds \/ LoginOperator \/ ToggleRecurringApproval \/ RequestWebhookDelete
           \/ LeaveDialog \/ UNCHANGED vars
  BY <1>8, <1>u DEF SessionEnds, LoginOperator, ToggleRecurringApproval, RequestWebhookDelete,
     LeaveDialog, serverVars, vars
<1> QED BY <1>1, <1>2, <1>3, <1>4, <1>5, <1>6, <1>7, <1>8 DEF Next, TaskStep

LEMMA WorkspaceInit == Init => IInv
<1> SUFFICES ASSUME Init PROVE IInv
  OBVIOUS
<1>1. ledger \in [Offers -> Seq(Status)]
  <2>1. <<"created">> \in Seq(Status) /\ << >> \in Seq(Status)
    BY DEF Status
  <2> QED BY <2>1 DEF Init
<1>2. Idle.at = "idle"
  BY DEF Idle
<1> QED BY <1>1, <1>2 DEF Init, IInv, Tasks, Users

\* However late the page's lists are and whatever is selected meanwhile: an
\* invoice is marked paid only by a synchronisation of its own offer, or by a
\* request that names this very invoice under its own offer.
THEOREM MarksOnlyWhatWasShown == SafetySpec => MarksWhatWasShown
<1>1. Init => IInv
  BY WorkspaceInit
<1>2. IInv /\ [Next]_vars => IInv' /\ [Marks]_vars
  BY WorkspaceNext
<1> QED BY <1>1, <1>2, PTL DEF SafetySpec, MarksWhatWasShown, Marks
-----------------------------------------------------------------------------
(* Types of the page, the resolver and the handlers under way. *)

ResolverOK ==
  /\ ledger \in [Offers -> Seq(Status)] /\ hook \in [Offers -> HookStates]
  /\ exists \subseteq Offers /\ session \in BOOLEAN
  /\ clicks \in 0 .. MaxClicks /\ faults \in 0 .. MaxFaults

Entries == [offer : Offers, id : Nat, status : Status]

\* a list of invoices that the resolver has
ListOK(l) ==
  /\ l \in Seq(Entries)
  /\ \A i \in DOMAIN l : l[i].offer \in exists /\ l[i].id <= Len(ledger[l[i].offer])

PageOK ==
  /\ selected \in exists \cup {None} /\ ListOK(listed)
  /\ hooked \in [offer : exists \cup {None}, is : HookStates]
  /\ target \in exists \cup {None} /\ approval \in Recurring \cup {None}

ButtonSet == [Buttons -> [disabled : BOOLEAN, before : {"unset", "enabled", "disabled"}]]

\* what a request names, and what a reply brings, the resolver still has
TaskOK(t) ==
  LET k == tasks[t]
  IN /\ DOMAIN k = {"h", "at", "offer", "names", "got"}
     /\ k.h \in Handlers \cup {LivePoll} /\ k.at \in {"idle", "calling", "refreshing", "answered"}
     /\ k.at = "idle" => k = Idle
     /\ k.at \in {"idle", "answered"} => login[t] = "no"
     /\ k.offer \in exists \cup {None}
     /\ k.at = "calling" => /\ k.h.call # "create" => k.offer \in exists
                            /\ k.h.call \notin {"select", "create"} => selected # None
                            /\ k.h.call = "mark_paid" =>
                                 /\ k.names.offer \in exists /\ k.names.id \in Nat
                                 /\ k.names.id <= Len(ledger[k.names.offer])
     /\ k.at \in {"refreshing", "answered"} => k.offer \in exists
     /\ k.at # "answered" => k.got = NoLists
     /\ k.at = "answered" => /\ k.got.resolutions \in Seq(Status)
                             /\ Len(k.got.resolutions) <= Len(ledger[k.offer])
                             /\ k.got.webhooks \in HookStates

\* The inductive invariant of the types.
TypeInv ==
  /\ IInv /\ ResolverOK /\ PageOK /\ buttons \in ButtonSet
  /\ login \in [Tasks -> {"no", "waiting", "repeated"}]
  /\ \A t \in Tasks : TaskOK(t)

LEMMA TypeInvTypes == TypeInv => TypeOK
BY DEF TypeInv, TypeOK, ResolverOK, PageOK, ListOK, ButtonSet, TaskOK, Status

\* A handler that creates an offer refreshes nothing.
LEMMA CreateEnds ==
  ASSUME NEW h \in Handlers \cup {LivePoll}, h.call = "create"
  PROVE  h.refreshes = FALSE
BY DEF Handlers, LivePoll, Handler, LoadOffer, ResolveAddress, CreateOffer, RequestInvoice,
   CheckReadiness, MarkLatestPaid, RefreshStatus, RefreshOperatorConsole, RegisterWebhook,
   TestWebhook, RotateWebhookSecret, ToggleWebhook, DeleteSelectedWebhook, DeliverWebhookEvents,
   RetryCurrentOfferWebhooks, SyncCurrentOffer

\* What the page does to its buttons.
LEMMA ButtonTypes ==
  ASSUME NEW bs \in ButtonSet, NEW o, NEW approved
  PROVE  /\ Fresh \in ButtonSet /\ Busied(bs) \in ButtonSet /\ Freed(bs) \in ButtonSet
         /\ Gated(bs, o, approved) \in ButtonSet /\ Redrawn(bs) \in ButtonSet
<1>1. Fresh \in ButtonSet /\ Busied(bs) \in ButtonSet
  BY DEF ButtonSet, Fresh, Busied
<1>2. Freed(bs) \in ButtonSet
  BY DEF ButtonSet, Freed
<1>3. Gated(bs, o, approved) \in ButtonSet
  <2> DEFINE locked == o \in Recurring /\ approved # o
  <2>1. locked \in BOOLEAN
    OBVIOUS
  <2>2. Gated(bs, o, approved) = [bs EXCEPT !["request"] = [bs["request"] EXCEPT !.disabled = locked]]
    BY DEF Gated, ButtonSet
  <2> HIDE DEF locked
  <2> QED BY <2>1, <2>2 DEF ButtonSet
<1>4. Redrawn(bs) \in ButtonSet
  BY DEF ButtonSet, Redrawn
<1> QED BY <1>1, <1>2, <1>3, <1>4

LEMMA IdleFields ==
  /\ DOMAIN Idle = {"h", "at", "offer", "names", "got"} /\ Idle.h = LivePoll /\ Idle.at = "idle"
  /\ Idle.offer = None /\ Idle.got = NoLists
BY DEF Idle

LEMMA CallingFields ==
  ASSUME NEW h, NEW o, NEW names
  PROVE  LET k == Calling(h, o, names)
         IN /\ DOMAIN k = {"h", "at", "offer", "names", "got"} /\ k.h = h /\ k.at = "calling"
            /\ k.offer = o /\ k.names = names /\ k.got = NoLists
BY DEF Calling, Idle

LEMMA RefreshingFields ==
  ASSUME NEW h, NEW o
  PROVE  LET k == Refreshing(h, o)
         IN /\ DOMAIN k = {"h", "at", "offer", "names", "got"} /\ k.h \in {h, LivePoll}
            /\ k.at = "refreshing" /\ k.offer = o /\ k.got = NoLists
BY DEF Refreshing, Idle

\* Offers and invoices are never taken back.
Grows ==
  /\ ResolverOK' /\ exists \subseteq exists'
  /\ \A o \in Offers : Len(ledger[o]) <= Len(ledger'[o])

\* What was listed is still there.
LEMMA ListStays ==
  ASSUME ResolverOK, Grows, ListOK(listed), listed' = listed
  PROVE  ListOK(listed)'
<1>1. listed \in Seq(Entries)
  BY DEF ListOK
<1>2. ASSUME NEW i \in DOMAIN listed
      PROVE  listed[i].offer \in exists' /\ listed[i].id <= Len(ledger'[listed[i].offer])
  <2>1. listed[i] \in Entries
    BY <1>1, <1>2
  <2>2. listed[i].offer \in exists /\ listed[i].id <= Len(ledger[listed[i].offer])
    BY <1>2 DEF ListOK
  <2>3. Len(ledger[listed[i].offer]) \in Nat /\ Len(ledger'[listed[i].offer]) \in Nat
    BY <2>1 DEF ResolverOK, Grows, Entries
  <2> QED BY <2>1, <2>2, <2>3 DEF Grows, Entries
<1> QED BY <1>1, <1>2 DEF ListOK

\* A task that does not move keeps what it has.
LEMMA TaskStays ==
  ASSUME TypeInv, Grows, NEW t \in Tasks, tasks'[t] = tasks[t],
         tasks[t].at \in {"idle", "answered"} => login'[t] = login[t],
         selected # None => selected' # None
  PROVE  TaskOK(t)'
<1> DEFINE k == tasks[t]
<1>1. TaskOK(t) /\ ResolverOK /\ ResolverOK'
  BY DEF TypeInv, Grows
<1>2. ASSUME k.at = "calling", k.h.call = "mark_paid"
      PROVE  /\ k.names.offer \in exists' /\ k.names.id \in Nat
             /\ k.names.id <= Len(ledger'[k.names.offer])
  <2>1. /\ k.names.offer \in exists /\ k.names.id \in Nat
        /\ k.names.id <= Len(ledger[k.names.offer])
    BY <1>1, <1>2 DEF TaskOK
  <2>2. k.names.offer \in Offers
    BY <1>1, <2>1 DEF ResolverOK
  <2>3. Len(ledger[k.names.offer]) \in Nat /\ Len(ledger'[k.names.offer]) \in Nat
    BY <1>1, <2>2 DEF ResolverOK
  <2> QED BY <2>1, <2>2, <2>3 DEF Grows
<1>3. ASSUME k.at = "answered"
      PROVE  /\ k.got.resolutions \in Seq(Status)
             /\ Len(k.got.resolutions) <= Len(ledger'[k.offer])
             /\ k.got.webhooks \in HookStates
  <2>1. /\ k.got.resolutions \in Seq(Status) /\ k.offer \in exists
        /\ Len(k.got.resolutions) <= Len(ledger[k.offer]) /\ k.got.webhooks \in HookStates
    BY <1>1, <1>3 DEF TaskOK
  <2>2. k.offer \in Offers
    BY <1>1, <2>1 DEF ResolverOK
  <2>3. /\ Len(ledger[k.offer]) \in Nat /\ Len(ledger'[k.offer]) \in Nat
        /\ Len(k.got.resolutions) \in Nat
    BY <1>1, <2>1, <2>2 DEF ResolverOK
  <2> QED BY <2>1, <2>2, <2>3 DEF Grows
<1>4. tasks'[t] = k /\ exists \subseteq exists'
  BY DEF Grows
<1> HIDE DEF k
<1> QED BY <1>1, <1>2, <1>3, <1>4 DEF TaskOK, k

\* What the resolver does for a request only adds to what it has.
LEMMA ServesGrows ==
  ASSUME TypeInv, NEW t \in Tasks, Names(t), Serves(t),
         UNCHANGED session, clicks' \in 0 .. MaxClicks, faults' \in 0 .. MaxFaults
  PROVE  Grows
<1> DEFINE o == tasks[t].offer
           n == tasks[t].names
           c == tasks[t].h.call
<1>t. ledger \in [Offers -> Seq(Status)] /\ hook \in [Offers -> HookStates] /\ exists \subseteq Offers
      /\ session \in BOOLEAN
  BY DEF TypeInv, ResolverOK
<1>1. ledger' \in [Offers -> Seq(Status)]
  BY ServesWhatIsNamed DEF TypeInv
<1>2. exists' \subseteq Offers /\ exists \subseteq exists'
  <2>1. CASE c = "create"
    BY <1>t, <2>1 DEF Serves
  <2>2. CASE c # "create"
    BY <1>t, <2>2 DEF Serves, serverVars
  <2> QED BY <2>1, <2>2
<1>3. hook' \in [Offers -> HookStates]
  <2>1. CASE c \in {"register", "toggle", "delete"}
    <3>1. \E state \in HookStates : hook' = [hook EXCEPT ![o] = state]
      BY <2>1 DEF Serves, HookStates
    <3> HIDE DEF o
    <3> QED BY <1>t, <3>1
  <2>2. CASE c \notin {"register", "toggle", "delete"}
    BY <1>t, <2>2 DEF Serves, serverVars
  <2> QED BY <2>1, <2>2
<1>4. ASSUME NEW p \in Offers PROVE Len(ledger[p]) <= Len(ledger'[p])
  <2>0. ledger[p] \in Seq(Status) /\ Len(ledger[p]) \in Nat
    BY <1>t
  <2>1. CASE c = "invoice"
    <3>1. ledger' = [ledger EXCEPT ![o] = Append(@, "created")]
      BY <2>1 DEF Serves
    <3> HIDE DEF o
    <3>2. ledger'[p] = ledger[p] \/ ledger'[p] = Append(ledger[p], "created")
      BY <1>t, <3>1
    <3>3. Len(Append(ledger[p], "created")) = Len(ledger[p]) + 1
      BY <2>0, AppendProperties DEF Status
    <3> QED BY <2>0, <3>2, <3>3
  <2>2. CASE c # "invoice"
    <3>1. DOMAIN ledger'[p] = DOMAIN ledger[p]
      <4>1. CASE c = "mark_paid"
        BY <1>t, <2>2, <4>1 DEF Serves
      <4>2. CASE c = "sync"
        <5>1. PICK paid : ledger' = [ledger EXCEPT ![o] = [i \in DOMAIN @ |-> IF i \in paid THEN "paid" ELSE @[i]]]
          BY <4>2 DEF Serves
        <5> HIDE DEF o
        <5> QED BY <1>t, <5>1
      <4>3. CASE c \notin {"mark_paid", "sync"}
        BY <2>2, <4>3 DEF Serves, serverVars
      <4> QED BY <4>1, <4>2, <4>3
    <3>2. ledger'[p] \in Seq(Status)
      BY <1>1
    <3> QED BY <2>0, <3>1, <3>2, LenProperties
  <2> QED BY <2>1, <2>2
<1> QED BY <1>1, <1>2, <1>3, <1>4, <1>t DEF Grows, ResolverOK

-----------------------------------------------------------------------------
(* What every step of the types rests on: the resolver only gains offers and
   invoices, and one task at most moves. *)

LEMMA StillGrows ==
  ASSUME TypeInv, UNCHANGED serverVars, session' \in BOOLEAN,
         clicks' \in 0 .. MaxClicks, faults' \in 0 .. MaxFaults
  PROVE  Grows
<1>1. ResolverOK' /\ exists' = exists /\ ledger' = ledger
  BY DEF TypeInv, ResolverOK, serverVars
<1>2. \A o \in Offers : Len(ledger[o]) \in Nat
  BY DEF TypeInv, ResolverOK
<1> QED BY <1>1, <1>2 DEF Grows

LEMMA PageStays ==
  ASSUME TypeInv, Grows, UNCHANGED pageVars
  PROVE  PageOK'
<1>1. ResolverOK /\ PageOK /\ exists \subseteq exists'
  BY DEF TypeInv, Grows
<1>2. /\ selected' = selected /\ listed' = listed /\ hooked' = hooked /\ target' = target
      /\ approval' = approval
  BY DEF pageVars
<1>3. ListOK(listed)'
  BY <1>1, <1>2, ListStays DEF PageOK
<1> QED BY <1>1, <1>2, <1>3 DEF PageOK

\* One task moves, and the others stay.
LEMMA OneMoves ==
  ASSUME TypeInv, IInv', Grows, PageOK', buttons' \in ButtonSet, NEW t \in Tasks,
         NEW x, tasks' = [tasks EXCEPT ![t] = x],
         NEW l \in {"no", "waiting", "repeated"}, login' = [login EXCEPT ![t] = l],
         TaskOK(t)', selected # None => selected' # None
  PROVE  TypeInv'
<1>1. DOMAIN tasks = Tasks /\ login \in [Tasks -> {"no", "waiting", "repeated"}]
  BY DEF TypeInv, IInv
<1>2. ASSUME NEW u \in Tasks \ {t} PROVE tasks'[u] = tasks[u] /\ login'[u] = login[u]
  BY <1>1
<1>3. ASSUME NEW u \in Tasks PROVE TaskOK(u)'
  BY <1>2, TaskStays
<1>4. login' \in [Tasks -> {"no", "waiting", "repeated"}] /\ ResolverOK'
  BY <1>1 DEF Grows
<1> QED BY <1>3, <1>4 DEF TypeInv

LEMMA IdleTask ==
  ASSUME NEW t \in Tasks, tasks'[t] = Idle, login'[t] = "no"
  PROVE  TaskOK(t)'
<1> DEFINE k == Idle
<1>1. /\ DOMAIN k = {"h", "at", "offer", "names", "got"} /\ k.h = LivePoll /\ k.at = "idle"
      /\ k.offer = None /\ k.got = NoLists
  BY IdleFields
<1> HIDE DEF k
<1>2. tasks'[t] = k /\ k = Idle
  BY DEF k
<1> QED BY <1>1, <1>2 DEF TaskOK

LEMMA RefreshingTask ==
  ASSUME NEW t \in Tasks, NEW h \in Handlers \cup {LivePoll}, NEW o \in exists',
         tasks'[t] = Refreshing(h, o)
  PROVE  TaskOK(t)'
<1> DEFINE k == Refreshing(h, o)
<1>1. /\ DOMAIN k = {"h", "at", "offer", "names", "got"} /\ k.h \in {h, LivePoll}
      /\ k.at = "refreshing" /\ k.offer = o /\ k.got = NoLists
  BY RefreshingFields
<1> HIDE DEF k
<1>2. tasks'[t] = k
  BY DEF k
<1> QED BY <1>1, <1>2 DEF TaskOK

LEMMA FailsTypes ==
  ASSUME TypeInv, IInv', NEW t \in Tasks, Fails(t), Grows, UNCHANGED pageVars
  PROVE  TypeInv'
<1>1. PageOK' /\ selected' = selected
  BY PageStays DEF pageVars
<1>2. buttons' \in ButtonSet
  BY ButtonTypes DEF TypeInv, Fails
<1>3. tasks' = [tasks EXCEPT ![t] = Idle] /\ login' = [login EXCEPT ![t] = "no"]
  BY DEF Fails
<1>4. TaskOK(t)'
  BY <1>3, IdleTask DEF TypeInv, IInv
<1> QED BY <1>1, <1>2, <1>3, <1>4, OneMoves

LEMMA FailureTypes ==
  ASSUME TypeInv, IInv', NEW t \in Tasks, RequestFails(t)
  PROVE  TypeInv'
<1>1. Fails(t) /\ UNCHANGED <<session, pageVars, clicks>> /\ faults' \in 0 .. MaxFaults
  BY WorkspaceAssumption DEF RequestFails, TypeInv, ResolverOK
<1>2. session' \in BOOLEAN /\ clicks' \in 0 .. MaxClicks
  BY <1>1 DEF TypeInv, ResolverOK
<1>3. Grows
  BY <1>1, <1>2, StillGrows, ServesGrows DEF RequestFails
<1> QED BY <1>1, <1>3, FailsTypes

LEMMA AnswerTypes ==
  ASSUME TypeInv, IInv', NEW t \in Tasks, Answer(t)
  PROVE  TypeInv'
<1> DEFINE k == tasks[t]
           got == [resolutions |-> ledger[k.offer], webhooks |-> hook[k.offer]]
           x == [[k EXCEPT !.at = "answered"] EXCEPT !.got = got]
<1>1. TaskOK(t) /\ ResolverOK /\ DOMAIN tasks = Tasks
  BY DEF TypeInv, IInv
<1>2. k.at = "refreshing" /\ k.offer \in exists /\ k.offer \in Offers
  BY <1>1 DEF Answer, TaskOK, ResolverOK
<1>3. /\ tasks' = [tasks EXCEPT ![t] = x] /\ login' = [login EXCEPT ![t] = "no"]
      /\ UNCHANGED <<serverVars, session, pageVars, buttons, clicks, faults>>
  BY <1>1 DEF Answer
<1>4. /\ got.resolutions = ledger[k.offer] /\ got.webhooks = hook[k.offer]
      /\ ledger[k.offer] \in Seq(Status) /\ hook[k.offer] \in HookStates
      /\ Len(ledger[k.offer]) \in Nat
  BY <1>1, <1>2 DEF ResolverOK
<1>5. DOMAIN k = {"h", "at", "offer", "names", "got"} /\ k.h \in Handlers \cup {LivePoll}
  BY <1>1 DEF TaskOK
<1> HIDE DEF got, k
<1>6. /\ DOMAIN x = {"h", "at", "offer", "names", "got"} /\ x.h = k.h /\ x.at = "answered"
      /\ x.offer = k.offer /\ x.got = got
  BY <1>5
<1> HIDE DEF x
<1>7. tasks'[t] = x /\ login'[t] = "no" /\ exists' = exists /\ ledger' = ledger /\ hook' = hook
  BY <1>1, <1>3 DEF serverVars, TypeInv
<1>8. TaskOK(t)'
  BY <1>2, <1>4, <1>5, <1>6, <1>7 DEF TaskOK
<1>9. Grows
  BY <1>1, <1>3, StillGrows DEF ResolverOK
<1>10. PageOK' /\ buttons' \in ButtonSet /\ selected' = selected
  BY <1>3, <1>9, PageStays DEF TypeInv, pageVars
<1> QED BY <1>3, <1>8, <1>9, <1>10, OneMoves

\* the page shows what a refresh brought
LEMMA ShownTypes ==
  ASSUME NEW o \in exists, ResolverOK, NEW all \in Seq(Status), Len(all) <= Len(ledger[o])
  PROVE  ListOK([i \in DOMAIN all |-> Entry(o, Len(all) + 1 - i, all[Len(all) + 1 - i])])
<1> DEFINE n == Len(all)
           l == [i \in DOMAIN all |-> Entry(o, Len(all) + 1 - i, all[Len(all) + 1 - i])]
<1>1. n \in Nat /\ DOMAIN all = 1 .. n /\ all \in [1 .. n -> Status] /\ o \in Offers
  BY LenProperties DEF ResolverOK
<1>2. Len(ledger[o]) \in Nat
  BY <1>1 DEF ResolverOK
<1> HIDE DEF n
<1>3. ASSUME NEW i \in 1 .. n
      PROVE  /\ Entry(o, n + 1 - i, all[n + 1 - i]) \in Entries
             /\ Entry(o, n + 1 - i, all[n + 1 - i]).offer = o
             /\ Entry(o, n + 1 - i, all[n + 1 - i]).id <= n
  <2>1. n + 1 - i \in 1 .. n /\ n + 1 - i \in Nat
    BY <1>1
  <2>2. all[n + 1 - i] \in Status
    BY <1>1, <2>1
  <2> QED BY <1>1, <2>1, <2>2 DEF Entry, Entries
<1>4. l = [i \in 1 .. n |-> Entry(o, n + 1 - i, all[n + 1 - i])]
  BY <1>1 DEF n
<1>5. l \in [1 .. n -> Entries] /\ DOMAIN l = 1 .. n
  BY <1>3, <1>4
<1>6. l \in Seq(Entries)
  BY <1>1, <1>5, SeqDef
<1>7. ASSUME NEW i \in DOMAIN l PROVE l[i].offer \in exists /\ l[i].id <= Len(ledger[l[i].offer])
  <2>1. l[i].offer = o /\ l[i].id <= n /\ l[i].id \in Nat
    BY <1>3, <1>4, <1>5, <1>7 DEF Entries
  <2>2. n <= Len(ledger[o])
    BY DEF n
  <2> QED BY <1>1, <1>2, <2>1, <2>2
<1> QED BY <1>6, <1>7 DEF ListOK

-----------------------------------------------------------------------------
(* Replies reach the page. *)

LEMMA GoOnButtons ==
  ASSUME NEW t, NEW refreshes, NEW o, NEW bs \in ButtonSet, GoOn(t, refreshes, o, bs)
  PROVE  buttons' \in ButtonSet
BY ButtonTypes DEF GoOn

LEMMA RefreshTypes ==
  ASSUME TypeInv, IInv', NEW t \in Tasks, Refresh(t)
  PROVE  TypeInv'
<1> DEFINE k == tasks[t]
           all == k.got.resolutions
           approved == IF selected \in Recurring THEN approval ELSE None
           selects == k.h.call = "select"
           bs == IF selects THEN Gated(Redrawn(buttons), selected, approved) ELSE Redrawn(buttons)
<1>1. TaskOK(t) /\ ResolverOK /\ PageOK /\ DOMAIN tasks = Tasks /\ buttons \in ButtonSet
      /\ login \in [Tasks -> {"no", "waiting", "repeated"}]
  BY DEF TypeInv, IInv
<1>2. /\ listed' = [i \in DOMAIN all |-> Entry(k.offer, Len(all) + 1 - i, all[Len(all) + 1 - i])]
      /\ hooked' = Hooked(k.offer, k.got.webhooks)
      /\ approval' = (IF selects THEN approved ELSE approval)
      /\ GoOn(t, FALSE, k.offer, bs)
      /\ UNCHANGED <<serverVars, session, selected, target, login, clicks, faults>>
  BY DEF Refresh
<1>3. /\ k.offer \in exists /\ all \in Seq(Status) /\ Len(all) <= Len(ledger[k.offer])
      /\ k.got.webhooks \in HookStates /\ login[t] = "no"
  BY <1>1 DEF Refresh, TaskOK
<1>4. Grows
  BY <1>1, <1>2, StillGrows DEF ResolverOK
<1>5. PageOK'
  <2>1. ListOK([i \in DOMAIN all |-> Entry(k.offer, Len(all) + 1 - i, all[Len(all) + 1 - i])])
    BY <1>1, <1>3, ShownTypes
  <2> HIDE DEF all, k
  <2>2. ListOK(listed)'
    BY <1>2, <2>1 DEF ListOK, serverVars
  <2>3. hooked' \in [offer : exists \cup {None}, is : HookStates]
    BY <1>2, <1>3 DEF Hooked
  <2>4. approval' \in Recurring \cup {None}
    BY <1>1, <1>2 DEF PageOK
  <2> QED BY <1>1, <1>2, <2>2, <2>3, <2>4 DEF PageOK, serverVars
<1>6. bs \in ButtonSet
  BY <1>1, ButtonTypes
<1>7. buttons' \in ButtonSet
  <2> HIDE DEF bs
  <2> QED BY <1>2, <1>6, GoOnButtons
<1>8. tasks' = [tasks EXCEPT ![t] = Idle] /\ login' = [login EXCEPT ![t] = "no"]
  <2>1. tasks' = [tasks EXCEPT ![t] = Idle]
    BY <1>2 DEF GoOn
  <2> QED BY <1>1, <1>2, <1>3, <2>1
<1>9. TaskOK(t)'
  BY <1>1, <1>8, IdleTask
<1> QED BY <1>2, <1>4, <1>5, <1>7, <1>8, <1>9, OneMoves

\* What a handler does with the reply.
LEMMA TakesTypes ==
  ASSUME TypeInv, NEW t \in Tasks, tasks[t].at = "calling", Names(t), Serves(t), Takes(t), Grows
  PROVE  /\ PageOK' /\ (selected # None => selected' # None)
         /\ tasks[t].h.call # "create" => selected' \in exists'
<1> DEFINE k == tasks[t]
           c == k.h.call
           o == k.offer
<1>1. TaskOK(t) /\ ResolverOK /\ PageOK /\ ResolverOK' /\ exists \subseteq exists' /\ None \notin exists'
  BY WorkspaceAssumption DEF TypeInv, Grows, ResolverOK
<1>2. ListOK(listed) /\ listed \in Seq(Entries)
  BY <1>1 DEF PageOK, ListOK
<1>k. /\ c # "create" => o \in exists
      /\ c \notin {"select", "create"} => selected \in exists
  BY <1>1 DEF TaskOK, PageOK
<1>3. CASE c = "select"
  <2>1. selected' = o /\ UNCHANGED <<listed, hooked, target, approval>>
    BY <1>3 DEF Takes
  <2>2. ListOK(listed)'
    BY <1>1, <1>2, <2>1, ListStays
  <2> QED BY <1>1, <1>3, <1>k, <2>1, <2>2 DEF PageOK
<1>4. CASE c = "create"
  <2>1. selected' \in exists' /\ listed' = << >> /\ approval' = None /\ UNCHANGED <<hooked, target>>
    BY <1>4 DEF Takes
  <2>2. ListOK(listed)'
    BY <2>1 DEF ListOK
  <2> QED BY <1>1, <1>4, <2>1, <2>2 DEF PageOK
<1>l. ASSUME NEW e \in Entries, e.offer \in exists', e.id <= Len(ledger'[e.offer]),
             NEW old, old = listed \/ (listed # << >> /\ old = Tail(listed)), listed' = <<e>> \o old
      PROVE  ListOK(listed)'
  <2>1. /\ old \in Seq(Entries)
        /\ \A i \in DOMAIN old : old[i].offer \in exists' /\ old[i].id <= Len(ledger'[old[i].offer])
    <3>0. ASSUME NEW i \in DOMAIN listed
          PROVE  listed[i].offer \in exists' /\ listed[i].id <= Len(ledger'[listed[i].offer])
      <4>1. listed[i] \in Entries
        BY <1>2, <3>0
      <4>2. listed[i].offer \in exists /\ listed[i].id <= Len(ledger[listed[i].offer])
        BY <1>2, <3>0 DEF ListOK
      <4>3. Len(ledger[listed[i].offer]) \in Nat /\ Len(ledger'[listed[i].offer]) \in Nat
        BY <1>1, <4>1 DEF ResolverOK, Entries
      <4> QED BY <4>1, <4>2, <4>3 DEF Grows, Entries
    <3>1. CASE old = listed
      BY <1>2, <3>0, <3>1
    <3>2. CASE listed # << >> /\ old = Tail(listed)
      <4>1. /\ old \in Seq(Entries) /\ Len(old) = Len(listed) - 1
            /\ \A i \in 1 .. Len(old) : old[i] = listed[i + 1]
        BY <1>2, <3>2, HeadTailProperties
      <4>2. DOMAIN old = 1 .. Len(old) /\ DOMAIN listed = 1 .. Len(listed) /\ Len(listed) \in Nat
        BY <1>2, <4>1, LenProperties
      <4>3. \A i \in DOMAIN old : i + 1 \in DOMAIN listed
        BY <4>1, <4>2
      <4> QED BY <3>0, <4>1, <4>2, <4>3
    <3> QED BY <1>l, <3>1, <3>2
  <2>2. <<e>> \in Seq(Entries) /\ Len(<<e>>) = 1 /\ <<e>>[1] = e
    OBVIOUS
  <2>3. /\ listed' \in Seq(Entries) /\ Len(listed') = 1 + Len(old)
        /\ \A i \in 1 .. Len(listed') : listed'[i] = IF i <= 1 THEN <<e>>[i] ELSE old[i - 1]
    BY <1>l, <2>1, <2>2, ConcatProperties
  <2>4. DOMAIN listed' = 1 .. Len(listed') /\ DOMAIN old = 1 .. Len(old) /\ Len(old) \in Nat
    BY <2>1, <2>3, LenProperties
  <2>5. ASSUME NEW i \in DOMAIN listed'
        PROVE  listed'[i].offer \in exists' /\ listed'[i].id <= Len(ledger'[listed'[i].offer])
    <3>1. CASE i = 1
      BY <1>l, <2>2, <2>3, <2>4, <3>1
    <3>2. CASE i # 1
      <4>1. i - 1 \in DOMAIN old /\ listed'[i] = old[i - 1]
        BY <2>3, <2>4, <3>2
      <4> QED BY <2>1, <4>1
    <3> QED BY <3>1, <3>2
  <2> QED BY <2>3, <2>5 DEF ListOK
<1>5. CASE c = "invoice"
  <2>1. /\ listed' = <<Entry(o, Len(ledger'[o]), "created")>> \o listed
        /\ UNCHANGED <<selected, hooked, target, approval>>
    BY <1>5 DEF Takes
  <2>2. o \in exists' /\ o \in Offers /\ Len(ledger'[o]) \in Nat
    BY <1>1, <1>5, <1>k DEF ResolverOK
  <2> HIDE DEF o, k
  <2>3. /\ Entry(o, Len(ledger'[o]), "created") \in Entries
        /\ Entry(o, Len(ledger'[o]), "created").offer = o
        /\ Entry(o, Len(ledger'[o]), "created").id = Len(ledger'[o])
    BY <2>2 DEF Entry, Entries, Status
  <2>4. ListOK(listed)'
    BY <1>l, <2>1, <2>2, <2>3
  <2> QED BY <1>1, <1>5, <1>k, <2>1, <2>4 DEF PageOK
<1>6. CASE c = "mark_paid"
  <2> DEFINE n == k.names
             old == IF listed = << >> THEN << >> ELSE Tail(listed)
  <2>1. /\ listed' = <<Entry(o, n.id, "paid")>> \o old
        /\ UNCHANGED <<selected, hooked, target, approval>>
    BY <1>6 DEF Takes
  <2>o. old = listed \/ (listed # << >> /\ old = Tail(listed))
    OBVIOUS
  <2>2. n.offer = o /\ n.id \in Nat /\ n.id <= Len(ledger[o])
    BY <1>1, <1>6 DEF Names, TaskOK
  <2>3. o \in exists' /\ o \in Offers /\ Len(ledger'[o]) \in Nat /\ Len(ledger[o]) \in Nat
    BY <1>1, <1>6, <1>k DEF ResolverOK
  <2>4. n.id <= Len(ledger'[o])
    BY <2>2, <2>3 DEF Grows
  <2> HIDE DEF o, k, n, old
  <2>5. /\ Entry(o, n.id, "paid") \in Entries
        /\ Entry(o, n.id, "paid").offer = o /\ Entry(o, n.id, "paid").id = n.id
    BY <2>2, <2>3 DEF Entry, Entries, Status
  <2>6. ListOK(listed)'
    BY <1>l, <2>1, <2>o, <2>3, <2>4, <2>5
  <2> QED BY <1>1, <1>6, <1>k, <2>1, <2>6 DEF PageOK
<1>7. CASE c \notin {"select", "create", "invoice", "mark_paid"}
  <2>1. UNCHANGED <<selected, listed, hooked, approval>> /\ target' \in {None, target}
    BY <1>7 DEF Takes, pageVars
  <2>2. ListOK(listed)'
    BY <1>1, <1>2, <2>1, ListStays
  <2> QED BY <1>1, <1>7, <1>k, <2>1, <2>2 DEF PageOK
<1> QED BY <1>3, <1>4, <1>5, <1>6, <1>7

-----------------------------------------------------------------------------
(* The actions, one lemma each. *)

LEMMA CallTypes ==
  ASSUME TypeInv, IInv', NEW t \in Tasks, Call(t)
  PROVE  TypeInv'
<1> DEFINE k == tasks[t]
           bs == IF k.h.call = "create" THEN Gated(buttons, selected', None) ELSE buttons
<1>1. /\ TaskOK(t) /\ DOMAIN tasks = Tasks /\ buttons \in ButtonSet /\ k.at = "calling"
      /\ UNCHANGED <<session, clicks, faults>>
      /\ session' \in BOOLEAN /\ clicks' \in 0 .. MaxClicks /\ faults' \in 0 .. MaxFaults
      /\ login \in [Tasks -> {"no", "waiting", "repeated"}]
  BY DEF TypeInv, IInv, Call, ResolverOK
<1>2. CASE Names(t) /\ Serves(t) /\ Takes(t) /\ login' = [login EXCEPT ![t] = "no"]
           /\ GoOn(t, k.h.refreshes, selected', bs)
  <2>1. Grows
    BY <1>1, <1>2, ServesGrows
  <2>2. /\ PageOK' /\ (selected # None => selected' # None)
        /\ k.h.call # "create" => selected' \in exists'
    BY <1>1, <1>2, <2>1, TakesTypes
  <2>3. bs \in ButtonSet
    BY <1>1, ButtonTypes
  <2>4. buttons' \in ButtonSet
    <3> HIDE DEF bs
    <3> QED BY <1>2, <2>3, GoOnButtons
  <2>5. k.h \in Handlers \cup {LivePoll} /\ login'[t] = "no"
    BY <1>1, <1>2 DEF TaskOK
  <2>6. CASE k.h.refreshes
    <3>1. k.h.call # "create"
      BY <2>5, <2>6, CreateEnds
    <3>2. tasks' = [tasks EXCEPT ![t] = Refreshing(k.h, selected')]
      BY <1>2, <2>6 DEF GoOn
    <3> HIDE DEF k
    <3>3. tasks'[t] = Refreshing(k.h, selected')
      BY <1>1, <3>2
    <3>4. TaskOK(t)'
      BY <2>2, <2>5, <3>1, <3>3, RefreshingTask
    <3> QED BY <1>2, <2>1, <2>2, <2>4, <3>2, <3>4, OneMoves
  <2>7. CASE ~k.h.refreshes
    <3>1. tasks' = [tasks EXCEPT ![t] = Idle]
      BY <1>2, <2>7 DEF GoOn
    <3>2. TaskOK(t)'
      BY <1>1, <2>5, <3>1, IdleTask
    <3> QED BY <1>2, <2>1, <2>2, <2>4, <3>1, <3>2, OneMoves
  <2> QED BY <2>6, <2>7
<1>3. CASE Fails(t) /\ UNCHANGED <<serverVars, pageVars>>
  BY <1>1, <1>3, StillGrows, FailsTypes
<1> QED BY <1>2, <1>3 DEF Call

\* Only the handler that marks the latest invoice makes such a request.
LEMMA MarksByButton ==
  ASSUME NEW h \in Handlers, h.call = "mark_paid"
  PROVE  h.button = "plain"
BY DEF Handlers, Handler, LoadOffer, ResolveAddress, CreateOffer, RequestInvoice,
   CheckReadiness, MarkLatestPaid, RefreshStatus, RefreshOperatorConsole, RegisterWebhook,
   TestWebhook, RotateWebhookSecret, ToggleWebhook, DeleteSelectedWebhook, DeliverWebhookEvents,
   RetryCurrentOfferWebhooks, SyncCurrentOffer

LEMMA ClickTypes ==
  ASSUME TypeInv, IInv', NEW h \in Handlers, Click(h)
  PROVE  TypeInv'
<1>1. PICK t \in FreeUser, o \in (IF h.call = "select" THEN exists ELSE {selected}) :
        tasks' = [tasks EXCEPT ![t] = IF h.call = "none" THEN Refreshing(h, o)
                                      ELSE Calling(h, o, Named(h))]
  BY DEF Click
<1> DEFINE x == IF h.call = "none" THEN Refreshing(h, o) ELSE Calling(h, o, Named(h))
<1>2. t \in Tasks /\ tasks[t].at = "idle"
  BY DEF FreeUser, Tasks
<1>3. /\ TaskOK(t) /\ DOMAIN tasks = Tasks /\ buttons \in ButtonSet /\ PageOK /\ ResolverOK
      /\ login \in [Tasks -> {"no", "waiting", "repeated"}]
  BY <1>2 DEF TypeInv, IInv
<1>4. /\ clicks < MaxClicks /\ clicks' = clicks + 1 /\ buttons' = Busied(buttons)
      /\ h.call \notin {"select", "create"} => selected # None
      /\ h.call = "mark_paid" => listed # << >>
      /\ UNCHANGED <<serverVars, session, pageVars, login, faults>>
  BY DEF Click
<1>5. Grows
  <2>1. session' \in BOOLEAN /\ clicks' \in 0 .. MaxClicks /\ faults' \in 0 .. MaxFaults
    BY <1>3, <1>4, WorkspaceAssumption DEF ResolverOK
  <2> QED BY <1>4, <2>1, StillGrows
<1>6. login[t] = "no" /\ login' = [login EXCEPT ![t] = "no"] /\ login'[t] = "no"
  BY <1>2, <1>3, <1>4 DEF TaskOK
<1>7. /\ selected' = selected /\ exists' = exists /\ ledger' = ledger
      /\ h.call # "create" => o \in exists
      /\ o \in exists \cup {None}
  BY <1>3, <1>4 DEF PageOK, pageVars, serverVars
<1>8. h.call = "mark_paid" => /\ Named(h).offer \in exists /\ Named(h).id \in Nat
                              /\ Named(h).id <= Len(ledger[Named(h).offer])
  <2> SUFFICES ASSUME h.call = "mark_paid" PROVE /\ Named(h).offer \in exists /\ Named(h).id \in Nat
                                                 /\ Named(h).id <= Len(ledger[Named(h).offer])
    OBVIOUS
  <2>1. h.button = "plain"
    BY MarksByButton
  <2>2. Named(h) = Head(listed)
    BY <2>1 DEF Named
  <2>3. ListOK(listed) /\ listed \in Seq(Entries) /\ listed # << >>
    BY <1>3, <1>4 DEF PageOK, ListOK
  <2>4. Head(listed) = listed[1] /\ 1 \in DOMAIN listed
    BY <2>3
  <2>5. listed[1] \in Entries
    BY <2>3, <2>4
  <2>6. listed[1].offer \in exists /\ listed[1].id <= Len(ledger[listed[1].offer])
    BY <2>3, <2>4 DEF ListOK
  <2> QED BY <2>2, <2>4, <2>5, <2>6 DEF Entries
<1>9. tasks'[t] = x
  BY <1>1, <1>2, <1>3
<1>10. TaskOK(t)'
  <2>1. CASE h.call = "none"
    <3>1. tasks'[t] = Refreshing(h, o) /\ o \in exists'
      BY <1>7, <1>9, <2>1
    <3> HIDE DEF x
    <3> QED BY <1>2, <3>1, RefreshingTask
  <2>2. CASE h.call # "none"
    <3> DEFINE k == Calling(h, o, Named(h))
    <3>1. /\ DOMAIN k = {"h", "at", "offer", "names", "got"} /\ k.h = h /\ k.at = "calling"
          /\ k.offer = o /\ k.names = Named(h) /\ k.got = NoLists
      BY CallingFields
    <3>2. tasks'[t] = k
      BY <1>9, <2>2
    <3> HIDE DEF k, x
    <3> QED BY <1>4, <1>7, <1>8, <3>1, <3>2 DEF TaskOK
  <2> QED BY <2>1, <2>2
<1>11. PageOK' /\ buttons' \in ButtonSet
  BY <1>3, <1>4, <1>5, PageStays, ButtonTypes
<1> HIDE DEF x
<1>12. tasks' = [tasks EXCEPT ![t] = x]
  BY <1>1 DEF x
<1> QED BY <1>2, <1>5, <1>6, <1>7, <1>10, <1>11, <1>12, OneMoves

\* The steps that move no task.
LEMMA NobodyMoves ==
  ASSUME TypeInv, IInv', Grows, PageOK', buttons' \in ButtonSet, tasks' = tasks,
         login' \in [Tasks -> {"no", "waiting", "repeated"}],
         \A u \in Tasks : tasks[u].at \in {"idle", "answered"} => login'[u] = login[u],
         selected' = selected
  PROVE  TypeInv'
<1>1. \A u \in Tasks : TaskOK(u)'
  BY TaskStays
<1> QED BY <1>1 DEF TypeInv, Grows

LEMMA OtherTypes ==
  ASSUME TypeInv, IInv',
         \/ SessionEnds \/ LoginOperator \/ ToggleRecurringApproval \/ RequestWebhookDelete
         \/ LeaveDialog \/ UNCHANGED vars
  PROVE  TypeInv'
<1>t. /\ ResolverOK /\ PageOK /\ buttons \in ButtonSet /\ DOMAIN tasks = Tasks
      /\ login \in [Tasks -> {"no", "waiting", "repeated"}]
      /\ \A u \in Tasks : TaskOK(u)
  BY DEF TypeInv, IInv
<1>1. CASE SessionEnds \/ UNCHANGED vars
  <2>1. /\ UNCHANGED <<serverVars, pageVars, buttons, tasks, login, clicks>>
        /\ session' \in BOOLEAN /\ faults' \in 0 .. MaxFaults
    <3>1. CASE SessionEnds
      <4>1. session' = FALSE /\ UNCHANGED <<serverVars, pageVars, buttons, tasks, login, clicks>>
        BY <3>1 DEF SessionEnds
      <4>2. faults' \in 0 .. MaxFaults
        BY <1>t, <3>1, WorkspaceAssumption DEF SessionEnds, ResolverOK
      <4> QED BY <4>1, <4>2
    <3>2. CASE UNCHANGED vars
      BY <1>t, <3>2 DEF vars, ResolverOK
    <3> QED BY <1>1, <3>1, <3>2
  <2>2. Grows
    BY <1>t, <2>1, StillGrows DEF ResolverOK
  <2>3. PageOK' /\ selected' = selected
    BY <2>1, <2>2, PageStays DEF pageVars
  <2> QED BY <1>t, <2>1, <2>2, <2>3, NobodyMoves
<1>2. CASE LoginOperator
  <2>1. /\ UNCHANGED <<serverVars, pageVars, buttons, tasks, clicks, faults>> /\ session' \in BOOLEAN
        /\ login' = [u \in Tasks |-> IF login[u] = "waiting" THEN "repeated" ELSE login[u]]
    BY <1>2 DEF LoginOperator
  <2>2. Grows
    BY <1>t, <2>1, StillGrows DEF ResolverOK
  <2>3. PageOK' /\ selected' = selected
    BY <2>1, <2>2, PageStays DEF pageVars
  <2>4. /\ login' \in [Tasks -> {"no", "waiting", "repeated"}]
        /\ \A u \in Tasks : tasks[u].at \in {"idle", "answered"} => login'[u] = login[u]
    BY <1>t, <2>1 DEF TaskOK
  <2> QED BY <1>t, <2>1, <2>2, <2>3, <2>4, NobodyMoves
<1>3. CASE ToggleRecurringApproval
  <2>1. /\ UNCHANGED <<serverVars, session, selected, listed, hooked, target, tasks, login, faults>>
        /\ clicks' \in 0 .. MaxClicks /\ approval' \in Recurring \cup {None}
        /\ buttons' = Gated(buttons, selected, approval')
    BY <1>3, <1>t, WorkspaceAssumption DEF ToggleRecurringApproval, ResolverOK
  <2>2. Grows
    BY <1>t, <2>1, StillGrows DEF ResolverOK
  <2>3. PageOK'
    BY <1>t, <2>1, <2>2, ListStays DEF PageOK, serverVars
  <2>4. buttons' \in ButtonSet
    BY <1>t, <2>1, ButtonTypes
  <2> QED BY <1>t, <2>1, <2>2, <2>3, <2>4, NobodyMoves
<1>4. CASE RequestWebhookDelete \/ LeaveDialog
  <2>1. /\ UNCHANGED <<serverVars, session, selected, listed, hooked, approval, buttons, tasks,
                       login, clicks, faults>>
        /\ target' \in exists \cup {None}
    BY <1>4, <1>t DEF RequestWebhookDelete, LeaveDialog, PageOK
  <2>2. Grows
    BY <1>t, <2>1, StillGrows DEF ResolverOK
  <2>3. PageOK'
    BY <1>t, <2>1, <2>2, ListStays DEF PageOK, serverVars
  <2> QED BY <1>t, <2>1, <2>2, <2>3, NobodyMoves
<1> QED BY <1>1, <1>2, <1>3, <1>4

LEMMA UnauthorizedTypes ==
  ASSUME TypeInv, IInv', NEW t \in Tasks, Unauthorized(t)
  PROVE  TypeInv'
<1>t. /\ ResolverOK /\ buttons \in ButtonSet
      /\ login \in [Tasks -> {"no", "waiting", "repeated"}]
  BY DEF TypeInv
<1>1. UNCHANGED <<serverVars, session, pageVars, clicks, faults>>
  BY DEF Unauthorized
<1>2. Grows
  BY <1>1, <1>t, StillGrows DEF ResolverOK
<1>3. CASE login' = [login EXCEPT ![t] = "waiting"] /\ UNCHANGED <<tasks, buttons>>
  <2>1. PageOK' /\ selected' = selected
    BY <1>1, <1>2, PageStays DEF pageVars
  <2>2. tasks[t].at \in {"calling", "refreshing"}
    BY DEF Unauthorized
  <2> QED BY <1>2, <1>3, <1>t, <2>1, <2>2, NobodyMoves
<1>4. CASE Fails(t)
  BY <1>1, <1>2, <1>4, FailsTypes
<1> QED BY <1>3, <1>4 DEF Unauthorized

LEMMA PollTypes ==
  ASSUME TypeInv, IInv', PollActivity
  PROVE  TypeInv'
<1>1. /\ tasks' = [tasks EXCEPT !["poll"] = Refreshing(LivePoll, selected)]
      /\ tasks["poll"].at = "idle" /\ selected # None
      /\ UNCHANGED <<serverVars, session, pageVars, buttons, login, clicks, faults>>
  BY DEF PollActivity
<1>2. /\ ResolverOK /\ PageOK /\ buttons \in ButtonSet /\ DOMAIN tasks = Tasks
      /\ login \in [Tasks -> {"no", "waiting", "repeated"}]
      /\ "poll" \in Tasks /\ TaskOK("poll")
  BY DEF TypeInv, IInv, Tasks
<1>3. Grows
  BY <1>1, <1>2, StillGrows DEF ResolverOK
<1>4. PageOK' /\ selected' = selected /\ selected \in exists'
  BY <1>1, <1>2, <1>3, PageStays DEF pageVars, PageOK, serverVars
<1>5. tasks'["poll"] = Refreshing(LivePoll, selected)
  BY <1>1, <1>2
<1>6. TaskOK("poll")'
  BY <1>2, <1>4, <1>5, RefreshingTask
<1>7. login' = [login EXCEPT !["poll"] = login["poll"]] /\ login["poll"] \in {"no", "waiting", "repeated"}
  BY <1>1, <1>2
<1> QED BY <1>1, <1>2, <1>3, <1>4, <1>6, <1>7, OneMoves

LEMMA TypeInvHolds == SafetySpec => []TypeInv
<1>1. Init => TypeInv
  <2> SUFFICES ASSUME Init PROVE TypeInv
    OBVIOUS
  <2>1. ResolverOK /\ \A o \in exists : o \in Offers
    <3>1. <<"created">> \in Seq(Status) /\ << >> \in Seq(Status)
      BY DEF Status
    <3> QED BY <3>1, WorkspaceAssumption DEF Init, ResolverOK, HookStates
  <2>2. PageOK
    BY DEF Init, PageOK, ListOK, Hooked, HookStates
  <2>3. Fresh \in ButtonSet /\ Busied(Fresh) \in ButtonSet
    BY DEF Fresh, Busied, ButtonSet
  <2>4. login = [t \in Tasks |-> "no"] /\ buttons \in ButtonSet
    BY <2>3 DEF Init
  <2>5. ASSUME NEW t \in Tasks, tasks[t] = Idle PROVE TaskOK(t)
    <3> DEFINE k == Idle
    <3>1. /\ DOMAIN k = {"h", "at", "offer", "names", "got"} /\ k.h = LivePoll /\ k.at = "idle"
          /\ k.offer = None /\ k.got = NoLists
      BY IdleFields
    <3> HIDE DEF k
    <3>2. tasks[t] = k /\ k = Idle
      BY <2>5 DEF k
    <3> QED BY <2>4, <3>1, <3>2 DEF TaskOK
  <2>6. ASSUME NEW o \in exists, NEW t \in Tasks, tasks[t] = Calling(LoadOffer, o, Nothing)
        PROVE  TaskOK(t)
    <3> DEFINE k == Calling(LoadOffer, o, Nothing)
    <3>1. /\ DOMAIN k = {"h", "at", "offer", "names", "got"} /\ k.h = LoadOffer /\ k.at = "calling"
          /\ k.offer = o /\ k.names = Nothing /\ k.got = NoLists
      BY CallingFields
    <3>2. LoadOffer \in Handlers /\ LoadOffer.call = "select"
      BY DEF Handlers, LoadOffer, Handler
    <3>3. tasks[t] = k
      BY <2>6 DEF k
    <3> HIDE DEF k
    <3> QED BY <2>4, <3>1, <3>2, <3>3 DEF TaskOK
  <2>7. \A t \in Tasks : TaskOK(t)
    BY <2>5, <2>6 DEF Init
  <2> QED BY <2>1, <2>2, <2>4, <2>7, WorkspaceInit DEF TypeInv
<1>2. TypeInv /\ [Next]_vars => TypeInv'
  <2> SUFFICES ASSUME TypeInv, [Next]_vars PROVE TypeInv'
    OBVIOUS
  <2>1. IInv'
    BY WorkspaceNext DEF TypeInv
  <2>2. ASSUME NEW t \in Tasks, TaskStep(t) PROVE TypeInv'
    BY <2>1, <2>2, CallTypes, AnswerTypes, RefreshTypes, UnauthorizedTypes DEF TaskStep
  <2> QED BY <2>1, <2>2, ClickTypes, FailureTypes, PollTypes, OtherTypes DEF Next
<1> QED BY <1>1, <1>2, PTL DEF SafetySpec

\* Types: whatever is listed, named or awaited is an invoice or a webhook of an
\* offer that the resolver has, and who is idle waits for nothing.
THEOREM WorkspaceTypeCorrect == SafetySpec => []TypeOK
BY TypeInvHolds, TypeInvTypes, PTL

-----------------------------------------------------------------------------
(* The buttons, as long as one handler at most is under way. *)

OneAtMost == \E t \in Users : tasks[t].at = "idle"
Busy == \E t \in Users : tasks[t].at # "idle"

\* A plain button is busy as long as a handler is, and remembers that it was
\* enabled.
PlainOK ==
  buttons["plain"] = IF Busy THEN [disabled |-> TRUE, before |-> "enabled"]
                     ELSE [disabled |-> FALSE, before |-> "unset"]

\* What the page does to a plain button.
LEMMA PlainButtons ==
  ASSUME NEW bs \in ButtonSet, NEW o, NEW approved
  PROVE  /\ Gated(bs, o, approved)["plain"] = bs["plain"] /\ Redrawn(bs)["plain"] = bs["plain"]
         /\ ~bs["plain"].disabled => Busied(bs)["plain"] = [disabled |-> TRUE, before |-> "enabled"]
         /\ bs["plain"].before = "enabled" => Freed(bs)["plain"] = [disabled |-> FALSE, before |-> "unset"]
BY DEF ButtonSet, Gated, Redrawn, Busied, Freed, Buttons

\* A step that starts and ends no handler.
LEMMA PlainStays ==
  ASSUME PlainOK, \A t \in Users : tasks'[t].at = "idle" <=> tasks[t].at = "idle",
         buttons'["plain"] = buttons["plain"]
  PROVE  PlainOK'
BY DEF PlainOK, Busy

\* The only handler ends.
LEMMA PlainFreed ==
  ASSUME TypeInv, PlainOK, OneAtMost, NEW t \in Tasks, tasks[t].at # "idle",
         tasks' = [tasks EXCEPT ![t] = Idle], NEW bs \in ButtonSet, bs["plain"] = buttons["plain"],
         buttons' = IF t \in Users THEN Freed(bs) ELSE bs
  PROVE  PlainOK'
<1>1. DOMAIN tasks = Tasks /\ Idle.at = "idle"
  BY IdleFields DEF TypeInv, IInv
<1>2. CASE t \in Users
  <2>1. Busy
    BY <1>2 DEF Busy
  <2>2. bs["plain"].before = "enabled"
    BY <2>1 DEF PlainOK
  <2>3. buttons'["plain"] = [disabled |-> FALSE, before |-> "unset"]
    BY <1>2, <2>2, PlainButtons
  <2>4. ~Busy'
    BY <1>1, <1>2 DEF Busy, OneAtMost, Users, Tasks
  <2> QED BY <2>3, <2>4 DEF PlainOK
<1>3. CASE t \notin Users
  <2>1. \A u \in Users : tasks'[u] = tasks[u]
    BY <1>1, <1>3 DEF Tasks
  <2> QED BY <1>3, <2>1, PlainStays
<1> QED BY <1>2, <1>3

LEMMA PlainFails ==
  ASSUME TypeInv, PlainOK, OneAtMost, NEW t \in Tasks, tasks[t].at # "idle", Fails(t)
  PROVE  PlainOK'
BY PlainFreed DEF Fails, TypeInv

\* A handler goes on to its refresh, or ends.
LEMMA PlainGoesOn ==
  ASSUME TypeInv, PlainOK, OneAtMost, NEW t \in Tasks, tasks[t].at # "idle",
         NEW refreshes, NEW o, NEW bs \in ButtonSet, bs["plain"] = buttons["plain"],
         GoOn(t, refreshes, o, bs)
  PROVE  PlainOK'
<1>1. CASE refreshes
  <2>1. tasks' = [tasks EXCEPT ![t] = Refreshing(tasks[t].h, o)] /\ buttons' = bs
    BY <1>1 DEF GoOn
  <2>2. Refreshing(tasks[t].h, o).at # "idle" /\ DOMAIN tasks = Tasks
    BY RefreshingFields DEF TypeInv, IInv
  <2>3. \A u \in Users : tasks'[u].at = "idle" <=> tasks[u].at = "idle"
    BY <2>1, <2>2 DEF Tasks
  <2> QED BY <2>1, <2>3, PlainStays
<1>2. CASE ~refreshes
  BY <1>2, PlainFreed DEF GoOn
<1> QED BY <1>1, <1>2

LEMMA PlainClick ==
  ASSUME TypeInv, PlainOK, OneAtMost', NEW h \in Handlers, Click(h)
  PROVE  PlainOK'
<1>1. PICK t \in FreeUser, o \in (IF h.call = "select" THEN exists ELSE {selected}) :
        tasks' = [tasks EXCEPT ![t] = IF h.call = "none" THEN Refreshing(h, o)
                                      ELSE Calling(h, o, Named(h))]
  BY DEF Click
<1>2. t \in Users /\ tasks[t].at = "idle" /\ DOMAIN tasks = Tasks
  BY DEF FreeUser, TypeInv, IInv
<1>3. Refreshing(h, o).at # "idle" /\ Calling(h, o, Named(h)).at # "idle"
  BY RefreshingFields, CallingFields
<1>4. tasks'[t].at # "idle" /\ \A u \in Users \ {t} : tasks'[u] = tasks[u]
  BY <1>1, <1>2, <1>3 DEF Tasks
<1>5. ~Busy /\ Busy'
  BY <1>2, <1>4 DEF Busy, OneAtMost, Users
<1>6. buttons["plain"].disabled = FALSE
  BY <1>5 DEF PlainOK
<1>7. buttons' = Busied(buttons) /\ buttons \in ButtonSet
  BY DEF Click, TypeInv
<1>8. buttons'["plain"] = [disabled |-> TRUE, before |-> "enabled"]
  BY <1>6, <1>7, PlainButtons
<1> QED BY <1>5, <1>8 DEF PlainOK

LEMMA PlainTask ==
  ASSUME TypeInv, PlainOK, OneAtMost, NEW t \in Tasks, TaskStep(t) \/ RequestFails(t)
  PROVE  PlainOK'
<1>t. TaskOK(t) /\ buttons \in ButtonSet /\ DOMAIN tasks = Tasks
  BY DEF TypeInv, IInv
<1>f. ASSUME tasks[t].at # "idle", Fails(t) PROVE PlainOK'
  BY <1>f, PlainFails
<1>1. CASE Call(t)
  <2> DEFINE bs == IF tasks[t].h.call = "create" THEN Gated(buttons, selected', None) ELSE buttons
  <2>1. bs \in ButtonSet /\ bs["plain"] = buttons["plain"]
    BY <1>t, ButtonTypes, PlainButtons
  <2>2. tasks[t].at # "idle"
    BY <1>1 DEF Call
  <2>3. ASSUME GoOn(t, tasks[t].h.refreshes, selected', bs) PROVE PlainOK'
    <3> HIDE DEF bs
    <3> QED BY <2>1, <2>2, <2>3, PlainGoesOn
  <2> QED BY <1>1, <1>f, <2>2, <2>3 DEF Call
<1>2. CASE Answer(t)
  <2>1. /\ tasks[t].at = "refreshing" /\ buttons' = buttons
        /\ \E g : tasks' = [tasks EXCEPT ![t] = [[tasks[t] EXCEPT !.at = "answered"] EXCEPT !.got = g]]
    BY <1>2, <1>t DEF Answer
  <2>2. tasks'[t].at = "answered" /\ \A u \in Tasks \ {t} : tasks'[u] = tasks[u]
    BY <1>t, <2>1 DEF TaskOK
  <2>3. \A u \in Users : tasks'[u].at = "idle" <=> tasks[u].at = "idle"
    BY <2>1, <2>2 DEF Tasks
  <2> QED BY <2>1, <2>3, PlainStays
<1>3. CASE Refresh(t)
  <2> DEFINE approved == IF selected \in Recurring THEN approval ELSE None
             bs == IF tasks[t].h.call = "select" THEN Gated(Redrawn(buttons), selected, approved)
                   ELSE Redrawn(buttons)
  <2>1. bs \in ButtonSet /\ bs["plain"] = buttons["plain"]
    <3>1. Redrawn(buttons) \in ButtonSet /\ Redrawn(buttons)["plain"] = buttons["plain"]
      BY <1>t, ButtonTypes, PlainButtons
    <3> QED BY <3>1, ButtonTypes, PlainButtons
  <2>2. tasks[t].at # "idle" /\ GoOn(t, FALSE, tasks[t].offer, bs)
    BY <1>3 DEF Refresh
  <2> HIDE DEF bs
  <2> QED BY <2>1, <2>2, PlainGoesOn
<1>4. CASE Unauthorized(t)
  <2>1. tasks[t].at # "idle"
    BY <1>4 DEF Unauthorized
  <2> QED BY <1>4, <1>f, <2>1, PlainStays DEF Unauthorized
<1>5. CASE RequestFails(t)
  BY <1>5, <1>f DEF RequestFails
<1> QED BY <1>1, <1>2, <1>3, <1>4, <1>5 DEF TaskStep

LEMMA PlainOthers ==
  ASSUME TypeInv, PlainOK,
         \/ SessionEnds \/ LoginOperator \/ PollActivity \/ ToggleRecurringApproval
         \/ RequestWebhookDelete \/ LeaveDialog \/ UNCHANGED vars
  PROVE  PlainOK'
<1>1. buttons'["plain"] = buttons["plain"]
  BY PlainButtons DEF TypeInv, SessionEnds, LoginOperator, PollActivity, ToggleRecurringApproval,
     RequestWebhookDelete, LeaveDialog, vars
<1>2. \A u \in Users : tasks'[u] = tasks[u]
  BY DEF TypeInv, IInv, Tasks, Users, SessionEnds, LoginOperator, PollActivity,
     ToggleRecurringApproval, RequestWebhookDelete, LeaveDialog, vars
<1> QED BY <1>1, <1>2, PlainStays

\* As long as no two handlers are under way at once, whatever requests end with
\* and however often the page draws buttons anew meanwhile: the plain buttons
\* are disabled exactly while a handler is under way.  This is what
\* ButtonsComeBack says but for every handler ending.
THEOREM ButtonsFollowHandlers ==
  SafetySpec /\ [](\E t \in Users : tasks[t].at = "idle")
    => [](buttons["plain"].disabled <=> \E t \in Users : tasks[t].at # "idle")
<1>1. Init => PlainOK
  <2> SUFFICES ASSUME Init PROVE PlainOK
    OBVIOUS
  <2>1. CASE tasks = [t \in Tasks |-> Idle] /\ buttons = Fresh
    BY <2>1, IdleFields DEF PlainOK, Busy, Tasks, Fresh, Buttons
  <2>2. ASSUME NEW o \in exists, buttons = Busied(Fresh),
               tasks = [t \in Tasks |-> IF t = "one" THEN Calling(LoadOffer, o, Nothing) ELSE Idle]
        PROVE  PlainOK
    <3>1. tasks["one"].at # "idle"
      BY <2>2, CallingFields DEF Tasks, Users
    <3>2. buttons["plain"] = [disabled |-> TRUE, before |-> "enabled"]
      BY <2>2 DEF Busied, Fresh, Buttons
    <3> QED BY <3>1, <3>2 DEF PlainOK, Busy, Users
  <2> QED BY <2>1, <2>2 DEF Init
<1>2. TypeInv /\ PlainOK /\ OneAtMost /\ OneAtMost' /\ [Next]_vars => PlainOK'
  BY PlainClick, PlainTask, PlainOthers DEF Next
<1>3. PlainOK => (buttons["plain"].disabled <=> Busy)
  BY DEF PlainOK
<1> QED BY <1>1, <1>2, <1>3, TypeInvHolds, PTL DEF SafetySpec, OneAtMost, Busy
=============================================================================
