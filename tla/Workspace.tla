------------------------------- MODULE Workspace -------------------------------
(***************************************************************************)
(* The operator's page (apps/demo/public/app.js): one page on one resolver.*)
(*                                                                         *)
(* The page selects an offer and shows its invoices and its webhook; every *)
(* two seconds it asks for both again, and every button runs a handler that*)
(* disables all buttons, calls the resolver, refreshes what is shown and   *)
(* enables the buttons.  All handlers and the poll share one state; what   *)
(* they asked for under one offer may arrive when another one is selected, *)
(* and the lists of offers and of webhooks are drawn anew, with enabled    *)
(* buttons, while a handler is under way.  When the session has ended,     *)
(* every request waits for the same login dialog and is then made once     *)
(* more.                                                                   *)
(*                                                                         *)
(* A click is one of MaxClicks.  Left out: the forms, amounts, texts and   *)
(* dialogs but those of the login and of a deletion, the webhook events,   *)
(* the inventory and the diagnostics (whose failures are caught and whose  *)
(* replies show nothing of an offer) and the public payment page.          *)
(***************************************************************************)
EXTENDS Integers, Sequences, FiniteSets

CONSTANTS
  Offers,       \* offers that exist or may be created
  Recurring,    \* the offers with a recurrence
  None,         \* no offer
  MaxInvoices,  \* bound on the invoices of an offer
  MaxClicks,    \* bound on handlers started
  MaxFaults     \* bound on failed requests and ended sessions

ASSUME WorkspaceAssumption ==
  /\ Recurring \subseteq Offers /\ None \notin Offers
  /\ MaxInvoices \in Nat /\ MaxClicks \in Nat /\ MaxFaults \in Nat

VARIABLES
  \* the resolver
  ledger,    \* offer -> statuses of its invoices, by their ids
  hook,      \* offer -> its webhook
  exists,    \* offers created so far
  session,   \* the operator's session is valid
  \* the page
  selected,  \* state.offerResponse
  listed,    \* state.resolutions, the latest first
  hooked,    \* the webhook that renderWebhookSubscriptions drew
  target,    \* the offer whose webhook the open dialog is to delete
  approval,  \* state.recurringApproval
  buttons,   \* class of buttons -> is it disabled, and was it before it was busy
  tasks,     \* handler or poll under way -> what it does
  login,     \* task -> it waits for the login, or repeats its request after it
  clicks, faults

serverVars == <<ledger, hook, exists>>
pageVars == <<selected, listed, hooked, target, approval>>
vars == <<serverVars, session, pageVars, buttons, tasks, login, clicks, faults>>

Users == {"one", "other"}       \* handlers under way
Tasks == Users \cup {"poll"}
HookStates == {"none", "active", "paused"}

\* buttons drawn with the page, the one that requests an invoice, and those
\* that renderWebhookSubscriptions draws
Buttons == {"plain", "request", "webhook"}

Entry(o, i, s) == [offer |-> o, id |-> i, status |-> s]
Hooked(o, h) == [offer |-> o, is |-> h]

-----------------------------------------------------------------------------
(* The handlers: the button, what the request does, and whether the page is*)
(* refreshed after it.                                                     *)

Handler(button, call, refreshes) == [button |-> button, call |-> call, refreshes |-> refreshes]

LoadOffer == Handler("row", "select", TRUE)
ResolveAddress == Handler("plain", "select", TRUE)
CreateOffer == Handler("plain", "create", FALSE)
RequestInvoice == Handler("request", "invoice", TRUE)
CheckReadiness == Handler("plain", "ask", FALSE)
MarkLatestPaid == Handler("plain", "mark_paid", TRUE)
RefreshStatus == Handler("plain", "none", TRUE)
RefreshOperatorConsole == Handler("plain", "none", TRUE)
RegisterWebhook == Handler("plain", "register", TRUE)
TestWebhook == Handler("webhook", "name_webhook", TRUE)
RotateWebhookSecret == Handler("webhook", "name_webhook", TRUE)
ToggleWebhook == Handler("webhook", "toggle", TRUE)
DeleteSelectedWebhook == Handler("plain", "delete", TRUE)
DeliverWebhookEvents == Handler("plain", "ask", TRUE)
RetryCurrentOfferWebhooks == Handler("plain", "ask", TRUE)
SyncCurrentOffer == Handler("plain", "sync", TRUE)

Handlers ==
  {LoadOffer, ResolveAddress, CreateOffer, RequestInvoice, CheckReadiness, MarkLatestPaid,
   RefreshStatus, RefreshOperatorConsole, RegisterWebhook, TestWebhook, RotateWebhookSecret,
   ToggleWebhook, DeleteSelectedWebhook, DeliverWebhookEvents, RetryCurrentOfferWebhooks,
   SyncCurrentOffer}

\* the interval of startLiveActivityPolling
LivePoll == Handler("plain", "none", TRUE)

NoLists == [resolutions |-> << >>, webhooks |-> "none"]
Nothing == Entry(None, 0, "none")
Idle == [h |-> LivePoll, at |-> "idle", offer |-> None, names |-> Nothing, got |-> NoLists]

Calling(h, o, names) ==
  [Idle EXCEPT !.h = h, !.at = "calling", !.offer = o, !.names = names]

\* The next step of a handler is a refresh of offer o.
Refreshing(h, o) ==
  [Idle EXCEPT !.h = IF h.call = "select" THEN h ELSE LivePoll, !.at = "refreshing", !.offer = o]

-----------------------------------------------------------------------------
(* Buttons. *)

Fresh == [b \in Buttons |-> [disabled |-> FALSE, before |-> "unset"]]

\* setBusy(true): a button that is disabled already is remembered so
Busied(bs) ==
  [b \in Buttons |-> [disabled |-> TRUE,
                      before |-> IF bs[b].disabled THEN "disabled" ELSE "enabled"]]

\* setBusy(false)
Freed(bs) ==
  [b \in Buttons |->
     IF bs[b].before = "unset" THEN bs[b]
     ELSE [disabled |-> bs[b].before = "disabled", before |-> "unset"]]

\* renderRecurrenceApproval, with the approval as it will be
Gated(bs, o, approved) ==
  [bs EXCEPT !["request"].disabled = o \in Recurring /\ approved # o]

\* renderWebhookSubscriptions draws new buttons
Redrawn(bs) == [bs EXCEPT !["webhook"] = [disabled |-> FALSE, before |-> "unset"]]

-----------------------------------------------------------------------------
TypeOK ==
  /\ ledger \in [Offers -> Seq({"created", "paid"})]
  /\ hook \in [Offers -> HookStates]
  /\ exists \subseteq Offers
  /\ session \in BOOLEAN
  /\ selected \in exists \cup {None}
  /\ \A i \in DOMAIN listed : listed[i].offer \in exists /\ listed[i].id <= Len(ledger[listed[i].offer])
  /\ hooked \in [offer : exists \cup {None}, is : HookStates]
  /\ target \in exists \cup {None}
  /\ approval \in Recurring \cup {None}
  /\ buttons \in [Buttons -> [disabled : BOOLEAN, before : {"unset", "enabled", "disabled"}]]
  /\ \A t \in Tasks :
       /\ tasks[t].h \in Handlers \cup {LivePoll}
       /\ tasks[t].at \in {"idle", "calling", "refreshing", "answered"}
       /\ tasks[t].at = "idle" => tasks[t] = Idle /\ login[t] = "no"
       /\ tasks[t].offer \in exists \cup {None}
       /\ tasks[t].at # "answered" => tasks[t].got = NoLists
  /\ login \in [Tasks -> {"no", "waiting", "repeated"}]
  /\ clicks \in 0 .. MaxClicks /\ faults \in 0 .. MaxFaults

\* The page opens, on an offer of its link or on none.
Init ==
  /\ exists \in SUBSET Offers
  /\ ledger = [o \in Offers |-> IF o \in exists THEN <<"created">> ELSE << >>]
  /\ hook = [o \in Offers |-> IF o \in exists THEN "active" ELSE "none"]
  /\ session = TRUE
  /\ selected = None /\ listed = << >> /\ hooked = Hooked(None, "none")
  /\ target = None /\ approval = None
  /\ \/ /\ tasks = [t \in Tasks |-> Idle]
        /\ buttons = Fresh
     \/ \E o \in exists :
          /\ tasks = [t \in Tasks |-> IF t = "one" THEN Calling(LoadOffer, o, Nothing) ELSE Idle]
          /\ buttons = Busied(Fresh)
  /\ login = [t \in Tasks |-> "no"]
  /\ clicks = 0 /\ faults = 0

-----------------------------------------------------------------------------
(* A task goes on. *)

\* to the refresh of the offer selected by then, or to the end of its handler;
\* the buttons come along as bs
GoOn(t, refreshes, o, bs) ==
  /\ tasks' = [tasks EXCEPT ![t] = IF refreshes THEN Refreshing(tasks[t].h, o) ELSE Idle]
  /\ buttons' = IF ~refreshes /\ t \in Users THEN Freed(bs) ELSE bs

\* Mutant of Fails: the handler has no finally.
FailsBusy(t) ==
  /\ tasks' = [tasks EXCEPT ![t] = Idle]
  /\ login' = [login EXCEPT ![t] = "no"]
  /\ UNCHANGED buttons

\* Mutant of Fails: that a request was repeated outlives its handler.
FailsStillRepeated(t) ==
  /\ tasks' = [tasks EXCEPT ![t] = Idle]
  /\ login' = login
  /\ buttons' = IF t \in Users THEN Freed(buttons) ELSE buttons

\* a request rejects: a handler tells the operator, the poll says nothing
Fails(t) ==
  /\ tasks' = [tasks EXCEPT ![t] = Idle]
  /\ login' = [login EXCEPT ![t] = "no"]
  /\ buttons' = IF t \in Users THEN Freed(buttons) ELSE buttons

\* the names of the tasks mean nothing
FreeUser ==
  LET free == {t \in Users : tasks[t].at = "idle"}
  IN IF "one" \in free THEN {"one"} ELSE free

DialogOpen == \E t \in Tasks : login[t] = "waiting"

\* api answers, unless the session has ended
Answered(t) == session /\ login[t] # "waiting"

\* what the request of a handler names besides its offer: the record on top,
\* the cycle after those listed, the webhook shown
Named(h) ==
  CASE h.call = "mark_paid" -> Head(listed)
    [] h.call = "invoice" ->
         Entry(selected, Cardinality({i \in DOMAIN listed : listed[i].offer \in Recurring}) + 1, "none")
    [] h.button = "webhook" -> Entry(hooked.offer, 0, hooked.is)
    [] h.call = "delete" -> Entry(target, 0, "none")
    [] OTHER -> Nothing

\* Typing in the search field draws the rows of renderOfferDirectory anew, so
\* they can be pressed while the page is busy.
Pressable(b) == ~DialogOpen /\ (b # "row" => ~buttons[b].disabled)

\* The operator presses the button of a handler; the dialog of a deletion
\* bars all others.
Click(h) ==
  /\ clicks < MaxClicks /\ clicks' = clicks + 1
  /\ Pressable(h.button) /\ (target = None) = (h.call # "delete")
  /\ h.call \notin {"select", "create"} => selected # None
  /\ h.call = "mark_paid" => listed # << >>
  /\ h.button = "webhook" => hooked.is # "none" /\ (h = TestWebhook => hooked.is = "active")
  /\ \E t \in FreeUser, o \in (IF h.call = "select" THEN exists ELSE {selected}) :
       tasks' = [tasks EXCEPT ![t] =
         IF h.call = "none" THEN Refreshing(h, o)
         ELSE Calling(h, o, Named(h))]
  /\ buttons' = Busied(buttons)
  /\ UNCHANGED <<serverVars, session, pageVars, login, faults>>

\* Mutant of Names: a record is looked up by its id alone.
NamesById(t) ==
  LET n == tasks[t].names
  IN CASE tasks[t].h.call = "mark_paid" -> n.id \in DOMAIN ledger[tasks[t].offer]
       [] tasks[t].h.call = "invoice" ->
            tasks[t].offer \in Recurring => n.id = Len(ledger[tasks[t].offer]) + 1
       [] tasks[t].h.button = "webhook" \/ tasks[t].h.call = "delete" -> hook[n.offer] # "none"
       [] OTHER -> TRUE

\* the resolver knows what the request names: an invoice or a webhook of the
\* offer in its path, the next cycle of a recurring offer
Names(t) ==
  LET n == tasks[t].names
  IN CASE tasks[t].h.call = "mark_paid" -> n.offer = tasks[t].offer
       [] tasks[t].h.call = "invoice" ->
            tasks[t].offer \in Recurring => n.id = Len(ledger[tasks[t].offer]) + 1
       [] tasks[t].h.button = "webhook" \/ tasks[t].h.call = "delete" ->
            n.offer = tasks[t].offer /\ hook[n.offer] # "none"
       [] OTHER -> TRUE

\* the bounds on offers and invoices: the resolver refuses
Full(t) ==
  \/ tasks[t].h.call = "create" /\ exists = Offers
  \/ tasks[t].h.call = "invoice" /\ Len(ledger[tasks[t].offer]) = MaxInvoices

\* what the resolver does
Serves(t) ==
  LET c == tasks[t].h.call
      o == tasks[t].offer
      n == tasks[t].names
  IN CASE c = "create" -> /\ \E new \in Offers \ exists : exists' = exists \cup {new}
                          /\ UNCHANGED <<ledger, hook>>
       [] c = "invoice" -> /\ Len(ledger[o]) < MaxInvoices
                           /\ ledger' = [ledger EXCEPT ![o] = Append(@, "created")]
                           /\ UNCHANGED <<hook, exists>>
       [] c = "mark_paid" -> ledger' = [ledger EXCEPT ![o][n.id] = "paid"] /\ UNCHANGED <<hook, exists>>
       [] c = "sync" -> /\ \E paid \in SUBSET DOMAIN ledger[o] :
                             ledger' = [ledger EXCEPT ![o] =
                                          [i \in DOMAIN @ |-> IF i \in paid THEN "paid" ELSE @[i]]]
                        /\ UNCHANGED <<hook, exists>>
       [] c = "register" -> hook' = [hook EXCEPT ![o] = "active"] /\ UNCHANGED <<ledger, exists>>
       [] c = "toggle" -> /\ hook' = [hook EXCEPT ![o] = IF n.status = "active" THEN "paused" ELSE "active"]
                          /\ UNCHANGED <<ledger, exists>>
       [] c = "delete" -> hook' = [hook EXCEPT ![o] = "none"] /\ UNCHANGED <<ledger, exists>>
       [] OTHER -> UNCHANGED serverVars

\* what the handler does with the reply, before the next request
Takes(t) ==
  LET c == tasks[t].h.call
      o == tasks[t].offer
      n == tasks[t].names
      KeepOthers == UNCHANGED <<hooked, target, approval>>
  IN CASE c = "select" -> selected' = o /\ UNCHANGED listed /\ KeepOthers
       [] c = "create" -> /\ selected' \in exists' \ exists
                          /\ listed' = << >> /\ approval' = None
                          /\ UNCHANGED <<hooked, target>>
       [] c = "invoice" -> /\ listed' = <<Entry(o, Len(ledger'[o]), "created")>> \o listed
                           /\ UNCHANGED selected /\ KeepOthers
       [] c = "mark_paid" -> /\ listed' = <<Entry(o, n.id, "paid")>>
                                         \o (IF listed = << >> THEN << >> ELSE Tail(listed))
                             /\ UNCHANGED selected /\ KeepOthers
       [] c = "delete" -> target' = None /\ UNCHANGED <<selected, listed, hooked, approval>>
       [] OTHER -> UNCHANGED pageVars

\* The request of a handler is answered.
Call(t) ==
  /\ tasks[t].at = "calling" /\ Answered(t)
  /\ UNCHANGED <<session, clicks, faults>>
  /\ \/ /\ Names(t) /\ Serves(t) /\ Takes(t)
        /\ login' = [login EXCEPT ![t] = "no"]
        /\ GoOn(t, tasks[t].h.refreshes, selected',
                IF tasks[t].h.call = "create" THEN Gated(buttons, selected', None) ELSE buttons)
     \/ /\ ~Names(t) \/ Full(t)
        /\ Fails(t) /\ UNCHANGED <<serverVars, pageVars>>

\* The requests of refreshOperatorData are answered; the replies are on their
\* way while others go on.
Answer(t) ==
  /\ tasks[t].at = "refreshing" /\ Answered(t)
  /\ tasks' = [tasks EXCEPT ![t].at = "answered",
                           ![t].got = [resolutions |-> ledger[tasks[t].offer],
                                         webhooks |-> hook[tasks[t].offer]]]
  /\ login' = [login EXCEPT ![t] = "no"]
  /\ UNCHANGED <<serverVars, session, pageVars, buttons, clicks, faults>>

\* refreshOperatorData shows what it asked for, whatever is selected now.
\* loadOffer and resolveAddress then render the selected offer, the gate of a
\* recurring one included.
Refresh(t) ==
  /\ tasks[t].at = "answered"
  /\ LET o == tasks[t].offer
         all == tasks[t].got.resolutions
         approved == IF selected \in Recurring THEN approval ELSE None
         selects == tasks[t].h.call = "select"
     IN /\ listed' = [i \in DOMAIN all |->
                        Entry(o, Len(all) + 1 - i, all[Len(all) + 1 - i])]
        /\ hooked' = Hooked(o, tasks[t].got.webhooks)
        /\ approval' = IF selects THEN approved ELSE approval
        /\ GoOn(t, FALSE, o,
                IF selects THEN Gated(Redrawn(buttons), selected, approved) ELSE Redrawn(buttons))
  /\ UNCHANGED <<serverVars, session, selected, target, login, clicks, faults>>

\* A request fails, or its reply is lost.
RequestFails(t) ==
  /\ tasks[t].at \in {"calling", "refreshing"} /\ login[t] # "waiting"
  /\ faults < MaxFaults /\ faults' = faults + 1
  /\ Fails(t)
  /\ \/ UNCHANGED serverVars
     \/ tasks[t].at = "calling" /\ Names(t) /\ Serves(t)
  /\ UNCHANGED <<session, pageVars, clicks>>

-----------------------------------------------------------------------------
(* The session and the poll. *)

SessionEnds ==
  /\ session /\ session' = FALSE
  /\ faults < MaxFaults /\ faults' = faults + 1
  /\ UNCHANGED <<serverVars, pageVars, buttons, tasks, login, clicks>>

\* 401: the first time a request waits for the login, the second time it fails
Unauthorized(t) ==
  /\ ~session /\ tasks[t].at \in {"calling", "refreshing"}
  /\ \/ /\ login[t] = "no" /\ login' = [login EXCEPT ![t] = "waiting"]
        /\ UNCHANGED <<tasks, buttons>>
     \/ login[t] = "repeated" /\ Fails(t)
  /\ UNCHANGED <<serverVars, session, pageVars, clicks, faults>>

\* The operator logs in, with the button of the dialog, and all that wait are
\* released.  setBusy disables that button too.
LoginOperator ==
  /\ DialogOpen /\ ~buttons["plain"].disabled
  /\ session' = TRUE
  /\ login' = [t \in Tasks |-> IF login[t] = "waiting" THEN "repeated" ELSE login[t]]
  /\ UNCHANGED <<serverVars, pageVars, buttons, tasks, clicks, faults>>

\* Mutant of PollActivity: it asks for the offer whose records are shown.
PollShown ==
  /\ tasks["poll"].at = "idle" /\ selected # None
  /\ tasks' = [tasks EXCEPT !["poll"] =
       Refreshing(LivePoll, IF listed = << >> THEN selected ELSE listed[1].offer)]
  /\ UNCHANGED <<serverVars, session, pageVars, buttons, login, clicks, faults>>

\* startLiveActivityPolling: unless the last poll is under way
PollActivity ==
  /\ tasks["poll"].at = "idle" /\ selected # None
  /\ tasks' = [tasks EXCEPT !["poll"] = Refreshing(LivePoll, selected)]
  /\ UNCHANGED <<serverVars, session, pageVars, buttons, login, clicks, faults>>

ToggleRecurringApproval ==
  /\ selected \in Recurring /\ Pressable("plain") /\ target = None
  /\ clicks < MaxClicks /\ clicks' = clicks + 1
  /\ approval' = IF approval = selected THEN None ELSE selected
  /\ buttons' = Gated(buttons, selected, approval')
  /\ UNCHANGED <<serverVars, session, selected, listed, hooked, target, tasks, login, faults>>

\* requestWebhookDelete opens a dialog, which the operator may leave again
RequestWebhookDelete ==
  /\ target = None /\ hooked.is # "none" /\ Pressable("webhook")
  /\ target' = hooked.offer
  /\ UNCHANGED <<serverVars, session, selected, listed, hooked, approval, buttons, tasks, login,
                 clicks, faults>>
LeaveDialog ==
  /\ target # None /\ ~DialogOpen /\ target' = None
  /\ UNCHANGED <<serverVars, session, selected, listed, hooked, approval, buttons, tasks, login,
                 clicks, faults>>

-----------------------------------------------------------------------------
TaskStep(t) ==
  \/ Call(t)
  \/ Answer(t) \/ Refresh(t) \/ Unauthorized(t)

Next ==
  \/ \E h \in Handlers : Click(h)
  \/ \E t \in Tasks : TaskStep(t) \/ RequestFails(t)
  \/ SessionEnds \/ LoginOperator \/ PollActivity \/ ToggleRecurringApproval
  \/ RequestWebhookDelete \/ LeaveDialog

\* Requests are answered, the interval fires, and an operator who is asked
\* logs in.  Nobody has to click.
SafetySpec == Init /\ [][Next]_vars
Spec ==
  /\ SafetySpec
  /\ \A t \in Tasks : WF_vars(TaskStep(t))
  /\ WF_vars(PollActivity) /\ WF_vars(LoginOperator)

-----------------------------------------------------------------------------
(* Safety. *)

\* A record is marked paid, by hand or by a synchronisation, only by a request
\* under its own offer, and by hand only the record the operator saw on top;
\* the records of another offer, still or again listed, are never touched.
MarksWhatWasShown ==
  [][\A o \in Offers : \A i \in DOMAIN ledger[o] :
       ledger'[o][i] # ledger[o][i] =>
         \E t \in Users : /\ tasks[t].at = "calling" /\ tasks[t].offer = o
                          /\ \/ tasks[t].h.call = "sync"
                             \/ tasks[t].names.offer = o /\ tasks[t].names.id = i]_vars

-----------------------------------------------------------------------------
(* Liveness. *)

Shows(o) ==
  /\ hooked = Hooked(o, hook[o])
  /\ listed = [i \in DOMAIN ledger[o] |->
                 Entry(o, Len(ledger[o]) + 1 - i, ledger[o][Len(ledger[o]) + 1 - i])]

\* The dialog opens before a handler has disabled its button.
NeverLockedOut == [](DialogOpen => ~buttons["plain"].disabled)

\* Once nobody clicks any more, the page ends up with what the resolver has
\* of the selected offer, whichever answers arrived late, failed, or were
\* about the offer selected before, as long as the operator can log in.
ActivitySettles == NeverLockedOut => <>[](selected # None => Shows(selected))

\* As long as no two handlers are under way at once, the buttons always come
\* back, whatever a request ends with, unless one of them is needed to log in.
ButtonsComeBack ==
  NeverLockedOut /\ [](\E t \in Users : tasks[t].at = "idle") => []<>~buttons["plain"].disabled
=============================================================================
