------------------------- MODULE BackgroundWorkers -------------------------
(***************************************************************************)
(* Who synchronises: the settlement passes of createBackgroundWorkers in   *)
(* server.js, started by an interval inside the resolver or by a job of    *)
(* queue-worker.js, composed with the synchronisations of SettlementSync.  *)
(*                                                                         *)
(* A worker is a process.  Its pass reads the offer's records once, then   *)
(* synchronises those that were open, one after the other; meanwhile the   *)
(* other workers and the operators' requests do the same.  Whatever starts *)
(* a pass while the process is running one gets the last result at once    *)
(* and changes nothing.  A process that dies leaves its records to a later *)
(* pass.                                                                   *)
(*                                                                         *)
(* One offer stands for all: a pass that fails at another offer, or cannot *)
(* read the records, does nothing here.  Delivery passes are in            *)
(* WebhookOutbox.                                                          *)
(***************************************************************************)
EXTENDS SettlementSync

CONSTANT Workers   \* the writers that are background processes

ASSUME WorkersAssumption == Workers \subseteq Writers

VARIABLES
  running,  \* worker -> task.running
  left      \* worker -> records of its pass still to be synchronised

passVars == <<running, left>>
workVars == <<vars, passVars>>

PassTypeOK ==
  /\ TypeOK
  /\ running \in [Workers -> BOOLEAN]
  /\ left \in [Workers -> SUBSET Attempts]
  /\ \A w \in Workers : ~running[w] => left[w] = {} /\ at[w] = "idle"

WorkInit ==
  /\ Init
  /\ running = [w \in Workers |-> FALSE]
  /\ left = [w \in Workers |-> {}]

-----------------------------------------------------------------------------
\* Mutant of Visited: settled by a receipt, a record is not visited again.
VisitedUnlessReceived ==
  {a \in Stored(status) \cap invoiced :
     status[a] \notin TerminalStatuses \cup {"invoice_received"}}

\* the records of a pass: not terminal, and with a payment hash
Visited == {a \in Stored(status) \cap invoiced : status[a] \notin TerminalStatuses}

\* runTask: the interval fires, or the process is given a job, no pass of its
\* own is under way, and the records are read.
StartPass(w) ==
  /\ ~running[w]
  /\ running' = [running EXCEPT ![w] = TRUE]
  /\ left' = [left EXCEPT ![w] = Visited]
  /\ UNCHANGED vars

\* syncOfferResolutions goes on to one of the records it read.
Visit(w, a) ==
  /\ running[w] /\ a \in left[w]
  /\ AskNode(w, a)
  /\ left' = [left EXCEPT ![w] = @ \ {a}]
  /\ UNCHANGED running

EndPass(w) ==
  /\ running[w] /\ left[w] = {} /\ at[w] = "idle"
  /\ running' = [running EXCEPT ![w] = FALSE]
  /\ UNCHANGED <<vars, left>>

\* The process dies, in a synchronisation or between two, and starts anew.
Restart(w) ==
  /\ running[w]
  /\ WriterDies(w) \/ (at[w] = "idle" /\ UNCHANGED vars)
  /\ running' = [running EXCEPT ![w] = FALSE]
  /\ left' = [left EXCEPT ![w] = {}]

\* The store refuses the status or the event: the pass reports the record as
\* failed and goes on.
ItemFails(w) == WriterDies(w) /\ UNCHANGED passVars

Synchronises(w) == HearNode(w) \/ NodeSilent(w) \/ WriteStatus(w) \/ PostEvent(w)

PassStep(w) ==
  \/ StartPass(w) \/ EndPass(w) \/ Restart(w)
  \/ \E a \in Attempts : Visit(w, a)
  \/ Synchronises(w) /\ UNCHANGED passVars
  \/ ItemFails(w)

\* everybody but the workers: operators, who may synchronise by hand
OthersStep ==
  /\ \/ Issuance
     \/ \E a \in Attempts : NodeProgress(a)
     \/ \E w \in Writers \ Workers : Writer(w)
  /\ UNCHANGED passVars

WorkNext == OthersStep \/ \E w \in Workers : PassStep(w)

\* Passes come round, at one worker or another, and end; who knows what to
\* write goes on; and neither does the process die every time before it comes
\* to a record, nor does the store or the node fail every time.
WorkFairness ==
  /\ WF_workVars(\E w \in Workers : StartPass(w))
  /\ \A w \in Workers :
       /\ WF_workVars(EndPass(w))
       /\ \A a \in Attempts :
            /\ SF_workVars(Visit(w, a))
            /\ SF_workVars(target[w] = a /\ HearNode(w) /\ UNCHANGED passVars)
  /\ \A w \in Writers :
       WF_workVars((WriteStatus(w) \/ PostEvent(w)) /\ UNCHANGED passVars)

WorkSafety == WorkInit /\ [][WorkNext]_workVars
WorkSpec == WorkSafety /\ WorkFairness
=============================================================================
