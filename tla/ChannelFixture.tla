---------------------------- MODULE ChannelFixture ----------------------------
(***************************************************************************)
(* The direct-channel fixture: a script that inspects the payer's and the  *)
(* merchant's node, plans how to get a direct channel between them, and,   *)
(* when its guard is on, executes the plan.  Operators run it again and    *)
(* again, also two at a time.                                              *)
(*                                                                         *)
(* An inspection is six lists that the two nodes answer one by one, so it  *)
(* may show a channel in no list at all: still opening when the node       *)
(* listed the ready ones, and ready when it listed the pending ones.       *)
(*                                                                         *)
(* The nodes are external.  A channel is opened by the payer, proposed to  *)
(* the merchant, accepted, by the node itself or by the script, and        *)
(* becomes ready at each end; an end may give up and the other end learns  *)
(* of it later.                                                            *)
(***************************************************************************)
EXTENDS FiberTopology

CONSTANTS
  Payer, Merchant,  \* the pubkeys of the two nodes
  Scripts,          \* runs of the fixture under way at once
  MaxChannels,      \* bound on channels ever opened
  MaxFailures       \* bound on faults of the nodes and failed calls

Ends == {Payer, Merchant}
Channels == 1 .. MaxChannels
Peer(e) == CHOOSE n \in Ends : n # e

ASSUME FixtureAssumption ==
  /\ Payer # Merchant
  /\ MaxChannels \in Nat \ {0} /\ MaxFailures \in Nat

VARIABLES
  chan,     \* channel -> end -> its state there
  dry,      \* channels without balance on the payer's side
  linked,   \* ends that list the other one as a peer
  auto,     \* the merchant's node accepts channels by itself
  options,  \* what the operator gave: an address, the amounts
  phase,    \* script -> where it stands
  heard,    \* script -> end -> list -> the answer
  steps,    \* script -> steps of its plan still to execute
  steady,   \* script -> what stood in the way of a new channel, ever since it asked
  failures

nodeVars == <<chan, dry, linked>>
fixtureVars == <<chan, dry, linked, auto, options, phase, heard, steps, steady, failures>>

EndStates == {"none", "negotiating", "awaiting", "ready", "failed", "closed"}
ListCalls == {"peers", "channels", "pending"}
NothingHeard == [e \in Ends |-> << >>]

-----------------------------------------------------------------------------
(* The answers of a node. *)

OpeningAt(e) == {c \in Channels : chan[c][e] \in {"negotiating", "awaiting"}}

Listed(c, e) ==
  LET s == chan[c][e]
  IN [peer |-> Peer(e),
      state |-> IF s = "negotiating" THEN "NegotiatingFunding"
                ELSE IF s = "ready" THEN "ChannelReady" ELSE "AwaitingChannelReady",
      failed |-> s = "failed", enabled |-> TRUE, udt |-> FALSE,
      local  |-> IF s = "ready" /\ e = Payer /\ c \notin dry THEN 1 ELSE 0,
      remote |-> IF s = "ready" /\ e = Merchant /\ c \notin dry THEN 1 ELSE 0,
      tlcs |-> 0]

Answer(e, l) ==
  CASE l = "peers"    -> IF e \in linked THEN {Peer(e)} ELSE {}
    [] l = "channels" -> [c \in {d \in Channels : chan[d][e] = "ready"} |-> Listed(c, e)]
    [] l = "pending"  -> [c \in {d \in Channels : chan[d][e] \in {"negotiating", "awaiting", "failed"}}
                            |-> Listed(c, e)]

InspectedBy(s, e) ==
  Inspected(e, heard[s][e].peers, heard[s][e].channels, heard[s][e].pending)

\* the report of inspectPair (one)
PairTopologies(s) ==
  {AnalyzeTopology(p, m, Ends) : p \in {InspectedBy(s, Payer)}, m \in {InspectedBy(s, Merchant)}}

-----------------------------------------------------------------------------
(* What a new channel would come on top of: an opening that an end lists, or *)
(* a channel the payer can pay through.                                    *)

UsableNow(c) == chan[c][Payer] = "ready" /\ c \notin dry /\ Payer \in linked

Obstacles ==
  {<<c, "opening", e>> : c \in Channels, e \in Ends} \cup {<<c, "usable", Payer>> : c \in Channels}

Standing == {o \in Obstacles : IF o[2] = "usable" THEN UsableNow(o[1]) ELSE o[1] \in OpeningAt(o[3])}

\* kept for the properties: every action of the nodes or of a script takes
\* what it changed out of steady
Watch == steady' = [s \in Scripts |-> IF phase'[s] = "idle" THEN {}
                                      ELSE IF phase[s] = "idle" THEN Standing'
                                      ELSE steady[s] \cap Standing']

-----------------------------------------------------------------------------
FixtureTypeOK ==
  /\ chan \in [Channels -> [Ends -> EndStates]]
  /\ dry \subseteq Channels
  /\ linked \subseteq Ends
  /\ auto \in BOOLEAN
  /\ options \in [address : BOOLEAN, funding : BOOLEAN, acceptFunding : BOOLEAN]
  /\ phase \in [Scripts -> {"idle", "inspecting", "executing"}]
  /\ \A s \in Scripts :
       /\ phase[s] = "executing" =>
            steps[s] \in Seq([id : {"connect_peer", "open_channel", "accept_channel"},
                              channel : {0} \cup Channels]) \ {<< >>}
       /\ phase[s] # "inspecting" => heard[s] = NothingHeard
       /\ phase[s] # "executing" => steps[s] = << >>
  /\ steady \in [Scripts -> SUBSET Obstacles]
  /\ failures \in 0 .. MaxFailures

FixtureInit ==
  /\ chan = [c \in Channels |-> [e \in Ends |-> "none"]]
  /\ dry = {}
  /\ linked = {}
  /\ auto \in BOOLEAN
  /\ options \in [address : BOOLEAN, funding : {TRUE}, acceptFunding : BOOLEAN]
  /\ phase = [s \in Scripts |-> "idle"]
  /\ heard = [s \in Scripts |-> NothingHeard]
  /\ steps = [s \in Scripts |-> << >>]
  /\ steady = [s \in Scripts |-> {}]
  /\ failures = 0

-----------------------------------------------------------------------------
(* The script. *)

Start(s) ==
  /\ phase[s] = "idle"
  /\ phase' = [phase EXCEPT ![s] = "inspecting"]
  /\ UNCHANGED <<nodeVars, auto, options, heard, steps, failures>>

\* one of the calls of inspectNode is answered
Hear(s, e, l) ==
  /\ phase[s] = "inspecting" /\ l \notin DOMAIN heard[s][e]
  /\ heard' = [heard EXCEPT ![s][e] = [k \in DOMAIN @ \cup {l} |-> IF k = l THEN Answer(e, l) ELSE @[k]]]
  /\ UNCHANGED <<nodeVars, auto, options, phase, steps, failures>>

\* the script ends, with its report or an error
Exit(s) ==
  /\ phase' = [phase EXCEPT ![s] = "idle"]
  /\ heard' = [heard EXCEPT ![s] = NothingHeard]
  /\ steps' = [steps EXCEPT ![s] = << >>]

\* a call fails: Promise.all rejects, and so does the script
CallFails(s) ==
  /\ phase[s] # "idle" /\ failures < MaxFailures
  /\ Exit(s)
  /\ failures' = failures + 1
  /\ UNCHANGED <<nodeVars, auto, options>>

\* the plan, once every answer is there
MakePlan(s) ==
  /\ phase[s] = "inspecting"
  /\ \A e \in Ends : DOMAIN heard[s][e] = ListCalls
  /\ \E topology \in PairTopologies(s) :
       LET status == PlanStatus(topology, Ends, options)
       IN \/ /\ status \in {"ready_to_execute", "ready_to_accept"}
             /\ phase' = [phase EXCEPT ![s] = "executing"]
             /\ heard' = [heard EXCEPT ![s] = NothingHeard]
             /\ steps' = [steps EXCEPT ![s] = PlanSteps(topology)]
          \/ /\ status \notin {"ready_to_execute", "ready_to_accept"}
             /\ Exit(s)
  /\ UNCHANGED <<nodeVars, auto, options, failures>>

\* Mutant of Executed: the script does not see that it is through.
ExecutedForever(s) == steps' = [steps EXCEPT ![s] = Tail(@)] /\ UNCHANGED <<phase, heard>>

\* the next call of the plan; after the last one the script only reports
Executed(s) ==
  IF Len(steps[s]) = 1 THEN Exit(s)
  ELSE steps' = [steps EXCEPT ![s] = Tail(@)] /\ UNCHANGED <<phase, heard>>

Unopened == {c \in Channels : chan[c][Payer] = "none"}

ConnectPeer(s) ==
  /\ phase[s] = "executing" /\ Head(steps[s]).id = "connect_peer"
  /\ linked' = Ends
  /\ Executed(s)
  /\ UNCHANGED <<chan, dry, auto, options, failures>>

\* the payer's node opens towards a connected peer and refuses any other
OpenChannel(s) ==
  /\ phase[s] = "executing" /\ Head(steps[s]).id = "open_channel"
  /\ \/ /\ Payer \in linked /\ Unopened # {}
        /\ chan' = [chan EXCEPT ![Min(Unopened)][Payer] = "negotiating"]
        /\ Executed(s)
     \/ /\ Payer \notin linked \/ Unopened = {}
        /\ UNCHANGED chan
        /\ Exit(s)
  /\ UNCHANGED <<dry, linked, auto, options, failures>>

\* the merchant's node accepts a channel that is still negotiated
AcceptChannel(s) ==
  LET c == Head(steps[s]).channel
  IN /\ phase[s] = "executing" /\ Head(steps[s]).id = "accept_channel"
     /\ \/ /\ chan[c][Merchant] = "negotiating"
           /\ chan' = [chan EXCEPT ![c][Merchant] = "awaiting"]
           /\ Executed(s)
        \/ /\ chan[c][Merchant] # "negotiating"
           /\ UNCHANGED chan
           /\ Exit(s)
     /\ UNCHANGED <<dry, linked, auto, options, failures>>

-----------------------------------------------------------------------------
(* The two nodes. *)

Moves(c, e, from, to) ==
  /\ chan[c][e] \in from
  /\ chan' = [chan EXCEPT ![c][e] = to]
  /\ UNCHANGED <<dry, linked, auto, options, phase, heard, steps>>

\* the merchant hears of an opening; later it may accept it by itself, the
\* payer hears of that, and the channel becomes ready at each end
Proposed(c) ==
  /\ chan[c][Payer] = "negotiating" /\ linked = Ends
  /\ Moves(c, Merchant, {"none"}, "negotiating") /\ UNCHANGED failures
AutoAccepted(c) == auto /\ Moves(c, Merchant, {"negotiating"}, "awaiting") /\ UNCHANGED failures
PayerFollows(c) ==
  /\ chan[c][Merchant] = "awaiting"
  /\ Moves(c, Payer, {"negotiating"}, "awaiting") /\ UNCHANGED failures
BecomesReady(c, e) ==
  /\ chan[c][Peer(e)] \in {"awaiting", "ready"}
  /\ Moves(c, e, {"awaiting"}, "ready") /\ UNCHANGED failures

\* an end gives an opening up or closes the channel; the other end notices
GivesUp(c, e) ==
  /\ failures < MaxFailures /\ failures' = failures + 1
  /\ \/ Moves(c, e, {"negotiating", "awaiting"}, "failed")
     \/ Moves(c, e, {"ready"}, "closed")
Notices(c, e) ==
  /\ \/ chan[c][Peer(e)] \in {"failed", "closed"}
     \/ e = Payer /\ Payer \notin linked /\ chan[c][Merchant] = "none"
  /\ \/ Moves(c, e, {"negotiating", "awaiting"}, "failed")
     \/ Moves(c, e, {"ready"}, "closed")
  /\ UNCHANGED failures

PeerLost(e) ==
  /\ failures < MaxFailures /\ failures' = failures + 1
  /\ e \in linked /\ linked' = linked \ {e}
  /\ UNCHANGED <<chan, dry, auto, options, phase, heard, steps>>
PeerGone(e) ==
  /\ linked = {e} /\ linked' = {}
  /\ UNCHANGED <<chan, dry, auto, options, phase, heard, steps, failures>>

\* payments use up the payer's side
Drained(c) ==
  /\ failures < MaxFailures /\ failures' = failures + 1
  /\ chan[c][Payer] = "ready" /\ c \notin dry /\ dry' = dry \cup {c}
  /\ UNCHANGED <<chan, linked, auto, options, phase, heard, steps>>

-----------------------------------------------------------------------------
Step(s) ==
  \/ \E e \in Ends, l \in ListCalls : Hear(s, e, l)
  \/ MakePlan(s)
  \/ ConnectPeer(s) \/ OpenChannel(s) \/ AcceptChannel(s)

NodeStep ==
  \/ \E c \in Channels : Proposed(c) \/ AutoAccepted(c) \/ PayerFollows(c)
  \/ \E c \in Channels, e \in Ends : BecomesReady(c, e) \/ Notices(c, e)
  \/ \E e \in Ends : PeerGone(e)

NodeFault ==
  \/ \E c \in Channels, e \in Ends : GivesUp(c, e)
  \/ \E e \in Ends : PeerLost(e)
  \/ \E c \in Channels : Drained(c)

FixtureNext ==
  /\ \/ \E s \in Scripts : Start(s) \/ Step(s) \/ CallFails(s)
     \/ NodeStep
     \/ NodeFault
  /\ Watch

\* The operator runs the script until the channel is there, a call ends, and
\* the nodes go on with what is under way.
Fairness ==
  /\ \A s \in Scripts : WF_fixtureVars(Start(s) /\ Watch) /\ WF_fixtureVars(Step(s) /\ Watch)
  /\ WF_fixtureVars(NodeStep /\ Watch)

FixtureSafety == FixtureInit /\ [][FixtureNext]_fixtureVars
FixtureSpec == FixtureSafety /\ Fairness

-----------------------------------------------------------------------------
(* Safety. *)

\* A plan opens a channel only where nothing stood in the way all the time it
\* looked: no opening that an end kept listing and no usable channel.  Lists
\* that were read at different moments may miss a channel, but only one that
\* moved between them.
OpensWhereNothingStood ==
  \A s \in Scripts :
    (\E i \in DOMAIN steps[s] : steps[s][i].id = "open_channel") => steady[s] = {}

-----------------------------------------------------------------------------
(* Liveness. *)

Complete == options.address /\ (auto \/ options.acceptFunding)

\* Run again and again with all it needs, the fixture ends with a channel the
\* payer can pay through, whatever stalled, was lost or was opened twice.
FixtureSettles == Complete => <>[](\E c \in Channels : UsableNow(c))
=============================================================================
