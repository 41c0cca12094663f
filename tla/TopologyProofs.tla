---------------------------- MODULE TopologyProofs ----------------------------
(***************************************************************************)
(* Theorems about what is decided on the lists of two Fiber nodes:         *)
(* ChannelFixture, which opens channels, and PaymentSession, which sends   *)
(* payments.  Both go by AnalyzeTopology, so the lemmas about its lists    *)
(* come first.                                                             *)
(*                                                                         *)
(* For any number of scripts, channels and faults, a script opens a channel*)
(* only where nothing stood in the way; the argument is that what stood is *)
(* in every answer that could show it, and in the report.                  *)
(*                                                                         *)
(* For any number of payers, records and faults, any balances and whatever *)
(* the resolver sees of the topology, money leaves only after a dry run.   *)
(* The argument is about the route check a flow goes by, not about the     *)
(* topology: a report alone may make a payment payable, but then no route  *)
(* check was made and the payer's own node is asked.                       *)
(***************************************************************************)
EXTENDS ChannelFixture, PaymentSession, InvoiceLedgerProofs, SequenceTheorems, WellFoundedInduction

-----------------------------------------------------------------------------
(* Sums over a list. *)

First(s) == CHOOSE i \in s : TRUE

\* g is the table of the sums over the subsets of S, as the fold computes it
Sums(cs, field, S, g) ==
  g = [s \in SUBSET S |-> IF s = {} THEN 0 ELSE cs[First(s)][field] + g[s \ {First(s)}]]

\* A set of subsets of a finite set has a smallest element.
LEMMA Smallest ==
  ASSUME NEW S, IsFiniteSet(S), NEW D, D \subseteq SUBSET S, D # {}
  PROVE  \E s \in D : \A t \in D : t \subseteq s => t = s
<1>1. IsWellFoundedOn(StrictSubsetOrdering(S), SUBSET S)
  BY FS_StrictSubsetOrderingWellFounded, FS_FiniteSubsetsOfFinite
<1>2. \E s \in D : \A t \in D : <<t, s>> \notin StrictSubsetOrdering(S)
  BY <1>1, WFMin
<1> QED BY <1>2 DEF StrictSubsetOrdering

LEMMA TotalIsSum ==
  ASSUME NEW cs, NEW field, NEW S
  PROVE  Total(cs, S, field) = (CHOOSE g : Sums(cs, field, S, g))[S]
BY DEF Total, MapThenSumSet, MapThenFoldSet, Sums, First

\* What every table must hold for a set, another table holds for it as well: a
\* smallest set for which two tables differ would have a smaller one.
LEMMA SumsAgree ==
  ASSUME NEW cs, NEW field, NEW S, NEW T, IsFiniteSet(S), T \subseteq S,
         NEW g, NEW h, Sums(cs, field, S, g), Sums(cs, field, T, h)
  PROVE  \A s \in SUBSET T : g[s] = h[s]
<1> DEFINE D == {s \in SUBSET T : g[s] # h[s]}
<1> SUFFICES ASSUME D # {} PROVE FALSE
  OBVIOUS
<1>1. PICK s \in D : \A t \in D : t \subseteq s => t = s
  <2>1. D \subseteq SUBSET S
    OBVIOUS
  <2> HIDE DEF D
  <2> QED BY <2>1, Smallest
<1>2. s \in SUBSET S /\ s # {}
  BY DEF Sums
<1>3. First(s) \in s
  BY <1>2 DEF First
<1> DEFINE t == s \ {First(s)}
<1>4. t \in SUBSET T /\ t \subseteq s /\ t # s
  BY <1>2, <1>3
<1>5. g[t] = h[t]
  BY <1>1, <1>4
<1>6. g[s] = cs[First(s)][field] + g[t] /\ h[s] = cs[First(s)][field] + h[t]
  BY <1>2 DEF Sums
<1> QED BY <1>5, <1>6

LEMMA SumsExist ==
  ASSUME NEW cs, NEW field, NEW S, IsFiniteSet(S)
  PROVE  \E g : Sums(cs, field, S, g)
<1> DEFINE D == {s \in SUBSET S : ~ \E g : Sums(cs, field, s, g)}
<1> SUFFICES ASSUME D # {} PROVE FALSE
  OBVIOUS
<1>1. PICK s \in D : \A t \in D : t \subseteq s => t = s
  <2>1. D \subseteq SUBSET S
    OBVIOUS
  <2> HIDE DEF D
  <2> QED BY <2>1, Smallest
<1>2. \A t \in SUBSET s : t # s => \E g : Sums(cs, field, t, g)
  BY <1>1
<1> DEFINE sum(t) == (CHOOSE g : Sums(cs, field, t, g))[t]
           top == IF s = {} THEN 0 ELSE cs[First(s)][field] + sum(s \ {First(s)})
           table == [t \in SUBSET s |-> IF t = s THEN top ELSE sum(t)]
           step(t) == IF t = {} THEN 0 ELSE cs[First(t)][field] + table[t \ {First(t)}]
<1>3. \A t \in SUBSET s : t # {} => First(t) \in t
  BY DEF First
<1>4. ASSUME NEW t \in SUBSET s, t # s PROVE sum(t) = step(t)
  <2> DEFINE g == CHOOSE g : Sums(cs, field, t, g)
  <2>1. Sums(cs, field, t, g)
    BY <1>2, <1>4
  <2>2. CASE t = {}
    BY <2>1, <2>2 DEF Sums
  <2>3. CASE t # {}
    <3> DEFINE u == t \ {First(t)}
               h == CHOOSE h : Sums(cs, field, u, h)
    <3>1. u \in SUBSET s /\ u # s /\ u \in SUBSET t
      BY <1>3, <2>3
    <3>2. Sums(cs, field, u, h)
      BY <1>2, <3>1
    <3>3. IsFiniteSet(t)
      BY FS_Subset
    <3> HIDE DEF g, h
    <3>4. g[u] = h[u]
      BY <2>1, <3>1, <3>2, <3>3, SumsAgree
    <3>5. sum(t) = g[t] /\ sum(u) = h[u]
      BY DEF g, h
    <3>6. g[t] = cs[First(t)][field] + g[u]
      BY <2>1, <2>3 DEF Sums
    <3>7. table[u] = sum(u)
      BY <3>1
    <3> HIDE DEF sum, table
    <3> QED BY <2>3, <3>4, <3>5, <3>6, <3>7
  <2> QED BY <2>2, <2>3
<1>5. top = step(s)
  BY <1>3
<1>6. \A t \in SUBSET s : table[t] = step(t)
  <2> TAKE t \in SUBSET s
  <2>1. table[t] = IF t = s THEN top ELSE sum(t)
    OBVIOUS
  <2> HIDE DEF table, top, sum
  <2> QED BY <1>4, <1>5, <2>1
<1>7. Sums(cs, field, s, table)
  <2> HIDE DEF sum, top
  <2>1. table = [t \in SUBSET s |-> table[t]]
    OBVIOUS
  <2> HIDE DEF table
  <2> QED BY <1>6, <2>1 DEF Sums
<1> QED BY <1>1, <1>7

\* A sum is the first item and the sum of the rest.
LEMMA TotalStep ==
  ASSUME NEW cs, NEW field, NEW S, IsFiniteSet(S)
  PROVE  /\ S = {} => Total(cs, S, field) = 0
         /\ S # {} => Total(cs, S, field)
                        = cs[First(S)][field] + Total(cs, S \ {First(S)}, field)
<1> DEFINE g == CHOOSE g : Sums(cs, field, S, g)
           T == S \ {First(S)}
           h == CHOOSE h : Sums(cs, field, T, h)
<1>1. IsFiniteSet(T) /\ T \subseteq S
  BY FS_Subset
<1>2. Sums(cs, field, S, g) /\ Sums(cs, field, T, h)
  BY <1>1, SumsExist
<1>3. Total(cs, S, field) = g[S] /\ Total(cs, T, field) = h[T]
  BY TotalIsSum
<1> HIDE DEF g, h
<1>4. g[T] = h[T]
  <2> HIDE DEF T
  <2> QED BY <1>1, <1>2, SumsAgree
<1>5. g[S] = IF S = {} THEN 0 ELSE cs[First(S)][field] + g[T]
  BY <1>2 DEF Sums
<1> QED BY <1>3, <1>4, <1>5

\* A sum of balances is a balance, and more than nothing as soon as one is.
LEMMA TotalCounts ==
  ASSUME NEW cs, NEW field, NEW S, IsFiniteSet(S), \A i \in S : cs[i][field] \in Nat
  PROVE  /\ Total(cs, S, field) \in Nat
         /\ Total(cs, S, field) > 0 <=> \E i \in S : cs[i][field] > 0
<1> DEFINE Good(s) == /\ Total(cs, s, field) \in Nat
                      /\ Total(cs, s, field) > 0 <=> \E i \in s : cs[i][field] > 0
           D == {s \in SUBSET S : ~Good(s)}
<1> SUFFICES ASSUME D # {} PROVE FALSE
  OBVIOUS
<1>1. PICK s \in D : \A t \in D : t \subseteq s => t = s
  <2>1. D \subseteq SUBSET S
    OBVIOUS
  <2> HIDE DEF D
  <2> QED BY <2>1, Smallest
<1>2. IsFiniteSet(s)
  BY FS_Subset
<1>3. CASE s = {}
  <2>1. Total(cs, s, field) = 0
    BY <1>2, <1>3, TotalStep
  <2> QED BY <1>1, <1>3, <2>1
<1>4. CASE s # {}
  <2> DEFINE x == First(s)
             t == s \ {x}
  <2>1. x \in s
    BY <1>4 DEF First
  <2>2. Good(t)
    <3>1. t \in SUBSET S /\ t \subseteq s /\ t # s
      BY <2>1
    <3> QED BY <1>1, <3>1
  <2>3. Total(cs, s, field) = cs[x][field] + Total(cs, t, field)
    BY <1>2, <1>4, TotalStep
  <2>4. cs[x][field] \in Nat
    BY <2>1
  <2>5. (\E i \in s : cs[i][field] > 0) <=> cs[x][field] > 0 \/ \E i \in t : cs[i][field] > 0
    BY <2>1
  <2>6. Total(cs, s, field) \in Nat
    BY <2>2, <2>3, <2>4
  <2>7. Total(cs, s, field) > 0 <=> cs[x][field] > 0 \/ Total(cs, t, field) > 0
    BY <2>2, <2>3, <2>4
  <2> QED BY <1>1, <2>2, <2>5, <2>6, <2>7
<1> QED BY <1>3, <1>4

LEMMA TotalOfOne ==
  ASSUME NEW cs, NEW field, NEW i, cs[i][field] \in Nat
  PROVE  Total(cs, {i}, field) = cs[i][field]
<1>1. IsFiniteSet({i}) /\ IsFiniteSet({}) /\ First({i}) = i /\ {i} \ {i} = {}
  BY FS_Singleton, FS_EmptySet DEF First
<1>2. Total(cs, {i}, field) = cs[i][field] + Total(cs, {}, field)
  <2>1. Total(cs, {i}, field) = cs[First({i})][field] + Total(cs, {i} \ {First({i})}, field)
    BY <1>1, TotalStep
  <2> QED BY <1>1, <2>1
<1>3. Total(cs, {}, field) = 0
  BY <1>1, TotalStep
<1> QED BY <1>2, <1>3

-----------------------------------------------------------------------------
(* Reports. *)

LEMMA MinIsIn ==
  ASSUME NEW S \in SUBSET Nat, S # {}
  PROVE  Min(S) \in S
<1> DEFINE R == {xy \in Nat \X Nat : xy[1] < xy[2]}
<1>1. IsWellFoundedOn(R, Nat)
  BY NatLessThanWellFounded DEF OpToRel
<1>2. \A x \in S, y \in S : <<y, x>> \notin R => x =< y
  OBVIOUS
<1> HIDE DEF R
<1>3. \E x \in S : \A y \in S : <<y, x>> \notin R
  BY <1>1, WFMin
<1>4. \E x \in S : \A y \in S : x =< y
  BY <1>2, <1>3
<1> QED BY <1>4 DEF Min

\* An opening that a node lists with a peer is in the node's report.
LEMMA ListedIsReported ==
  ASSUME NEW pubkey, NEW peers, NEW channels, NEW cs, IsFiniteSet(DOMAIN cs),
         NEW i \in DOMAIN cs, IsOpening(cs[i])
  PROVE  Opens(Inspected(pubkey, peers, channels, cs), cs[i].peer)
<1> DEFINE n == cs[i].peer
           opening == {j \in With(cs, DOMAIN cs, n) : IsOpening(cs[j])}
           node == Inspected(pubkey, peers, channels, cs)
<1>1. node.pending = SummarizePending(cs)
  BY DEF Inspected
<1>2. n \in DOMAIN SummarizePending(cs) /\ SummarizePending(cs)[n].opening = Cardinality(opening)
  BY DEF SummarizePending, CounterpartiesOf
<1>3. IsFiniteSet(opening) /\ opening # {}
  <2>1. opening \subseteq DOMAIN cs /\ i \in opening
    BY DEF With
  <2> QED BY <2>1, FS_Subset
<1>4. Cardinality(opening) \in Nat /\ Cardinality(opening) # 0
  BY <1>3, FS_EmptySet, FS_CardinalityType
<1> HIDE DEF opening, node
<1> QED BY <1>1, <1>2, <1>4 DEF Opens, node

\* A channel with something on the payer's side, to a merchant the payer is
\* connected to, makes the direct channel usable.
LEMMA FundedIsUsable ==
  ASSUME NEW pubkey, NEW peers, NEW cs, NEW pending, NEW merchant, IsFiniteSet(DOMAIN cs),
         \A j \in DOMAIN cs : cs[j].local \in Nat,
         NEW i \in Enabled(cs), cs[i].peer = merchant.pubkey, cs[i].local > 0,
         merchant.pubkey \in peers
  PROVE  DirectChannel(Inspected(pubkey, peers, cs, pending), merchant).usable
<1> DEFINE n == merchant.pubkey
           S == With(cs, Enabled(cs), n)
           payer == Inspected(pubkey, peers, cs, pending)
           sums == SummarizeCounterparties(cs, peers)
<1>1. payer.channels.counterparties = sums /\ payer.peers = peers
  BY DEF Inspected, SummarizeChannels
<1>2. n \in DOMAIN sums /\ sums[n].local = Total(cs, S, "local")
  BY DEF SummarizeCounterparties, CounterpartiesOf
<1>3. S \subseteq DOMAIN cs /\ i \in S
  BY DEF With, Enabled
<1>4. IsFiniteSet(S) /\ \A j \in S : cs[j]["local"] \in Nat
  BY <1>3, FS_Subset
<1>5. Total(cs, S, "local") > 0
  <2>1. \E j \in S : cs[j]["local"] > 0
    BY <1>3
  <2> HIDE DEF S
  <2> QED BY <1>4, <2>1, TotalCounts
<1> HIDE DEF payer, sums
<1>6. DirectChannel(payer, merchant).usable
        = ((IF Lists(payer, n) THEN payer.channels.counterparties[n].local ELSE 0) > 0
           /\ n \in payer.peers)
  BY DEF DirectChannel
<1> QED BY <1>1, <1>2, <1>5, <1>6 DEF Lists, payer

\* The channel to accept is one that the merchant lists.
LEMMA CandidateIsListed ==
  ASSUME NEW topology, NEW peers, NEW channels, NEW cs, NEW pubkey,
         topology.merchant = Inspected(pubkey, peers, channels, cs),
         DOMAIN cs \in SUBSET Nat
  PROVE  \/ AcceptCandidate(topology) = {}
         \/ \E i \in DOMAIN cs : AcceptCandidate(topology) = {i}
<1> SUFFICES ASSUME AcceptCandidate(topology) # {}
             PROVE  \E i \in DOMAIN cs : AcceptCandidate(topology) = {i}
  OBVIOUS
<1> DEFINE n == topology.payer.pubkey
           opening == {j \in With(cs, DOMAIN cs, n) : IsOpening(cs[j])}
<1>1. topology.merchant.pending = SummarizePending(cs)
  BY DEF Inspected
<1>2. n \in DOMAIN SummarizePending(cs)
      /\ "NegotiatingFunding" \in SummarizePending(cs)[n].opening_states
      /\ AcceptCandidate(topology) = {Min(SummarizePending(cs)[n].opening_channel_ids)}
  BY <1>1 DEF AcceptCandidate, Opens
<1>3. SummarizePending(cs)[n].opening_states = {cs[j].state : j \in opening}
      /\ SummarizePending(cs)[n].opening_channel_ids = opening
  BY <1>2 DEF SummarizePending
<1>4. opening # {} /\ opening \subseteq DOMAIN cs
  BY <1>2, <1>3 DEF With
<1> HIDE DEF opening
<1>5. Min(opening) \in opening
  BY <1>4, MinIsIn
<1> QED BY <1>2, <1>3, <1>4, <1>5

PlanStep == [id : {"connect_peer", "open_channel", "accept_channel"}, channel : {0} \cup Channels]

\* A plan opens a channel only if the report shows none, and a plan that is to
\* be executed has a step.
LEMMA PlanIsRight ==
  ASSUME NEW topology, NEW known, NEW given,
         \/ AcceptCandidate(topology) = {}
         \/ \E c \in Channels : AcceptCandidate(topology) = {c}
  PROVE  LET plan == PlanSteps(topology)
             direct == topology.direct_channel
         IN /\ plan \in Seq(PlanStep)
            /\ (\E i \in DOMAIN plan : plan[i].id = "open_channel") =>
                 ~direct.usable /\ ~direct.opening /\ ~direct.partial_opening
            /\ PlanStatus(topology, known, given) \in {"ready_to_execute", "ready_to_accept"} =>
                 plan # << >>
<1> DEFINE direct == topology.direct_channel
           accept == AcceptCandidate(topology)
           open == ~direct.usable /\ ~direct.opening /\ ~direct.partial_opening
           channel == IF accept # {} THEN Min(accept) ELSE 0
           one == IF ~direct.payer_connected THEN <<[id |-> "connect_peer", channel |-> 0]>> ELSE << >>
           two == IF open THEN <<[id |-> "open_channel", channel |-> 0]>> ELSE << >>
           three == IF accept # {} THEN <<[id |-> "accept_channel", channel |-> channel]>> ELSE << >>
           plan == PlanSteps(topology)
<1>1. plan = one \o two \o three
  BY DEF PlanSteps
<1>2. channel \in {0} \cup Channels
  <2>1. ASSUME NEW c \in Channels, accept = {c} PROVE Min(accept) \in Channels
    <3>1. accept \in SUBSET Nat /\ accept # {}
      BY <2>1 DEF Channels
    <3> HIDE DEF accept
    <3> QED BY <2>1, <3>1, MinIsIn
  <2> QED BY <2>1
<1> HIDE DEF channel
<1>m. ASSUME NEW maybe, NEW step \in PlanStep, maybe \in {<<step>>, << >>}
      PROVE  /\ maybe \in Seq(PlanStep) /\ (Len(maybe) > 0 <=> maybe = <<step>>)
             /\ \A i \in DOMAIN maybe : maybe[i] = step
  <2>1. CASE maybe = <<step>>
    BY <2>1
  <2>2. CASE maybe = << >>
    BY <2>2
  <2> QED BY <1>m, <2>1, <2>2
<1>3. /\ one \in Seq(PlanStep) /\ two \in Seq(PlanStep) /\ three \in Seq(PlanStep)
      /\ \A i \in DOMAIN one : one[i].id # "open_channel"
      /\ \A i \in DOMAIN three : three[i].id # "open_channel"
      /\ Len(two) > 0 <=> open
      /\ Len(three) > 0 <=> accept # {}
  <2> DEFINE step(id, c) == [id |-> id, channel |-> c]
  <2>1. /\ step("connect_peer", 0) \in PlanStep /\ step("open_channel", 0) \in PlanStep
        /\ step("accept_channel", channel) \in PlanStep
    BY <1>2 DEF PlanStep
  <2>2. /\ one \in {<<step("connect_peer", 0)>>, << >>}
        /\ two = IF open THEN <<step("open_channel", 0)>> ELSE << >>
        /\ three = IF accept # {} THEN <<step("accept_channel", channel)>> ELSE << >>
    OBVIOUS
  <2> HIDE DEF one, two, three, open, accept, step
  <2>3. one \in Seq(PlanStep) /\ \A i \in DOMAIN one : one[i] = step("connect_peer", 0)
    BY <1>m, <2>1, <2>2
  <2>4. two \in Seq(PlanStep) /\ (Len(two) > 0 <=> open)
    BY <1>m, <2>1, <2>2
  <2>5. /\ three \in Seq(PlanStep) /\ (Len(three) > 0 <=> accept # {})
        /\ \A i \in DOMAIN three : three[i] = step("accept_channel", channel)
    BY <1>m, <2>1, <2>2
  <2> QED BY <2>3, <2>4, <2>5 DEF step
<1>4. PlanStatus(topology, known, given) \in {"ready_to_execute", "ready_to_accept"} =>
        open \/ accept # {}
  BY DEF PlanStatus
<1> HIDE DEF one, two, three, plan
<1>5. plan \in Seq(PlanStep) /\ Len(plan) = Len(one) + Len(two) + Len(three)
  BY <1>1, <1>3
<1>6. \A i \in DOMAIN plan :
        \/ i \in DOMAIN one /\ plan[i] = one[i]
        \/ Len(two) > 0
        \/ \E j \in DOMAIN three : plan[i] = three[j]
  <2> TAKE i \in DOMAIN plan
  <2>1. CASE i <= Len(one)
    BY <1>1, <1>3, <1>5, <2>1
  <2>2. CASE i > Len(one) /\ Len(two) = 0
    <3>1. i - Len(one) \in DOMAIN three /\ plan[i] = three[i - Len(one)]
      BY <1>1, <1>3, <1>5, <2>2
    <3> QED BY <3>1
  <2> QED BY <1>3, <1>5, <2>1, <2>2
<1>7. plan = << >> => Len(two) = 0 /\ Len(three) = 0
  BY <1>3, <1>5
<1> QED BY <1>3, <1>4, <1>5, <1>6, <1>7 DEF plan

-----------------------------------------------------------------------------
(* The direct-channel fixture. *)

\* what a list of the node e says of a channel
Names(cs, e) ==
  /\ DOMAIN cs \subseteq Channels
  /\ \A c \in DOMAIN cs : cs[c].peer = Peer(e) /\ cs[c].local \in Nat

\* the answers of the node e that a script has so far
Answers(e, h) ==
  /\ h = [l \in DOMAIN h |-> h[l]] /\ DOMAIN h \subseteq ListCalls
  /\ "channels" \in DOMAIN h =>
       /\ Names(h.channels, e)
       /\ \A c \in DOMAIN h.channels : h.channels[c].state = "ChannelReady" /\ h.channels[c].enabled
  /\ "pending" \in DOMAIN h => Names(h.pending, e)

\* An obstacle that stands is in every answer that could show it.
Shown(o, told) ==
  LET h == told[o[3]]
  IN IF o[2] = "opening"
     THEN "pending" \in DOMAIN h => o[1] \in DOMAIN h.pending /\ IsOpening(h.pending[o[1]])
     ELSE /\ "channels" \in DOMAIN h => o[1] \in DOMAIN h.channels /\ h.channels[o[1]].local > 0
          /\ "peers" \in DOMAIN h => Merchant \in h.peers

Opening(plan) == \E i \in DOMAIN plan : plan[i].id = "open_channel"

\* what a script has heard and plans, by where it stands and what has stood
ScriptOK(p, told, plan, stood) ==
  /\ plan \in Seq(PlanStep)
  /\ p = "executing" => plan # << >>
  /\ p # "executing" => plan = << >>
  /\ p # "inspecting" => told = NothingHeard
  /\ told = [e \in Ends |-> told[e]] /\ \A e \in Ends : Answers(e, told[e])
  /\ \A o \in stood : Shown(o, told)
  /\ Opening(plan) => stood = {}

\* The inductive invariant: what has stood since a script began to ask is in
\* the answers it has, so a report on all of them shows it.
FixtureInv ==
  /\ FixtureTypeOK
  /\ heard = [s \in Scripts |-> heard[s]] /\ steps = [s \in Scripts |-> steps[s]]
  /\ \A s \in Scripts : ScriptOK(phase[s], heard[s], steps[s], steady[s])

LEMMA PeersDiffer == Peer(Payer) = Merchant /\ Peer(Merchant) = Payer /\ \A e \in Ends : Peer(e) \in Ends
BY FixtureAssumption DEF Peer, Ends

LEMMA NothingIsFine ==
  ASSUME NEW stood \in SUBSET Obstacles
  PROVE  /\ NothingHeard = [e \in Ends |-> NothingHeard[e]]
         /\ \A e \in Ends : Answers(e, NothingHeard[e])
         /\ \A o \in stood : Shown(o, NothingHeard)
<1>1. \A e \in Ends : NothingHeard[e] = << >> /\ DOMAIN NothingHeard[e] = {}
  BY DEF NothingHeard
<1>2. \A e \in Ends : Answers(e, NothingHeard[e])
  BY <1>1 DEF Answers
<1>3. \A o \in Obstacles : o[3] \in Ends
  BY DEF Obstacles, Ends
<1>4. \A o \in stood : Shown(o, NothingHeard)
  BY <1>1, <1>3 DEF Shown
<1> QED BY <1>2, <1>4 DEF NothingHeard

\* What stands shrinks while a script runs.
LEMMA SteadyShrinks ==
  ASSUME Watch
  PROVE  /\ steady' \in [Scripts -> SUBSET Obstacles]
         /\ \A s \in Scripts :
              /\ steady'[s] \subseteq Standing'
              /\ phase[s] # "idle" => steady'[s] \subseteq steady[s]
              /\ phase'[s] = "idle" => steady'[s] = {}
BY Zenon DEF Watch, Standing

\* The nodes and what the operator gave, without the scripts.
NodesOK ==
  /\ chan \in [Channels -> [Ends -> EndStates]] /\ dry \subseteq Channels /\ linked \subseteq Ends
  /\ auto \in BOOLEAN /\ options \in [address : BOOLEAN, funding : BOOLEAN, acceptFunding : BOOLEAN]
  /\ failures \in 0 .. MaxFailures

LEMMA FixtureInvParts ==
  FixtureInv <=> /\ NodesOK
                 /\ phase \in [Scripts -> {"idle", "inspecting", "executing"}]
                 /\ steady \in [Scripts -> SUBSET Obstacles]
                 /\ heard = [s \in Scripts |-> heard[s]] /\ steps = [s \in Scripts |-> steps[s]]
                 /\ \A s \in Scripts : ScriptOK(phase[s], heard[s], steps[s], steady[s])
<1>1. ASSUME NEW s \in Scripts, ScriptOK(phase[s], heard[s], steps[s], steady[s])
      PROVE  /\ phase[s] = "executing" => steps[s] \in Seq(PlanStep) \ {<< >>}
             /\ phase[s] # "inspecting" => heard[s] = NothingHeard
             /\ phase[s] # "executing" => steps[s] = << >>
  BY <1>1 DEF ScriptOK
<1> QED BY <1>1, Zenon DEF FixtureInv, FixtureTypeOK, NodesOK, PlanStep

LEMMA FixtureInvNext ==
  ASSUME NodesOK', phase' \in [Scripts -> {"idle", "inspecting", "executing"}], Watch,
         heard' = [s \in Scripts |-> heard'[s]], steps' = [s \in Scripts |-> steps'[s]],
         \A s \in Scripts : ScriptOK(phase[s], heard[s], steps[s], steady[s])'
  PROVE  FixtureInv'
<1>1. ASSUME NEW s \in Scripts
      PROVE  /\ phase'[s] = "executing" => steps'[s] \in Seq(PlanStep) \ {<< >>}
             /\ phase'[s] # "inspecting" => heard'[s] = NothingHeard
             /\ phase'[s] # "executing" => steps'[s] = << >>
  BY DEF ScriptOK
<1>2. steady' \in [Scripts -> SUBSET Obstacles]
  BY SteadyShrinks
<1> QED BY <1>1, <1>2, Zenon DEF FixtureInv, FixtureTypeOK, NodesOK, PlanStep

\* A script that does not move stays right: what stood only shrinks.
LEMMA ScriptWaits ==
  ASSUME FixtureInv, Watch, NEW s \in Scripts, phase'[s] = phase[s], heard'[s] = heard[s],
         steps'[s] = steps[s]
  PROVE  ScriptOK(phase[s], heard[s], steps[s], steady[s])'
<1>1. ScriptOK(phase[s], heard[s], steps[s], steady[s])
  BY DEF FixtureInv
<1>2. steady'[s] \subseteq steady[s] \/ steady'[s] = {}
  BY SteadyShrinks
<1>3. \A o : Shown(o, heard[s])' <=> Shown(o, heard[s])
  BY DEF Shown
<1> QED BY <1>1, <1>2, <1>3 DEF ScriptOK

\* Neither the nodes nor a script disturb another script.
LEMMA NodesMove ==
  ASSUME FixtureInv, Watch, NodesOK', UNCHANGED <<phase, heard, steps>>
  PROVE  FixtureInv'
<1>1. \A s \in Scripts : ScriptOK(phase[s], heard[s], steps[s], steady[s])'
  BY ScriptWaits
<1>2. /\ phase' \in [Scripts -> {"idle", "inspecting", "executing"}]
      /\ heard' = [s \in Scripts |-> heard'[s]] /\ steps' = [s \in Scripts |-> steps'[s]]
  BY FixtureInvParts
<1> QED BY <1>1, <1>2, FixtureInvNext

LEMMA ScriptMoves ==
  ASSUME FixtureInv, Watch, NodesOK', NEW s \in Scripts,
         NEW p \in {"idle", "inspecting", "executing"}, NEW told, NEW plan,
         phase' = [phase EXCEPT ![s] = p], heard' = [heard EXCEPT ![s] = told],
         steps' = [steps EXCEPT ![s] = plan], ScriptOK(p, told, plan, steady'[s])
  PROVE  FixtureInv'
<1>1. /\ phase' \in [Scripts -> {"idle", "inspecting", "executing"}]
      /\ heard' = [t \in Scripts |-> heard'[t]] /\ steps' = [t \in Scripts |-> steps'[t]]
      /\ phase'[s] = p /\ heard'[s] = told /\ steps'[s] = plan
      /\ \A t \in Scripts \ {s} : phase'[t] = phase[t] /\ heard'[t] = heard[t] /\ steps'[t] = steps[t]
  BY FixtureInvParts
<1>2. ScriptOK(phase[s], heard[s], steps[s], steady[s])'
  <2>1. \A o : Shown(o, heard[s])' <=> Shown(o, told)
    BY <1>1 DEF Shown
  <2> QED BY <1>1, <2>1 DEF ScriptOK
<1>3. \A t \in Scripts \ {s} : ScriptOK(phase[t], heard[t], steps[t], steady[t])'
  BY <1>1, ScriptWaits
<1> QED BY <1>1, <1>2, <1>3, FixtureInvNext

LEMMA StartKeeps ==
  ASSUME FixtureInv, Watch, NEW s \in Scripts, Start(s)
  PROVE  FixtureInv'
<1>1. /\ heard[s] = NothingHeard /\ steps[s] = << >>
      /\ phase' = [phase EXCEPT ![s] = "inspecting"]
      /\ heard' = [heard EXCEPT ![s] = NothingHeard] /\ steps' = [steps EXCEPT ![s] = << >>]
  BY FixtureInvParts DEF Start, ScriptOK
<1>2. NodesOK'
  BY FixtureInvParts DEF NodesOK, Start, nodeVars
<1>3. steady'[s] \in SUBSET Obstacles
  BY SteadyShrinks
<1>4. ScriptOK("inspecting", NothingHeard, << >>, steady'[s])
  BY <1>3, NothingIsFine DEF ScriptOK, Opening
<1> QED BY <1>1, <1>2, <1>4, ScriptMoves

LEMMA ExitKeeps ==
  ASSUME FixtureInv, Watch, NodesOK', NEW s \in Scripts, Exit(s)
  PROVE  FixtureInv'
<1>1. steady'[s] = {} /\ {} \in SUBSET Obstacles
  BY SteadyShrinks, FixtureInvParts DEF Exit
<1>2. ScriptOK("idle", NothingHeard, << >>, steady'[s])
  BY <1>1, NothingIsFine DEF ScriptOK, Opening
<1> QED BY <1>2, ScriptMoves DEF Exit

\* What a node answers is what stands.
LEMMA AnswerShows ==
  ASSUME NodesOK, NEW e \in Ends, NEW l \in ListCalls
  PROVE  /\ l = "channels" =>
              /\ Names(Answer(e, l), e)
              /\ \A c \in DOMAIN Answer(e, l) :
                   Answer(e, l)[c].state = "ChannelReady" /\ Answer(e, l)[c].enabled
              /\ e = Payer => \A c \in Channels : UsableNow(c) =>
                   c \in DOMAIN Answer(e, l) /\ Answer(e, l)[c].local > 0
         /\ l = "pending" =>
              /\ Names(Answer(e, l), e)
              /\ \A c \in OpeningAt(e) : c \in DOMAIN Answer(e, l) /\ IsOpening(Answer(e, l)[c])
         /\ l = "peers" /\ e = Payer /\ Payer \in linked => Merchant \in Answer(e, l)
<1>1. \A c \in Channels :
        /\ Listed(c, e).peer = Peer(e) /\ Listed(c, e).local \in Nat
        /\ chan[c][e] = "ready" => Listed(c, e).state = "ChannelReady" /\ Listed(c, e).enabled
        /\ chan[c][e] = "ready" /\ e = Payer /\ c \notin dry => Listed(c, e).local > 0
        /\ c \in OpeningAt(e) => Listed(c, e).state # "Closed" /\ ~Listed(c, e).failed
  <2> TAKE c \in Channels
  <2>1. Listed(c, e).peer = Peer(e) /\ Listed(c, e).local \in Nat
    BY DEF Listed
  <2>2. chan[c][e] = "ready" => Listed(c, e).state = "ChannelReady" /\ Listed(c, e).enabled
    BY DEF Listed
  <2>3. chan[c][e] = "ready" /\ e = Payer /\ c \notin dry => Listed(c, e).local > 0
    BY DEF Listed
  <2>4. c \in OpeningAt(e) => Listed(c, e).state # "Closed"
    BY DEF Listed, OpeningAt
  <2>5. c \in OpeningAt(e) => ~Listed(c, e).failed
    BY DEF Listed, OpeningAt
  <2> QED BY <2>1, <2>2, <2>3, <2>4, <2>5
<1>2. CASE l = "channels"
  <2>1. Answer(e, l) = [c \in {d \in Channels : chan[d][e] = "ready"} |-> Listed(c, e)]
    BY <1>2 DEF Answer
  <2> QED BY <1>1, <1>2, <2>1 DEF Names, UsableNow
<1>3. CASE l = "pending"
  <2>1. Answer(e, l) = [c \in {d \in Channels : chan[d][e] \in {"negotiating", "awaiting", "failed"}}
                          |-> Listed(c, e)]
    BY <1>3 DEF Answer
  <2> QED BY <1>1, <1>3, <2>1 DEF Names, IsOpening, OpeningAt
<1>4. CASE l = "peers"
  BY <1>4, PeersDiffer DEF Answer
<1> QED BY <1>2, <1>3, <1>4 DEF ListCalls

LEMMA HearKeeps ==
  ASSUME FixtureInv, Watch, NEW s \in Scripts, NEW e \in Ends, NEW l \in ListCalls, Hear(s, e, l)
  PROVE  FixtureInv'
<1> DEFINE old == heard[s][e]
           new == [k \in DOMAIN old \cup {l} |-> IF k = l THEN Answer(e, l) ELSE old[k]]
           told == [heard[s] EXCEPT ![e] = new]
<1>1. phase[s] = "inspecting" /\ l \notin DOMAIN old /\ UNCHANGED <<nodeVars, auto, options, phase, steps, failures>>
  BY DEF Hear
<1>2. heard' = [heard EXCEPT ![s] = told]
  BY FixtureInvParts DEF Hear
<1>3. ScriptOK("inspecting", heard[s], steps[s], steady[s])
  BY <1>1 DEF FixtureInv
<1>4. /\ DOMAIN new = DOMAIN old \cup {l} /\ new[l] = Answer(e, l)
      /\ \A k \in DOMAIN old : new[k] = old[k]
      /\ new = [k \in DOMAIN new |-> new[k]]
  BY <1>1
<1> HIDE DEF new
<1>5. told = [n \in Ends |-> told[n]] /\ told[e] = new /\ \A n \in Ends \ {e} : told[n] = heard[s][n]
  BY <1>3 DEF ScriptOK
<1> HIDE DEF told
<1>n. NodesOK /\ NodesOK'
  BY <1>1, FixtureInvParts DEF NodesOK, nodeVars
<1>6. Answers(e, new)
  <2>1. Answers(e, old)
    BY <1>3 DEF ScriptOK
  <2>2. new.channels = new["channels"] /\ new.pending = new["pending"]
    OBVIOUS
  <2> QED BY <1>1, <1>4, <1>n, <2>1, AnswerShows DEF Answers, ListCalls
<1>7. ASSUME NEW o \in steady'[s] PROVE Shown(o, told)
  <2>1. o \in steady[s] /\ o \in Obstacles
    BY <1>1, <1>7, SteadyShrinks, FixtureInvParts
  <2>2. o \in Standing
    <3>1. o \in Standing'
      BY <1>7, SteadyShrinks
    <3> QED BY <1>1, <3>1 DEF Standing, UsableNow, OpeningAt, nodeVars
  <2>3. Shown(o, heard[s]) /\ o[3] \in Ends /\ (o[2] # "opening" => o[2] = "usable" /\ o[3] = Payer)
    <3>1. Shown(o, heard[s])
      BY <1>3, <2>1 DEF ScriptOK
    <3>2. /\ o[3] \in Ends /\ (o[2] # "opening" => o[2] = "usable" /\ o[3] = Payer)
      BY <2>1 DEF Obstacles, Ends
    <3> QED BY <3>1, <3>2
  <2>4. CASE o[3] # e
    BY <1>5, <2>3, <2>4 DEF Shown
  <2>5. CASE o[3] = e /\ o[2] = "opening"
    <3>1. o[1] \in OpeningAt(e)
      BY <2>2, <2>5 DEF Standing
    <3>2. l = "pending" => o[1] \in DOMAIN new.pending /\ IsOpening(new.pending[o[1]])
      BY <1>4, <1>n, <3>1, AnswerShows
    <3>3. l # "pending" /\ "pending" \in DOMAIN new =>
            "pending" \in DOMAIN old /\ new.pending = old.pending
      BY <1>4
    <3> QED BY <1>5, <2>3, <2>5, <3>2, <3>3 DEF Shown
  <2>6. CASE o[3] = e /\ o[2] # "opening"
    <3>1. UsableNow(o[1]) /\ o[1] \in Channels /\ e = Payer
      BY <2>1, <2>2, <2>3, <2>6 DEF Standing, Obstacles
    <3>2. /\ l = "channels" => o[1] \in DOMAIN new.channels /\ new.channels[o[1]].local > 0
          /\ l = "peers" => Merchant \in new.peers
      BY <1>4, <1>n, <3>1, AnswerShows DEF UsableNow
    <3>3. /\ l # "channels" /\ "channels" \in DOMAIN new =>
               "channels" \in DOMAIN old /\ new.channels = old.channels
          /\ l # "peers" /\ "peers" \in DOMAIN new => "peers" \in DOMAIN old /\ new.peers = old.peers
      BY <1>4
    <3> QED BY <1>5, <2>3, <2>6, <3>2, <3>3 DEF Shown
  <2> QED BY <2>4, <2>5, <2>6
<1>8. ScriptOK("inspecting", told, steps[s], steady'[s])
  <2>1. \A n \in Ends : Answers(n, told[n])
    BY <1>3, <1>5, <1>6 DEF ScriptOK
  <2>2. steps[s] = << >> /\ steps[s] \in Seq(PlanStep) /\ ~Opening(steps[s])
    BY <1>3 DEF ScriptOK, Opening
  <2> QED BY <1>5, <1>7, <2>1, <2>2 DEF ScriptOK
<1>9. phase' = [phase EXCEPT ![s] = "inspecting"] /\ steps' = [steps EXCEPT ![s] = steps[s]]
  BY <1>1, FixtureInvParts
<1> QED BY <1>2, <1>8, <1>9, <1>n, ScriptMoves

\* A report on all the answers shows what has stood while they were given.
LEMMA ReportShows ==
  ASSUME FixtureInv, NEW s \in Scripts, \A e \in Ends : DOMAIN heard[s][e] = ListCalls,
         steady[s] # {}
  PROVE  LET p == InspectedBy(s, Payer)
             m == InspectedBy(s, Merchant)
         IN Opens(p, m.pubkey) \/ Opens(m, p.pubkey) \/ DirectChannel(p, m).usable
<1> DEFINE p == InspectedBy(s, Payer)
           m == InspectedBy(s, Merchant)
<1>1. p.pubkey = Payer /\ m.pubkey = Merchant
  BY DEF InspectedBy, Inspected
<1>2. PICK o \in steady[s] : TRUE
  OBVIOUS
<1>3. /\ Shown(o, heard[s]) /\ \A e \in Ends : Answers(e, heard[s][e])
      /\ Payer \in Ends /\ Merchant \in Ends
  BY DEF FixtureInv, ScriptOK, Ends
<1>g. \A e \in Ends : {"peers", "channels", "pending"} \subseteq DOMAIN heard[s][e]
  BY DEF ListCalls
<1>4. o \in Obstacles
  BY FixtureInvParts
<1>5. /\ o[2] = "opening" => o[3] \in Ends
      /\ o[2] # "opening" => o[3] = Payer
  BY <1>4 DEF Obstacles
<1>f. \A e \in Ends : /\ Names(heard[s][e].pending, e) /\ IsFiniteSet(DOMAIN heard[s][e].pending)
                      /\ Names(heard[s][e].channels, e) /\ IsFiniteSet(DOMAIN heard[s][e].channels)
  <2> TAKE e \in Ends
  <2>1. Names(heard[s][e].pending, e) /\ Names(heard[s][e].channels, e)
    <3>1. Answers(e, heard[s][e]) /\ {"channels", "pending"} \subseteq DOMAIN heard[s][e]
      BY <1>3, <1>g
    <3> QED BY <3>1 DEF Answers
  <2>2. IsFiniteSet(Channels)
    BY FixtureAssumption, FS_Interval DEF Channels
  <2> QED BY <2>1, <2>2, FS_Subset DEF Names
<1>6. CASE o[2] = "opening"
  <2> DEFINE e == o[3]
             cs == heard[s][e].pending
             node == InspectedBy(s, e)
  <2>1. e \in Ends /\ o[1] \in DOMAIN cs /\ IsOpening(cs[o[1]]) /\ cs[o[1]].peer = Peer(e)
    BY <1>3, <1>5, <1>6, <1>f, <1>g DEF Shown, Names
  <2>2. node = Inspected(e, heard[s][e].peers, heard[s][e].channels, cs)
    BY DEF InspectedBy
  <2> HIDE DEF node, cs
  <2>3. Opens(node, Peer(e))
    BY <1>f, <2>1, <2>2, ListedIsReported DEF cs
  <2>4. e = Payer \/ e = Merchant
    BY <2>1 DEF Ends
  <2> QED BY <1>1, <2>3, <2>4, PeersDiffer DEF node
<1>7. CASE o[2] # "opening"
  <2> DEFINE cs == heard[s][Payer].channels
             peers == heard[s][Payer].peers
             pending == heard[s][Payer].pending
             c == o[1]
  <2>1. c \in DOMAIN cs /\ cs[c].local > 0 /\ Merchant \in peers
    BY <1>3, <1>5, <1>7, <1>g DEF Shown
  <2>2. \A d \in DOMAIN cs : cs[d].state = "ChannelReady" /\ cs[d].enabled /\ cs[d].local \in Nat
    <3>1. /\ Answers(Payer, heard[s][Payer]) /\ "channels" \in DOMAIN heard[s][Payer]
          /\ Names(cs, Payer)
      BY <1>3, <1>f, <1>g
    <3> QED BY <3>1 DEF Answers, Names
  <2>3. c \in Enabled(cs) /\ cs[c].peer = m.pubkey
    BY <1>1, <1>3, <1>f, <2>1, <2>2, PeersDiffer DEF Enabled, Names
  <2>4. p = Inspected(Payer, peers, cs, pending) /\ IsFiniteSet(DOMAIN cs)
    BY <1>3, <1>f DEF InspectedBy
  <2> HIDE DEF cs, peers, pending, c, p, m
  <2>5. DirectChannel(Inspected(Payer, peers, cs, pending), m).usable
    BY <1>1, <2>1, <2>2, <2>3, <2>4, FundedIsUsable
  <2> QED BY <2>4, <2>5 DEF p, m
<1> QED BY <1>6, <1>7

LEMMA MakePlanKeeps ==
  ASSUME FixtureInv, Watch, NEW s \in Scripts, MakePlan(s)
  PROVE  FixtureInv'
<1> DEFINE p == InspectedBy(s, Payer)
           m == InspectedBy(s, Merchant)
           topology == AnalyzeTopology(p, m, Ends)
           verdict == PlanStatus(topology, Ends, options)
           ready == {"ready_to_execute", "ready_to_accept"}
           plan == PlanSteps(topology)
<1>1. NodesOK'
  BY FixtureInvParts DEF NodesOK, MakePlan, nodeVars
<1>2. \/ Exit(s)
      \/ /\ verdict \in ready
         /\ phase' = [phase EXCEPT ![s] = "executing"]
         /\ heard' = [heard EXCEPT ![s] = NothingHeard]
         /\ steps' = [steps EXCEPT ![s] = plan]
  <2> HIDE DEF topology
  <2>1. PairTopologies(s) = {topology}
    BY DEF PairTopologies, topology
  <2> QED BY <2>1 DEF MakePlan
<1>3. /\ phase[s] = "inspecting"
      /\ \A e \in Ends : DOMAIN heard[s][e] = ListCalls
  BY DEF MakePlan
<1>4. /\ topology.merchant = m /\ topology.direct_channel = DirectChannel(p, m)
      /\ m = Inspected(Merchant, heard[s][Merchant].peers, heard[s][Merchant].channels,
                       heard[s][Merchant].pending)
  BY DEF AnalyzeTopology, InspectedBy
<1>5. DOMAIN heard[s][Merchant].pending \subseteq Channels
  BY <1>3 DEF FixtureInv, ScriptOK, Answers, Names, Ends, ListCalls
<1> HIDE DEF topology, verdict, plan, m
<1>6. \/ AcceptCandidate(topology) = {}
      \/ \E c \in Channels : AcceptCandidate(topology) = {c}
  <2>1. DOMAIN heard[s][Merchant].pending \in SUBSET Nat
    BY <1>5 DEF Channels
  <2>2. \/ AcceptCandidate(topology) = {}
        \/ \E c \in DOMAIN heard[s][Merchant].pending : AcceptCandidate(topology) = {c}
    BY <1>4, <2>1, CandidateIsListed
  <2> QED BY <1>5, <2>2
<1>7. /\ plan \in Seq(PlanStep)
      /\ Opening(plan) => LET direct == topology.direct_channel
                          IN ~direct.usable /\ ~direct.opening /\ ~direct.partial_opening
      /\ verdict \in ready => plan # << >>
  BY <1>6, PlanIsRight DEF plan, verdict, Opening
<1>8. ASSUME Opening(plan) PROVE steady[s] = {}
  <2> DEFINE direct == DirectChannel(p, m)
             a == Opens(p, m.pubkey)
             b == Opens(m, p.pubkey)
  <2>1. ~direct.usable /\ ~direct.opening /\ ~direct.partial_opening
    BY <1>4, <1>7, <1>8
  <2>2. direct.opening = (a /\ b) /\ direct.partial_opening = (a # b)
    BY DEF DirectChannel
  <2>3. a \in BOOLEAN /\ b \in BOOLEAN
    BY DEF Opens
  <2>4. ~a /\ ~b
    BY <2>1, <2>2, <2>3
  <2> QED BY <1>3, <2>1, <2>4, ReportShows DEF m
<1>9. CASE verdict \in ready /\ phase' = [phase EXCEPT ![s] = "executing"]
           /\ heard' = [heard EXCEPT ![s] = NothingHeard] /\ steps' = [steps EXCEPT ![s] = plan]
  <2>1. steady'[s] \in SUBSET Obstacles /\ steady'[s] \subseteq steady[s]
    BY <1>3, SteadyShrinks
  <2>2. ScriptOK("executing", NothingHeard, plan, steady'[s])
    BY <1>7, <1>8, <1>9, <2>1, NothingIsFine DEF ScriptOK
  <2> QED BY <1>1, <1>9, <2>2, ScriptMoves
<1> QED BY <1>1, <1>2, <1>9, ExitKeeps

\* A script that executes its plan goes on with the rest of it.
LEMMA ExecutedKeeps ==
  ASSUME FixtureInv, Watch, NodesOK', NEW s \in Scripts, phase[s] = "executing", Executed(s)
  PROVE  FixtureInv'
<1>1. CASE Len(steps[s]) = 1
  BY <1>1, ExitKeeps DEF Executed
<1>2. CASE Len(steps[s]) # 1
  <2> DEFINE rest == Tail(steps[s])
  <2>1. ScriptOK("executing", heard[s], steps[s], steady[s])
    BY DEF FixtureInv
  <2>2. /\ steps' = [steps EXCEPT ![s] = rest]
        /\ phase' = [phase EXCEPT ![s] = "executing"]
        /\ heard' = [heard EXCEPT ![s] = NothingHeard]
    BY <1>2, <2>1, FixtureInvParts DEF Executed, ScriptOK
  <2>3. /\ rest \in Seq(PlanStep) /\ rest # << >>
        /\ \A i \in DOMAIN rest : i + 1 \in DOMAIN steps[s] /\ rest[i] = steps[s][i + 1]
    <3>1. steps[s] \in Seq(PlanStep) /\ steps[s] # << >>
      BY <2>1 DEF ScriptOK
    <3>2. rest \in Seq(PlanStep) /\ Len(rest) = Len(steps[s]) - 1 /\ Len(steps[s]) \in Nat
      BY <3>1
    <3>3. rest # << >>
      <4>1. Len(rest) # 0
        BY <1>2, <3>2
      <4> HIDE DEF rest
      <4> QED BY <4>1
    <3>4. \A i \in DOMAIN rest : i + 1 \in DOMAIN steps[s] /\ rest[i] = steps[s][i + 1]
      BY <3>1, <3>2
    <3> QED BY <3>2, <3>3, <3>4
  <2>4. steady'[s] \in SUBSET Obstacles /\ steady'[s] \subseteq steady[s]
    BY SteadyShrinks
  <2>5. Opening(rest) => steady'[s] = {}
    BY <2>1, <2>3, <2>4 DEF ScriptOK, Opening
  <2> HIDE DEF rest
  <2>6. ScriptOK("executing", NothingHeard, rest, steady'[s])
    BY <2>3, <2>4, <2>5, NothingIsFine DEF ScriptOK
  <2> QED BY <2>2, <2>6, ScriptMoves
<1> QED BY <1>1, <1>2

LEMMA ChannelTurns ==
  ASSUME NodesOK, NEW c, NEW e, NEW state \in EndStates, chan' = [chan EXCEPT ![c][e] = state],
         UNCHANGED <<dry, linked, auto, options>>, failures' \in 0 .. MaxFailures
  PROVE  NodesOK'
BY DEF NodesOK

LEMMA StepKeeps ==
  ASSUME FixtureInv, Watch, NEW s \in Scripts, Step(s)
  PROVE  FixtureInv'
<1>t. NodesOK /\ failures \in 0 .. MaxFailures
  BY FixtureInvParts DEF NodesOK
<1>1. CASE ConnectPeer(s)
  <2>1. NodesOK'
    BY <1>1, <1>t DEF NodesOK, ConnectPeer
  <2> QED BY <1>1, <2>1, ExecutedKeeps DEF ConnectPeer
<1>2. CASE OpenChannel(s)
  <2>1. NodesOK'
    <3>1. CASE UNCHANGED chan
      BY <1>2, <1>t, <3>1 DEF NodesOK, OpenChannel
    <3>2. CASE chan' = [chan EXCEPT ![Min(Unopened)][Payer] = "negotiating"]
      BY <1>2, <1>t, <3>2, ChannelTurns DEF OpenChannel, EndStates
    <3> QED BY <1>2, <3>1, <3>2 DEF OpenChannel
  <2> QED BY <1>2, <2>1, ExecutedKeeps, ExitKeeps DEF OpenChannel
<1>3. CASE AcceptChannel(s)
  <2>1. NodesOK'
    <3>1. CASE UNCHANGED chan
      BY <1>3, <1>t, <3>1 DEF NodesOK, AcceptChannel
    <3>2. CASE chan' = [chan EXCEPT ![Head(steps[s]).channel][Merchant] = "awaiting"]
      BY <1>3, <1>t, <3>2, ChannelTurns DEF AcceptChannel, EndStates
    <3> QED BY <1>3, <3>1, <3>2 DEF AcceptChannel
  <2> QED BY <1>3, <2>1, ExecutedKeeps, ExitKeeps DEF AcceptChannel
<1> QED BY <1>1, <1>2, <1>3, HearKeeps, MakePlanKeeps DEF Step

LEMMA FailureKeeps ==
  ASSUME FixtureInv, Watch, NEW s \in Scripts, CallFails(s)
  PROVE  FixtureInv'
<1>1. NodesOK'
  BY FixtureInvParts, FixtureAssumption DEF NodesOK, CallFails, nodeVars
<1> QED BY <1>1, ExitKeeps DEF CallFails

LEMMA NodeStepsKeep ==
  ASSUME FixtureInv, Watch, NodeStep \/ NodeFault
  PROVE  FixtureInv'
<1>t. /\ NodesOK /\ failures \in 0 .. MaxFailures
      /\ failures < MaxFailures => failures + 1 \in 0 .. MaxFailures
  BY FixtureInvParts, FixtureAssumption DEF NodesOK
<1>m. ASSUME NEW c, NEW e, NEW from, NEW to \in EndStates, Moves(c, e, from, to),
             failures' \in 0 .. MaxFailures
      PROVE  FixtureInv'
  <2>1. NodesOK'
    BY <1>m, <1>t, ChannelTurns DEF Moves
  <2> QED BY <1>m, <2>1, NodesMove DEF Moves
<1>1. ASSUME NEW c \in Channels, Proposed(c) \/ AutoAccepted(c) \/ PayerFollows(c) PROVE FixtureInv'
  BY <1>1, <1>m, <1>t DEF Proposed, AutoAccepted, PayerFollows, EndStates
<1>2. ASSUME NEW c \in Channels, NEW e \in Ends, BecomesReady(c, e) \/ Notices(c, e) \/ GivesUp(c, e)
      PROVE  FixtureInv'
  BY <1>2, <1>m, <1>t DEF BecomesReady, Notices, GivesUp, EndStates
<1>3. ASSUME NEW e \in Ends, PeerGone(e) \/ PeerLost(e) PROVE FixtureInv'
  <2>1. NodesOK'
    BY <1>3, <1>t DEF NodesOK, PeerGone, PeerLost
  <2> QED BY <1>3, <2>1, NodesMove DEF PeerGone, PeerLost
<1>4. ASSUME NEW c \in Channels, Drained(c) PROVE FixtureInv'
  <2>1. NodesOK'
    BY <1>4, <1>t DEF NodesOK, Drained
  <2> QED BY <1>4, <2>1, NodesMove DEF Drained
<1> QED BY <1>1, <1>2, <1>3, <1>4 DEF NodeStep, NodeFault

LEMMA FixtureInvHolds == FixtureSafety => []FixtureInv
<1>1. FixtureInit => FixtureInv
  <2> SUFFICES ASSUME FixtureInit PROVE FixtureInv
    OBVIOUS
  <2>1. NodesOK
    <3>1. options \in [address : BOOLEAN, funding : BOOLEAN, acceptFunding : BOOLEAN]
      BY DEF FixtureInit
    <3>2. chan \in [Channels -> [Ends -> EndStates]]
      BY DEF FixtureInit, EndStates
    <3> QED BY <3>1, <3>2, FixtureAssumption DEF FixtureInit, NodesOK
  <2>2. ASSUME NEW s \in Scripts PROVE ScriptOK(phase[s], heard[s], steps[s], steady[s])
    <3>1. phase[s] = "idle" /\ heard[s] = NothingHeard /\ steps[s] = << >> /\ steady[s] = {}
      BY DEF FixtureInit
    <3>2. {} \in SUBSET Obstacles
      OBVIOUS
    <3> QED BY <3>1, <3>2, NothingIsFine DEF ScriptOK, Opening
  <2>3. /\ phase \in [Scripts -> {"idle", "inspecting", "executing"}]
        /\ steady \in [Scripts -> SUBSET Obstacles]
        /\ heard = [s \in Scripts |-> heard[s]] /\ steps = [s \in Scripts |-> steps[s]]
    BY DEF FixtureInit
  <2> QED BY <2>1, <2>2, <2>3, FixtureInvParts
<1>2. FixtureInv /\ [FixtureNext]_fixtureVars => FixtureInv'
  <2> SUFFICES ASSUME FixtureInv, [FixtureNext]_fixtureVars PROVE FixtureInv'
    OBVIOUS
  <2>1. CASE FixtureNext
    BY <2>1, StartKeeps, StepKeeps, FailureKeeps, NodeStepsKeep DEF FixtureNext
  <2>2. CASE UNCHANGED fixtureVars
    BY <2>2 DEF fixtureVars, FixtureInv, FixtureTypeOK, ScriptOK, Shown
  <2> QED BY <2>1, <2>2
<1> QED BY <1>1, <1>2, PTL DEF FixtureSafety

\* Types, with plans that have a step left while they are executed.
THEOREM FixtureTypeCorrect == FixtureSafety => []FixtureTypeOK
<1>1. FixtureInv => FixtureTypeOK
  BY DEF FixtureInv
<1> QED BY <1>1, FixtureInvHolds, PTL

\* Any number of scripts at a time, in any order of the answers of nodes that
\* may fail and change meanwhile: none opens a channel beside an opening that an
\* end listed, or a channel the payer could pay through, all the time it asked.
THEOREM OpensOnlyWhereNothingStood == FixtureSafety => []OpensWhereNothingStood
<1>1. FixtureInv => OpensWhereNothingStood
  BY DEF FixtureInv, ScriptOK, Opening, OpensWhereNothingStood
<1> QED BY <1>1, FixtureInvHolds, PTL

-----------------------------------------------------------------------------
(* The readiness report. *)

\* A report carries the route check it was made from; once a route was checked
\* it allows the payment only if the check found one; and what the payer's own
\* node says overrules the report.
GoesByRoute(r, tryout) ==
  /\ r.route = tryout
  /\ ReadyToSend(r) /\ tryout # "none" => tryout = "ok"
  /\ \A own : ReadyToSend(MergeRouteCheck(r, own)) => own = "ok"

LEMMA ReportGoesByRoute ==
  ASSUME NEW offer, NEW topology, NEW amount, NEW asset, NEW tryout, NEW invoice
  PROVE  GoesByRoute(AnalyzePaymentReadiness(offer, topology, amount, asset, tryout, invoice),
                     tryout)
<1> DEFINE checks == offer \cup TopologyChecks(topology, amount, asset)
                           \cup RouteDryRunCheck(tryout, invoice)
           ready == \A c \in checks : c.status # "fail"
           sure == Confidence(ready, topology, tryout)
           action == NextAction(ready, tryout, invoice)
           payable == Payable(ready, topology, tryout)
           r == AnalyzePaymentReadiness(offer, topology, amount, asset, tryout, invoice)
<1>1. r = [ready |-> ready, payable |-> payable, confidence |-> sure, next_action |-> action,
           checks |-> checks, route |-> tryout]
  BY DEF AnalyzePaymentReadiness
<1>2. ready /\ tryout # "none" => payable = (IF tryout = "ok" THEN "yes" ELSE "no")
  BY DEF Payable
<1> HIDE DEF checks, ready, sure, action, payable, r
<1>3. r.route = tryout /\ (ReadyToSend(r) /\ tryout # "none" => tryout = "ok")
  BY <1>1, <1>2 DEF ReadyToSend
<1>4. ASSUME NEW own PROVE MergeRouteCheck(r, own).ready = (ready /\ own = "ok")
  BY <1>1 DEF MergeRouteCheck
<1>5. GoesByRoute(r, tryout)
  BY <1>3, <1>4 DEF GoesByRoute, ReadyToSend
<1> QED BY <1>5 DEF r

-----------------------------------------------------------------------------
Stages == {"idle", "checking", "requesting", "minting", "rechecking", "trying", "trying_own",
           "sending", "done"}

Shape ==
  /\ at \in [Flows -> Stages]
  /\ inv \in [Flows -> Attempts]
  /\ route \in [Flows -> {"none", "ok", "failed"}]

\* The inductive invariant: a flow that sends has tried the route of its
\* invoice, and one that goes by a route check knows the invoice it was of.
IInv ==
  /\ Shape
  /\ \A f \in Flows :
       /\ at[f] = "trying_own" /\ route[f] = "ok" => inv[f] \in tried
       /\ at[f] = "sending" => inv[f] \in tried
  /\ DryRunBeforeFunds

\* A step of a flow that neither tries nor pays, and does not come to one of
\* the two last stages, keeps the invariant.
LEMMA OtherStage ==
  ASSUME IInv, NEW f \in Flows, NEW stage \in Stages \ {"trying_own", "sending"}, Shape',
         at' = [at EXCEPT ![f] = stage], tried \subseteq tried', paid' = paid,
         \A g \in Flows \ {f} : inv'[g] = inv[g] /\ route'[g] = route[g]
  PROVE  IInv'
<1>1. at'[f] = stage /\ \A g \in Flows \ {f} : at'[g] = at[g]
  BY DEF IInv, Shape
<1> QED BY <1>1 DEF IInv, DryRunBeforeFunds

\* Nor does a flow that returns.
LEMMA ReturnKeeps ==
  ASSUME IInv, NEW f \in Flows, NEW r, Return(f, r), tried \subseteq tried', paid' = paid
  PROVE  IInv'
<1>1. at' = [at EXCEPT ![f] = "done"] /\ inv' = inv /\ route' = [route EXCEPT ![f] = "none"]
  BY DEF Return
<1>2. Shape' /\ \A g \in Flows \ {f} : inv'[g] = inv[g] /\ route'[g] = route[g]
  BY <1>1 DEF IInv, Shape, Stages
<1> QED BY <1>1, <1>2, OtherStage DEF Stages

LEMMA DecideKeeps ==
  ASSUME IInv, NEW f \in Flows, Decide(f)
  PROVE  IInv'
<1>1. at[f] = "trying_own" /\ paid' = paid /\ tried \subseteq tried'
  BY DEF Decide, Tries
<1>2. PICK before \in Readiness(offerOk[f], seen[f], route[f], TRUE) :
        IF AsksOwnNode(before, opts[f].client, opts[f].forceLocal)
        THEN /\ Tries(inv[f])
             /\ \E merged \in {MergeRouteCheck(before, DryRun(inv[f]))} : Concludes(f, merged)
        ELSE UNCHANGED tried /\ Concludes(f, before)
  BY DEF Decide
<1>3. GoesByRoute(before, route[f])
  <2>1. PICK topology \in Topologies(seen[f]) :
          before = AnalyzePaymentReadiness(OfferChecks(offerOk[f]), topology, Amount, "ckb",
                                           route[f], TRUE)
    BY DEF Readiness
  <2>2. GoesByRoute(AnalyzePaymentReadiness(OfferChecks(offerOk[f]), topology, Amount, "ckb",
                                            route[f], TRUE), route[f])
    BY ReportGoesByRoute
  <2> QED BY <2>1, <2>2
<1>4. ASSUME NEW r, Concludes(f, r),
             ReadyToSend(r) /\ opts[f].client => inv[f] \in tried'
      PROVE  IInv'
  <2>1. CASE /\ ReadyToSend(r) /\ opts[f].client /\ Go(f, "trying_own", "sending")
             /\ UNCHANGED <<inv, seen, offerOk, route>>
    <3>1. at' = [at EXCEPT ![f] = "sending"] /\ UNCHANGED <<inv, route>>
      BY <2>1 DEF Go
    <3>2. Shape' /\ at'[f] = "sending" /\ \A g \in Flows \ {f} : at'[g] = at[g]
      BY <3>1 DEF IInv, Shape, Stages
    <3> QED BY <1>1, <1>4, <2>1, <3>1, <3>2 DEF IInv, DryRunBeforeFunds
  <2>2. CASE \E answer : Return(f, answer)
    BY <1>1, <2>2, ReturnKeeps
  <2> QED BY <1>4, <2>1, <2>2 DEF Concludes
<1>5. CASE AsksOwnNode(before, opts[f].client, opts[f].forceLocal)
  <2> DEFINE own == DryRun(inv[f])
             merged == MergeRouteCheck(before, own)
  <2>1. Concludes(f, merged)
    BY <1>2, <1>5
  <2>t. own = "ok" => inv[f] \in tried'
    BY <1>2, <1>5 DEF Tries
  <2>2. ReadyToSend(merged) => own = "ok"
    BY <1>3 DEF GoesByRoute
  <2> HIDE DEF own, merged
  <2> QED BY <1>4, <2>1, <2>2, <2>t
<1>6. CASE ~AsksOwnNode(before, opts[f].client, opts[f].forceLocal)
  <2>1. Concludes(f, before) /\ tried' = tried
    BY <1>2, <1>6
  <2>2. before.route = route[f] /\ (ReadyToSend(before) /\ route[f] # "none" => route[f] = "ok")
    BY <1>3 DEF GoesByRoute
  <2>3. opts[f].client => route[f] # "none"
    BY <1>6, <2>2 DEF AsksOwnNode
  <2>4. ReadyToSend(before) /\ opts[f].client => inv[f] \in tried'
    BY <1>1, <2>1, <2>2, <2>3 DEF IInv
  <2> QED BY <1>4, <2>1, <2>4
<1> QED BY <1>5, <1>6

\* A dry run that fails lets nothing be sent.
LEMMA DryRunFailsKeeps ==
  ASSUME IInv, NEW f \in Flows, DryRunFails(f)
  PROVE  IInv'
<1>1. CASE /\ Go(f, "trying", "trying_own") /\ route' = [route EXCEPT ![f] = "failed"]
           /\ UNCHANGED <<inv, paid, tried>>
  <2>1. /\ Shape' /\ at'[f] = "trying_own" /\ route'[f] = "failed"
        /\ \A g \in Flows \ {f} : at'[g] = at[g] /\ route'[g] = route[g]
    BY <1>1 DEF Go, IInv, Shape, Stages
  <2> QED BY <1>1, <2>1 DEF IInv, DryRunBeforeFunds
<1>2. ASSUME NEW before \in Readiness(offerOk[f], seen[f], route[f], TRUE),
             Concludes(f, MergeRouteCheck(before, "failed"))
      PROVE  IInv'
  <2>1. PICK topology \in Topologies(seen[f]) :
          before = AnalyzePaymentReadiness(OfferChecks(offerOk[f]), topology, Amount, "ckb",
                                           route[f], TRUE)
    BY DEF Readiness
  <2>2. GoesByRoute(before, route[f])
    BY <2>1, ReportGoesByRoute
  <2>3. ~ReadyToSend(MergeRouteCheck(before, "failed"))
    BY <2>2 DEF GoesByRoute
  <2>4. Return(f, "blocked_after_invoice") /\ UNCHANGED <<paid, tried>>
    BY <1>2, <2>3 DEF Concludes, DryRunFails
  <2> QED BY <2>4, ReturnKeeps
<1> QED BY <1>1, <1>2 DEF DryRunFails

LEMMA SendKeeps ==
  ASSUME IInv, NEW f \in Flows, SendPayment(f)
  PROVE  IInv'
<1>1. /\ at[f] = "sending" /\ tried' = tried
      /\ paid' = paid \/ paid' = paid \cup {inv[f]}
      /\ at' = [at EXCEPT ![f] = "done"] /\ inv' = inv /\ route' = [route EXCEPT ![f] = "none"]
  BY DEF SendPayment, Return
<1>2. Shape' /\ at'[f] = "done" /\ \A g \in Flows \ {f} : at'[g] = at[g] /\ route'[g] = route[g]
  BY <1>1 DEF IInv, Shape, Stages
<1> QED BY <1>1, <1>2 DEF IInv, DryRunBeforeFunds

LEMMA FlowKeeps ==
  ASSUME IInv, NEW f \in Flows, FlowStep(f)
  PROVE  IInv'
<1>r. ASSUME NEW from, Rejects(f, from), tried' = tried, paid' = paid PROVE IInv'
  BY <1>r, ReturnKeeps DEF Rejects
<1>g. ASSUME NEW from, NEW to \in Stages \ {"trying_own", "sending"}, Go(f, from, to),
             UNCHANGED <<inv, route, tried, paid>>
      PROVE  IInv'
  <2>1. at' = [at EXCEPT ![f] = to] /\ Shape'
    BY <1>g DEF Go, IInv, Shape
  <2> QED BY <1>g, <2>1, OtherStage
<1>1. CASE PayOffer(f)
  BY <1>1, <1>g DEF PayOffer, Stages
<1>2. CASE CheckPayment(f)
  <2>1. ASSUME NEW r, Return(f, r) PROVE IInv'
    BY <1>2, <2>1, ReturnKeeps DEF CheckPayment
  <2>2. CASE Rejects(f, "checking")
    BY <1>2, <1>r, <2>2 DEF CheckPayment
  <2>3. CASE Go(f, "checking", "requesting") /\ UNCHANGED <<inv, seen, offerOk, route>>
    BY <1>2, <1>g, <2>3 DEF CheckPayment, Stages
  <2> QED BY <1>2, <2>1, <2>2, <2>3 DEF CheckPayment
<1>3. CASE RequestInvoice(f)
  <2>1. UNCHANGED <<tried, paid>>
    BY <1>3 DEF RequestInvoice, Rejects
  <2>2. ASSUME NEW a \in Attempts, NEW to \in {"minting", "rechecking"}, Go(f, "requesting", to),
               inv' = [inv EXCEPT ![f] = a], UNCHANGED route
        PROVE  IInv'
    <3>1. at' = [at EXCEPT ![f] = to]
      BY <2>2 DEF Go
    <3>2. Shape' /\ \A g \in Flows \ {f} : inv'[g] = inv[g]
      BY <2>2, <3>1 DEF IInv, Shape, Stages
    <3> QED BY <2>1, <2>2, <3>1, <3>2, OtherStage DEF Stages
  <2>3. ASSUME Fresh # {} PROVE (CHOOSE b \in Fresh : TRUE) \in Attempts
    BY <2>3 DEF Fresh
  <2>4. ASSUME NEW r, Return(f, r) PROVE IInv'
    BY <2>1, <2>4, ReturnKeeps
  <2> QED BY <1>3, <1>r, <2>1, <2>2, <2>3, <2>4 DEF RequestInvoice
<1>4. CASE ReceiveInvoice(f)
  BY <1>4, <1>r, <1>g DEF ReceiveInvoice, Rejects, Stages
<1>5. CASE Recheck(f)
  BY <1>5, <1>r, <1>g DEF Recheck, Stages
<1>6. CASE TryRoute(f)
  <2> DEFINE found == IF seen[f].status = "report" THEN DryRun(inv[f]) ELSE "none"
  <2>1. /\ at' = [at EXCEPT ![f] = "trying_own"] /\ route' = [route EXCEPT ![f] = found]
        /\ tried \subseteq tried' /\ (found = "ok" => inv[f] \in tried')
        /\ UNCHANGED <<inv, paid>>
    BY <1>6 DEF TryRoute, Tries, Go
  <2>2. found \in {"none", "ok", "failed"}
    BY DEF DryRun
  <2> HIDE DEF found
  <2>3. /\ Shape' /\ at'[f] = "trying_own" /\ route'[f] = found
        /\ \A g \in Flows \ {f} : at'[g] = at[g] /\ route'[g] = route[g]
    BY <2>1, <2>2 DEF IInv, Shape, Stages
  <2> QED BY <2>1, <2>3 DEF IInv, DryRunBeforeFunds
<1> QED BY <1>1, <1>2, <1>3, <1>4, <1>5, <1>6, DecideKeeps, DryRunFailsKeeps, SendKeeps DEF FlowStep

\* Whatever options the callers give, however their requests interleave and
\* fail, and whatever the resolver sees of the channels: an invoice is paid
\* only after a dry run found a route for it.
THEOREM NoFundsWithoutDryRun == SafetySpec => []DryRunBeforeFunds
<1>1. Init => IInv
  <2> SUFFICES ASSUME Init PROVE IInv
    OBVIOUS
  <2>1. (CHOOSE a \in Attempts : TRUE) \in Attempts
    BY LedgerAssumption
  <2> QED BY <2>1 DEF Init, IInv, Shape, Stages, DryRunBeforeFunds
<1>2. IInv /\ [Next]_vars => IInv'
  <2> SUFFICES ASSUME IInv, [Next]_vars PROVE IInv'
    OBVIOUS
  <2>1. ASSUME UNCHANGED <<sessionVars, paid, tried>> PROVE IInv'
    BY <2>1 DEF sessionVars, IInv, Shape, DryRunBeforeFunds
  <2>2. ASSUME NEW a \in Attempts, Settle(a) PROVE IInv'
    BY <2>1, <2>2 DEF Settle
  <2>3. CASE WorldChanges \/ Revoked
    BY <2>1, <2>3 DEF WorldChanges, Revoked
  <2>4. CASE UNCHANGED vars
    BY <2>1, <2>4 DEF vars
  <2> QED BY <2>2, <2>3, <2>4, FlowKeeps DEF Next
<1>3. IInv => DryRunBeforeFunds
  BY DEF IInv
<1> QED BY <1>1, <1>2, <1>3, PTL DEF SafetySpec

-----------------------------------------------------------------------------
(* Types of the payment session. *)

Sights == {Blind, Broken} \cup [status : {"report"}, of : World]

\* what a flow holds
FlowsOK ==
  /\ at \in [Flows -> Stages]
  /\ opts \in [Flows -> Option]
  /\ inv \in [Flows -> Attempts]
  /\ seen \in [Flows -> Sights]
  /\ offerOk \in [Flows -> BOOLEAN]
  /\ route \in [Flows -> {"none", "ok", "failed"}]
  /\ result \in [Flows -> Result]

\* what everybody shares
PairOK ==
  /\ world \in World /\ paired \in BOOLEAN
  /\ paid \subseteq Attempts /\ tried \subseteq Attempts
  /\ faults \in 0 .. MaxFaults

LEMMA TypeParts == TypeOK <=> LedgerTypeOK /\ FlowsOK /\ PairOK
BY DEF TypeOK, FlowsOK, PairOK, Stages, Sights

LEMMA TypePartsNext == LedgerTypeOK' /\ FlowsOK' /\ PairOK' => TypeOK'
BY DEF TypeOK, FlowsOK, PairOK, Stages, Sights

\* a flow goes on or returns
LEMMA GoTypes ==
  ASSUME FlowsOK, NEW f \in Flows, NEW from, NEW to \in Stages, Go(f, from, to),
         NEW a \in Attempts, NEW t \in Sights, NEW ok \in BOOLEAN, NEW r \in {"none", "ok", "failed"},
         inv' = inv \/ inv' = [inv EXCEPT ![f] = a],
         seen' = seen \/ seen' = [seen EXCEPT ![f] = t],
         offerOk' = offerOk \/ offerOk' = [offerOk EXCEPT ![f] = ok],
         route' = route \/ route' = [route EXCEPT ![f] = r]
  PROVE  FlowsOK'
BY DEF FlowsOK, Go

LEMMA StaysTypes ==
  ASSUME FlowsOK, NEW f \in Flows, NEW from, NEW to \in Stages, Go(f, from, to),
         UNCHANGED <<inv, seen, offerOk, route>>
  PROVE  FlowsOK'
BY DEF FlowsOK, Go

LEMMA ReturnTypes ==
  ASSUME FlowsOK, NEW f \in Flows, NEW r \in Result, Return(f, r)
  PROVE  FlowsOK'
BY DEF FlowsOK, Return, Stages, Sights

LEMMA RejectTypes ==
  ASSUME FlowsOK, PairOK, NEW f \in Flows, NEW from, Rejects(f, from)
  PROVE  FlowsOK' /\ PairOK'
<1>1. FlowsOK'
  BY ReturnTypes DEF Rejects, Result
<1>2. PairOK'
  BY SessionAssumption DEF Rejects, PairOK
<1> QED BY <1>1, <1>2

LEMMA SeesTypes ==
  ASSUME PairOK, NEW t, Sees(t)
  PROVE  /\ t \in Sights /\ world' = world /\ paired' = paired
         /\ faults' \in 0 .. MaxFaults
BY SessionAssumption DEF PairOK, Sees, Unfaulted, Sights, Report

\* A payment takes its amount from balances that have it.
LEMMA SpendTypes ==
  ASSUME NEW w \in World, NEW r \in Routes(w)
  PROVE  Spend(w, r) \in World
<1>1. Amount \in Nat /\ \A u \in Units : u \in Nat /\ (u >= Amount => u - Amount \in Units)
  <2>1. Amount \in Nat /\ Units \subseteq Nat
    BY SessionAssumption, LedgerAssumption
  <2>2. ASSUME NEW u \in Units, u >= Amount PROVE u - Amount \in Units
    <3>1. u - Amount \in 0 .. u
      BY <2>1, <2>2
    <3> QED BY <3>1, SessionAssumption
  <2> QED BY <2>1, <2>2
<1>2. CASE r = "direct"
  <2>1. w.direct >= Amount
    BY <1>2 DEF Routes
  <2> QED BY <1>1, <1>2, <2>1 DEF World, Spend
<1>3. CASE r # "direct"
  <2>1. w.hub >= Amount /\ w.beyond >= Amount
    BY <1>3 DEF Routes
  <2> QED BY <1>1, <1>3, <2>1 DEF World, Spend
<1> QED BY <1>2, <1>3

LEMMA RequestTypes ==
  ASSUME TypeOK, NEW f \in Flows, RequestInvoice(f)
  PROVE  TypeOK'
<1> DEFINE k == opts[f].key
           a == CHOOSE b \in Fresh : TRUE
<1>t. LedgerTypeOK /\ FlowsOK /\ PairOK
  BY TypeParts
<1>k. k \in Keys \cup {NoKey} /\ Request0 \in Request
  BY <1>t, SessionAssumption DEF FlowsOK, Option, Request0, Request
<1>a. Fresh # {} => a \in Attempts
  BY DEF Fresh
<1>p. ASSUME UNCHANGED <<paid, tried>>, Unfaulted PROVE PairOK'
  BY <1>t, <1>p DEF PairOK, Unfaulted
<1>l. PICK c \in Attempts : TRUE
  BY LedgerAssumption
<1> HIDE DEF k, a
<1>1. CASE Fresh # {} /\ Reserve(a, k, Request0) /\ Go(f, "requesting", "minting")
           /\ inv' = [inv EXCEPT ![f] = a] /\ UNCHANGED <<seen, offerOk, route, paid, tried>> /\ Unfaulted
  <2>1. LedgerTypeOK'
    BY <1>1, <1>a, <1>k, <1>t, LedgerTypes
  <2>2. FlowsOK'
    BY <1>1, <1>a, <1>t DEF FlowsOK, Go, Stages
  <2> QED BY <1>1, <1>p, <2>1, <2>2, TypePartsNext
<1>2. ASSUME NEW b \in Attempts, Replay(k, Request0, b), Go(f, "requesting", "rechecking"),
             inv' = [inv EXCEPT ![f] = b], UNCHANGED <<seen, offerOk, route, paid, tried>>, Unfaulted
      PROVE  TypeOK'
  <2>1. LedgerTypeOK'
    BY <1>2, <1>k, <1>t, LedgerTypes
  <2>2. FlowsOK'
    BY <1>2, <1>t DEF FlowsOK, Go, Stages
  <2> QED BY <1>2, <1>p, <2>1, <2>2, TypePartsNext
<1>3. CASE Fresh # {} /\ Refuse(a, k, Request0) /\ Return(f, "thrown") /\ UNCHANGED <<paid, tried>>
           /\ Unfaulted
  <2>1. LedgerTypeOK'
    BY <1>3, <1>a, <1>k, <1>t, LedgerTypes
  <2>2. FlowsOK'
    BY <1>3, <1>t, ReturnTypes DEF Result
  <2> QED BY <1>3, <1>p, <2>1, <2>2, TypePartsNext
<1>4. CASE UNCHANGED ledgerVars /\ Rejects(f, "requesting")
  <2>1. LedgerTypeOK'
    BY <1>4, <1>k, <1>l, <1>t, LedgerTypes
  <2> QED BY <1>4, <1>t, <2>1, RejectTypes, TypePartsNext
<1> QED BY <1>1, <1>2, <1>3, <1>4 DEF RequestInvoice, k, a

\* The steps of a flow that leave the store alone.
LEMMA QuietTypes ==
  ASSUME TypeOK, UNCHANGED ledgerVars, FlowsOK', PairOK'
  PROVE  TypeOK'
<1>1. LedgerTypeOK /\ LedgerTypeOK'
  BY TypeParts DEF LedgerTypeOK, ledgerVars
<1> QED BY <1>1, TypePartsNext

LEMMA CheckTypes ==
  ASSUME TypeOK, NEW f \in Flows, PayOffer(f) \/ CheckPayment(f) \/ Recheck(f)
  PROVE  TypeOK'
<1>t. FlowsOK /\ PairOK
  BY TypeParts
<1>s. {"checking", "requesting", "trying"} \subseteq Stages
  BY DEF Stages
<1>r. ASSUME NEW from, Rejects(f, from), UNCHANGED ledgerVars PROVE TypeOK'
  BY <1>r, <1>t, RejectTypes, QuietTypes
<1>1. CASE PayOffer(f)
  <2>1. PairOK'
    BY <1>1, <1>t DEF PayOffer, PairOK, Unfaulted
  <2>2. FlowsOK'
    BY <1>1, <1>s, <1>t, StaysTypes DEF PayOffer
  <2> QED BY <1>1, <2>1, <2>2, QuietTypes DEF PayOffer
<1>2. CASE CheckPayment(f)
  <2>1. CASE Rejects(f, "checking")
    BY <1>2, <1>r, <2>1 DEF CheckPayment
  <2>2. ASSUME NEW t, Sees(t), \/ Return(f, "blocked_before_invoice")
                               \/ /\ Go(f, "checking", "requesting")
                                  /\ UNCHANGED <<inv, seen, offerOk, route>>
        PROVE  TypeOK'
    <3>1. PairOK'
      BY <1>2, <1>t, <2>2, SeesTypes DEF CheckPayment, PairOK
    <3>2. FlowsOK'
      BY <1>s, <1>t, <2>2, StaysTypes, ReturnTypes DEF Result
    <3> QED BY <1>2, <3>1, <3>2, QuietTypes DEF CheckPayment
  <2> QED BY <1>2, <2>1, <2>2 DEF CheckPayment
<1>3. CASE Recheck(f)
  <2>1. CASE Rejects(f, "rechecking")
    BY <1>3, <1>r, <2>1 DEF Recheck
  <2>2. ASSUME NEW t, Sees(t), Go(f, "rechecking", "trying"), seen' = [seen EXCEPT ![f] = t],
               offerOk' = [offerOk EXCEPT ![f] = OfferPasses], UNCHANGED <<inv, route>>
        PROVE  TypeOK'
    <3>1. PairOK'
      BY <1>3, <1>t, <2>2, SeesTypes DEF Recheck, PairOK
    <3>2. OfferPasses \in BOOLEAN /\ t \in Sights
      BY <1>t, <2>2, SeesTypes, TypeParts DEF OfferPasses, LedgerTypeOK
    <3>3. FlowsOK'
      BY <1>s, <1>t, <2>2, <3>2 DEF FlowsOK, Go
    <3> QED BY <1>3, <3>1, <3>3, QuietTypes DEF Recheck
  <2> QED BY <1>3, <2>1, <2>2 DEF Recheck
<1> QED BY <1>1, <1>2, <1>3

LEMMA InvoiceTypes ==
  ASSUME TypeOK, NEW f \in Flows, ReceiveInvoice(f)
  PROVE  TypeOK'
<1>t. LedgerTypeOK /\ FlowsOK /\ PairOK
  BY TypeParts
<1>1. inv[f] \in Attempts /\ NoKey \in Keys \cup {NoKey} /\ Request0 \in Request
  BY <1>t, SessionAssumption DEF FlowsOK, Request0, Request
<1>2. LedgerTypeOK'
  BY <1>1, <1>t, LedgerTypes DEF ReceiveInvoice
<1>3. CASE Rejects(f, "minting")
  BY <1>2, <1>3, <1>t, RejectTypes, TypePartsNext
<1>4. CASE Go(f, "minting", "rechecking") /\ UNCHANGED <<inv, seen, offerOk, route, paid, tried>> /\ Unfaulted
  <2>1. FlowsOK'
    BY <1>4, <1>t, StaysTypes DEF Stages
  <2>2. PairOK'
    BY <1>4, <1>t DEF PairOK, Unfaulted
  <2> QED BY <1>2, <2>1, <2>2, TypePartsNext
<1> QED BY <1>3, <1>4 DEF ReceiveInvoice

LEMMA TryTypes ==
  ASSUME TypeOK, NEW f \in Flows, TryRoute(f) \/ Decide(f) \/ DryRunFails(f) \/ SendPayment(f)
  PROVE  TypeOK'
<1>t. FlowsOK /\ PairOK /\ inv[f] \in Attempts
  BY TypeParts DEF FlowsOK
<1>d. DryRun(inv[f]) \in {"ok", "failed"} /\ (Tries(inv[f]) => tried' \subseteq Attempts)
  BY <1>t DEF DryRun, Tries, PairOK
<1>1. CASE TryRoute(f)
  <2> DEFINE found == IF seen[f].status = "report" THEN DryRun(inv[f]) ELSE "none"
  <2>1. PairOK'
    BY <1>1, <1>d, <1>t DEF TryRoute, PairOK, Unfaulted
  <2>2. found \in {"none", "ok", "failed"}
    BY <1>d
  <2>3. route' = [route EXCEPT ![f] = found] /\ Go(f, "trying", "trying_own")
        /\ UNCHANGED <<inv, seen, offerOk>>
    BY <1>1 DEF TryRoute
  <2> HIDE DEF found
  <2>4. FlowsOK'
    BY <1>t, <2>2, <2>3 DEF FlowsOK, Go, Stages
  <2> QED BY <1>1, <2>1, <2>4, QuietTypes DEF TryRoute
<1>2. CASE Decide(f)
  <2>1. PairOK'
    BY <1>2, <1>d, <1>t DEF Decide, PairOK, Unfaulted
  <2>2. ASSUME NEW r, Concludes(f, r) PROVE FlowsOK'
    BY <1>t, <2>2, StaysTypes, ReturnTypes DEF Concludes, Result, Stages
  <2>3. FlowsOK'
    BY <1>2, <2>2 DEF Decide
  <2> QED BY <1>2, <2>1, <2>3, QuietTypes DEF Decide
<1>3. CASE SendPayment(f)
  <2>1. FlowsOK'
    BY <1>3, <1>t, ReturnTypes DEF SendPayment, Result
  <2>2. world' \in World /\ paid' \subseteq Attempts /\ faults' \in 0 .. MaxFaults
    <3>1. CASE /\ paid' = paid \cup {inv[f]} /\ \E r \in Routes(world) : world' = Spend(world, r)
               /\ faults' = faults \/ (faults < MaxFaults /\ faults' = faults + 1)
      BY <1>t, <3>1, SpendTypes, SessionAssumption DEF PairOK
    <3>2. CASE /\ UNCHANGED <<paid, world>>
               /\ faults' = faults \/ (faults < MaxFaults /\ faults' = faults + 1)
      BY <1>t, <3>2, SessionAssumption DEF PairOK
    <3> QED BY <1>3, <3>1, <3>2 DEF SendPayment
  <2>3. PairOK' /\ UNCHANGED ledgerVars
    BY <1>3, <1>t, <2>2 DEF SendPayment, PairOK
  <2> QED BY <2>1, <2>3, QuietTypes
<1>4. CASE DryRunFails(f)
  <2>1. PairOK' /\ UNCHANGED ledgerVars
    BY <1>4, <1>t, SessionAssumption DEF DryRunFails, PairOK
  <2>2. ASSUME NEW r, Concludes(f, r) PROVE FlowsOK'
    BY <1>t, <2>2, StaysTypes, ReturnTypes DEF Concludes, Result, Stages
  <2>3. ASSUME Go(f, "trying", "trying_own"), route' = [route EXCEPT ![f] = "failed"],
               UNCHANGED <<inv, seen, offerOk>>
        PROVE  FlowsOK'
    BY <1>t, <2>3 DEF FlowsOK, Go, Stages
  <2>4. FlowsOK'
    BY <1>4, <2>2, <2>3 DEF DryRunFails
  <2> QED BY <2>1, <2>4, QuietTypes
<1> QED BY <1>1, <1>2, <1>3, <1>4

LEMMA OthersTypes ==
  ASSUME TypeOK, WorldChanges \/ Revoked \/ \E a \in Attempts : Settle(a)
  PROVE  TypeOK'
<1>t. LedgerTypeOK /\ FlowsOK /\ PairOK
  BY TypeParts
<1>f. ASSUME UNCHANGED sessionVars PROVE FlowsOK'
  BY <1>f, <1>t DEF sessionVars, FlowsOK
<1>1. CASE WorldChanges
  <2>1. ASSUME NEW l \in {"direct", "payer_hub", "merchant_hub"},
               world' = [world EXCEPT !.up = IF l \in world.up THEN world.up \ {l} ELSE world.up \cup {l}]
        PROVE  world' \in World
    <3> DEFINE up == IF l \in world.up THEN world.up \ {l} ELSE world.up \cup {l}
    <3>1. up \in SUBSET {"direct", "payer_hub", "merchant_hub"}
      BY <1>t DEF PairOK, World
    <3> HIDE DEF up
    <3> QED BY <1>t, <2>1, <3>1 DEF PairOK, World, up
  <2>2. world' \in World
    BY <1>1, <1>t, <2>1 DEF WorldChanges, PairOK, World
  <2>3. PairOK'
    BY <1>1, <1>t, <2>2, SessionAssumption DEF WorldChanges, PairOK
  <2> QED BY <1>1, <1>f, <2>3, QuietTypes DEF WorldChanges
<1>2. CASE Revoked
  <2>1. LedgerTypeOK'
    BY <1>2, <1>t DEF Revoked, Revoke, LedgerTypeOK
  <2>2. PairOK'
    BY <1>2, <1>t, SessionAssumption DEF Revoked, PairOK
  <2> QED BY <1>2, <1>f, <2>1, <2>2, TypePartsNext DEF Revoked
<1>3. ASSUME NEW a \in Attempts, Settle(a) PROVE TypeOK'
  <2>1. LedgerTypeOK'
    BY <1>3, <1>t DEF Settle, UpdateStatus, LedgerTypeOK, Statuses
  <2>2. PairOK'
    BY <1>3, <1>t, SessionAssumption DEF Settle, PairOK
  <2> QED BY <1>3, <1>f, <2>1, <2>2, TypePartsNext DEF Settle
<1> QED BY <1>1, <1>2, <1>3

\* Types; balances stay balances, whatever routes payments take.
THEOREM SessionTypeCorrect == SafetySpec => []TypeOK
<1>1. Init => TypeOK
  <2> SUFFICES ASSUME Init PROVE TypeOK
    OBVIOUS
  <2>1. LedgerTypeOK
    BY NoTermsType DEF Init, LedgerInit, LedgerTypeOK, Statuses
  <2>2. opts \in [Flows -> Option]
    BY SessionAssumption DEF Init
  <2>3. (CHOOSE a \in Attempts : TRUE) \in Attempts
    BY LedgerAssumption
  <2>4. FlowsOK
    BY <2>2, <2>3 DEF Init, FlowsOK, Stages, Result, Sights
  <2>5. PairOK
    BY SessionAssumption DEF Init, PairOK
  <2> QED BY <2>1, <2>4, <2>5, TypeParts
<1>2. TypeOK /\ [Next]_vars => TypeOK'
  <2> SUFFICES ASSUME TypeOK, [Next]_vars PROVE TypeOK'
    OBVIOUS
  <2>1. CASE Next
    BY <2>1, RequestTypes, CheckTypes, InvoiceTypes, TryTypes, OthersTypes DEF Next, FlowStep
  <2>2. CASE UNCHANGED vars
    <3>1. FlowsOK' /\ PairOK' /\ UNCHANGED ledgerVars
      BY <2>2, TypeParts DEF vars, sessionVars, FlowsOK, PairOK
    <3> QED BY <3>1, QuietTypes
  <2> QED BY <2>1, <2>2
<1> QED BY <1>1, <1>2, PTL DEF SafetySpec

-----------------------------------------------------------------------------
(* A standing route. *)

NoneFails(checks) == \A c \in checks : c.status # "fail"

LEMMA VerdictsPass ==
  ASSUME NEW id, NEW verdicts, "fail" \notin verdicts
  PROVE  NoneFails(Checked(id, verdicts))
BY DEF NoneFails, Checked

\* a route that the reports of w show
Stands(w) ==
  LET r == Routes(w)
  IN "direct" \in r \/ ("hub" \in r /\ ~("direct" \in w.up /\ w.direct > 0))

\* what the report on two nodes with a standing route says
ShowsRoute(topology) ==
  /\ topology.status \in {"opening", "blocked", "degraded", "ready"}
  /\ UsableDirect(topology) \/ SharedOnline(topology)
  /\ UsableDirect(topology) => topology.direct_channel.payer_local >= Amount

LEMMA StandingIsShown ==
  ASSUME NEW w \in World, Stands(w), NEW topology \in Topologies(Report(w))
  PROVE  ShowsRoute(topology)
<1> DEFINE p == PayerInspected(w)
           m == MerchantInspected(w)
           pcs == <<Ready("merchant", w.direct, 0), Ready("hub", w.hub, 0)>>
           mcs == <<Ready("payer", 0, w.direct), Ready("hub", 0, w.beyond)>>
           ppeers == Peers("merchant", "payer_hub", w)
           mpeers == Peers("payer", "merchant_hub", w)
<1>u. Amount \in Nat /\ Amount > 0 /\ w.direct \in Nat /\ w.hub \in Nat /\ w.beyond \in Nat
  <2>1. Amount \in Nat /\ Amount # 0
    BY SessionAssumption, LedgerAssumption
  <2>2. w.direct \in Nat /\ w.hub \in Nat /\ w.beyond \in Nat
    BY SessionAssumption DEF World
  <2> QED BY <2>1, <2>2
<1>1. topology = AnalyzeTopology(p, m, {"payer", "merchant"})
  <2> HIDE DEF p, m
  <2>1. Report(w).status = "report" /\ Report(w).of = w
    BY DEF Report
  <2> QED BY <2>1 DEF Topologies, p, m
<1>2. /\ DOMAIN pcs = {1, 2} /\ pcs[1] = Ready("merchant", w.direct, 0) /\ pcs[2] = Ready("hub", w.hub, 0)
      /\ DOMAIN mcs = {1, 2} /\ mcs[1] = Ready("payer", 0, w.direct) /\ mcs[2] = Ready("hub", 0, w.beyond)
  OBVIOUS
<1>3. /\ p.pubkey = "payer" /\ p.peers = ppeers
      /\ p.channels.counterparties = SummarizeCounterparties(pcs, ppeers)
      /\ m.pubkey = "merchant" /\ m.peers = mpeers
      /\ m.channels.counterparties = SummarizeCounterparties(mcs, mpeers)
  BY DEF PayerInspected, MerchantInspected, Inspected, SummarizeChannels
<1> HIDE DEF p, m, pcs, mcs
<1>4. Enabled(pcs) = {1, 2} /\ Enabled(mcs) = {1, 2}
  BY <1>2 DEF Enabled, Ready
<1>5. /\ DOMAIN p.channels.counterparties = {"merchant", "hub"}
      /\ DOMAIN m.channels.counterparties = {"payer", "hub"}
  BY <1>2, <1>3, <1>4 DEF SummarizeCounterparties, CounterpartiesOf, Ready
<1>6. p.channels.counterparties["merchant"].local = w.direct
  <2>1. With(pcs, {1, 2}, "merchant") = {1}
    BY <1>2 DEF With, Ready
  <2>2. pcs[1]["local"] = w.direct
    BY <1>2 DEF Ready
  <2>3. Total(pcs, {1}, "local") = w.direct
    BY <1>u, <2>2, TotalOfOne
  <2>4. p.channels.counterparties["merchant"].local
          = Total(pcs, With(pcs, {1, 2}, "merchant"), "local")
    BY <1>3, <1>4, <1>5 DEF SummarizeCounterparties
  <2> QED BY <2>1, <2>3, <2>4
<1>7. /\ "merchant" \in ppeers <=> "direct" \in w.up
      /\ "hub" \in ppeers <=> "payer_hub" \in w.up
      /\ "hub" \in mpeers <=> "merchant_hub" \in w.up
  BY DEF Peers
<1> HIDE DEF ppeers, mpeers
<1>8. /\ topology.direct_channel = DirectChannel(p, m)
      /\ topology.online_common = CommonCounterparties(p, m) \cap p.peers \cap m.peers
      /\ topology.status \in {"opening", "blocked", "degraded", "ready"}
  BY <1>1 DEF AnalyzeTopology
<1>9. /\ DirectChannel(p, m).payer_local = w.direct
      /\ DirectChannel(p, m).usable <=> w.direct > 0 /\ "direct" \in w.up
  BY <1>3, <1>5, <1>6, <1>7 DEF DirectChannel, Lists
<1>10. SharedOnline(topology) <=> "payer_hub" \in w.up /\ "merchant_hub" \in w.up
  BY <1>3, <1>5, <1>7, <1>8 DEF SharedOnline, CommonCounterparties
<1>11. \/ "direct" \in w.up /\ w.direct >= Amount
       \/ /\ "payer_hub" \in w.up /\ "merchant_hub" \in w.up
          /\ ~("direct" \in w.up /\ w.direct > 0)
  BY DEF Stands, Routes
<1> QED BY <1>u, <1>8, <1>9, <1>10, <1>11 DEF ShowsRoute, UsableDirect

\* what a resolver sees while a route stands: nothing at all, or the route
Clear(s) == s = Blind \/ \E w \in World : Stands(w) /\ s = Report(w)

LEMMA ClearIsShown ==
  ASSUME NEW s, Clear(s), NEW topology \in Topologies(s)
  PROVE  (topology = Blind /\ s = Blind) \/ ShowsRoute(topology)
<1>1. CASE s = Blind
  BY <1>1 DEF Topologies, Blind
<1>2. CASE \E w \in World : Stands(w) /\ s = Report(w)
  BY <1>2, StandingIsShown
<1> QED BY <1>1, <1>2 DEF Clear

LEMMA ChecksPass ==
  ASSUME NEW topology, topology = Blind \/ ShowsRoute(topology), NEW asset
  PROVE  NoneFails(TopologyChecks(topology, Amount, asset))
<1>1. CASE topology = Blind
  BY <1>1 DEF TopologyChecks, Blind, NoneFails
<1>2. CASE ShowsRoute(topology)
  <2>1. TopologyVerdict(topology) # "fail" /\ RouteCandidateVerdict(topology) # "fail"
    BY <1>2 DEF ShowsRoute, TopologyVerdict, RouteCandidateVerdict
  <2>2. "fail" \notin AmountLiquidityVerdict(topology, Amount)
    BY <1>2 DEF ShowsRoute, AmountLiquidityVerdict, UsableDirect
  <2>3. AssetLiquidityVerdict(topology, asset) # "fail" /\ "fail" \notin PendingTlcVerdict(topology)
    BY DEF AssetLiquidityVerdict, PendingTlcVerdict
  <2>4. /\ NoneFails(Checked("topology", {TopologyVerdict(topology)}))
        /\ NoneFails(Checked("direct_channel", {RouteCandidateVerdict(topology)}))
        /\ NoneFails(Checked("amount_liquidity", AmountLiquidityVerdict(topology, Amount)))
        /\ NoneFails(Checked("asset_liquidity", {AssetLiquidityVerdict(topology, asset)}))
        /\ NoneFails(Checked("pending_tlcs", PendingTlcVerdict(topology)))
    BY <2>1, <2>2, <2>3, VerdictsPass
  <2>5. topology.status # "none" /\ Reports(topology)
    BY <1>2 DEF ShowsRoute, Reports
  <2> QED BY <2>4, <2>5 DEF TopologyChecks, NoneFails
<1> QED BY <1>1, <1>2

\* While a route stands, the answer about an offer that passes is yes.
LEMMA ClearIsReady ==
  ASSUME NEW s, Clear(s), NEW tryout \in {"none", "ok"}, NEW invoice,
         NEW r \in Readiness(TRUE, s, tryout, invoice)
  PROVE  /\ r.ready /\ r.route = tryout
         /\ s # Blind \/ tryout = "ok" => r.payable = "yes"
<1> DEFINE topology == CHOOSE t \in Topologies(s) : r = AnalyzePaymentReadiness(OfferChecks(TRUE), t, Amount, "ckb", tryout, invoice)
           checks == OfferChecks(TRUE) \cup TopologyChecks(topology, Amount, "ckb")
                                       \cup RouteDryRunCheck(tryout, invoice)
           ready == \A c \in checks : c.status # "fail"
           payable == Payable(ready, topology, tryout)
           sure == Confidence(ready, topology, tryout)
           action == NextAction(ready, tryout, invoice)
<1>1. /\ topology \in Topologies(s)
      /\ r = AnalyzePaymentReadiness(OfferChecks(TRUE), topology, Amount, "ckb", tryout, invoice)
  BY DEF Readiness
<1>2. (topology = Blind /\ s = Blind) \/ ShowsRoute(topology)
  BY <1>1, ClearIsShown
<1> HIDE DEF topology
<1>3. ready
  <2>1. NoneFails(OfferChecks(TRUE))
    BY VerdictsPass DEF OfferChecks
  <2>2. NoneFails(RouteDryRunCheck(tryout, invoice))
    <3>1. CASE tryout = "ok"
      BY <3>1, VerdictsPass DEF RouteDryRunCheck
    <3>2. CASE tryout = "none"
      BY <3>2, VerdictsPass DEF RouteDryRunCheck
    <3> QED BY <3>1, <3>2
  <2>3. NoneFails(TopologyChecks(topology, Amount, "ckb"))
    BY <1>2, ChecksPass
  <2>4. NoneFails(checks)
    BY <2>1, <2>2, <2>3 DEF NoneFails
  <2> QED BY <2>4 DEF NoneFails
<1>4. r = [ready |-> ready, payable |-> payable, confidence |-> sure, next_action |-> action,
           checks |-> checks, route |-> tryout]
  BY <1>1 DEF AnalyzePaymentReadiness
<1>5. s # Blind \/ tryout = "ok" => payable = "yes"
  <2> HIDE DEF checks
  <2>1. CASE tryout = "ok"
    BY <1>3, <2>1 DEF Payable
  <2>2. CASE tryout = "none" /\ s # Blind
    BY <1>2, <1>3, <2>2 DEF Payable, Confidence, ShowsRoute, Reports
  <2> QED BY <2>1, <2>2
<1> HIDE DEF checks, ready, payable, sure, action
<1> QED BY <1>3, <1>4, <1>5

-----------------------------------------------------------------------------
(* A payment along a standing route. *)

Calm == RouteStands /\ faults = 0

\* the payments that SendsWhenItCan is about
Mine(f) == opts[f].execute /\ opts[f].client /\ OwnKey(f)

\* flows that hold an invoice to be paid, and those that ever asked for one
HoldingStages == {"minting", "rechecking", "trying", "trying_own", "sending"}
Holding == {f \in Flows : at[f] \in HoldingStages}
Came == {f \in Flows : at[f] \in HoldingStages \cup {"done"}}

\* nobody revokes, reservations are kept, and every record was brought by a flow
RecordsOK ==
  /\ ~revoked /\ lapsed = {} /\ paid \subseteq Stored(status)
  /\ \A a \in Stored(status) : terms[a].key # NoKey => \E g \in Came : opts[g].key = terms[a].key
  /\ \A f \in Holding : inv[f] \in Stored(status)

\* a payment under a key of its own has an invoice of its own, which stays
\* payable, and what it goes by says so
InvoiceOK(f) ==
  /\ inv[f] \notin paid /\ terms[inv[f]].key = opts[f].key
  /\ status[inv[f]] = IF at[f] = "minting" THEN "invoice_pending" ELSE "invoice_created"
  /\ \A g \in Holding \ {f} : inv[g] # inv[f]

EvidenceOK(f) ==
  /\ at[f] \in {"trying", "trying_own"} => offerOk[f] /\ Clear(seen[f])
  /\ at[f] = "trying_own" => route[f] = IF seen[f] = Blind THEN "none" ELSE "ok"

FlowOK(f) ==
  /\ result[f] \in {"none", "payment_sent"}
  /\ f \in Holding => InvoiceOK(f)
  /\ EvidenceOK(f)

\* The inductive invariant of the payments on a standing route.
RouteInv ==
  /\ TypeOK /\ RecordsOK
  /\ \A f \in Flows : Mine(f) => FlowOK(f)

-----------------------------------------------------------------------------
\* g is where it was
Same(g) ==
  /\ at'[g] = at[g] /\ inv'[g] = inv[g] /\ seen'[g] = seen[g]
  /\ offerOk'[g] = offerOk[g] /\ route'[g] = route[g] /\ result'[g] = result[g]

\* A step of one flow that leaves the invoices of the others alone does them
\* no harm.
LEMMA OthersKeep ==
  ASSUME RouteInv, NEW f \in Flows, opts' = opts, \A g \in Flows \ {f} : Same(g),
         NEW g \in Flows \ {f}, Mine(g),
         g \in Holding => /\ (inv[g] \in paid' => inv[g] \in paid)
                          /\ status'[inv[g]] = status[inv[g]] /\ terms'[inv[g]] = terms[inv[g]]
                          /\ (f \in Holding' => inv'[f] # inv[g])
  PROVE  FlowOK(g)'
<1>1. FlowOK(g) /\ Same(g)
  BY DEF RouteInv
<1>2. g \in Holding' <=> g \in Holding
  BY <1>1 DEF Same, Holding
<1>3. ASSUME g \in Holding' PROVE InvoiceOK(g)'
  <2>1. InvoiceOK(g) /\ g \in Holding
    BY <1>1, <1>2, <1>3 DEF FlowOK
  <2>2. ASSUME NEW h \in Holding' \ {g} PROVE inv'[h] # inv'[g]
    <3>1. CASE h = f
      BY <1>1, <2>1, <2>2, <3>1 DEF Same
    <3>2. CASE h # f
      <4>1. h \in Flows \ {f} /\ h \in Holding /\ inv'[h] = inv[h]
        BY <2>2, <3>2 DEF Same, Holding
      <4> QED BY <1>1, <2>1, <2>2, <4>1 DEF Same, InvoiceOK
    <3> QED BY <3>1, <3>2
  <2> QED BY <1>1, <2>1, <2>2 DEF Same, InvoiceOK
<1>4. EvidenceOK(g)'
  BY <1>1 DEF Same, FlowOK, EvidenceOK
<1> QED BY <1>1, <1>3, <1>4 DEF Same, FlowOK

LEMMA MineStays ==
  ASSUME opts' = opts
  PROVE  \A f \in Flows : Mine(f)' <=> Mine(f)
BY DEF Mine, OwnKey

\* what a flow that goes on or returns leaves alone
LEMMA GoSame ==
  ASSUME TypeOK, NEW f \in Flows, NEW from, NEW to, Go(f, from, to),
         inv' = inv \/ \E x : inv' = [inv EXCEPT ![f] = x],
         seen' = seen \/ \E x : seen' = [seen EXCEPT ![f] = x],
         offerOk' = offerOk \/ \E x : offerOk' = [offerOk EXCEPT ![f] = x],
         route' = route \/ \E x : route' = [route EXCEPT ![f] = x]
  PROVE  /\ opts' = opts /\ result' = result /\ at[f] = from /\ at'[f] = to
         /\ \A g \in Flows \ {f} : Same(g)
<1>1. FlowsOK
  BY TypeParts
<1> QED BY <1>1 DEF FlowsOK, Go, Same

LEMMA ReturnSame ==
  ASSUME TypeOK, NEW f \in Flows, NEW r, Return(f, r)
  PROVE  /\ opts' = opts /\ inv' = inv /\ at'[f] = "done" /\ result'[f] = r
         /\ \A g \in Flows \ {f} : Same(g)
<1>1. FlowsOK
  BY TypeParts
<1> QED BY <1>1 DEF FlowsOK, Return, Same

\* Who came stays come; a flow that is done holds nothing.
LEMMA StagesMove ==
  ASSUME TypeOK, NEW f \in Flows, \A g \in Flows \ {f} : Same(g)
  PROVE  /\ (at[f] \notin HoldingStages \cup {"done"} \/ at'[f] \in HoldingStages \cup {"done"})
              => Came \subseteq Came'
         /\ \A g \in Flows \ {f} : g \in Holding' <=> g \in Holding
         /\ f \in Holding' <=> at'[f] \in HoldingStages
BY DEF Same, Came, Holding

\* The calm leaves no room for a failure.
LEMMA NoFailure ==
  ASSUME TypeOK, Calm, Calm'
  PROVE  ~(faults < MaxFaults /\ faults' = faults + 1)
BY DEF Calm

LEMMA CalmIsClear ==
  ASSUME TypeOK, Calm, Calm', NEW t, Sees(t)
  PROVE  Clear(t)
<1>1. world \in World
  BY DEF TypeOK
<1>2. Stands(world)
  BY DEF Calm, RouteStands, Stands
<1> QED BY <1>1, <1>2, NoFailure DEF Sees, Clear

LEMMA RouteInvNext ==
  ASSUME TypeOK', RecordsOK', opts' = opts, \A g \in Flows : Mine(g) => FlowOK(g)'
  PROVE  RouteInv'
BY MineStays DEF RouteInv

\* The steps of a flow that leave the store and the payments alone.
LEMMA QuietKeeps ==
  ASSUME RouteInv, TypeOK', NEW f \in Flows, opts' = opts, \A g \in Flows \ {f} : Same(g),
         UNCHANGED <<ledgerVars, paid>>,
         at[f] \in HoldingStages => at'[f] \in HoldingStages \cup {"done"},
         at[f] # "done",
         at'[f] \in HoldingStages => at[f] \in HoldingStages /\ inv'[f] = inv[f],
         Mine(f) => FlowOK(f)'
  PROVE  RouteInv'
<1>1. TypeOK /\ RecordsOK
  BY DEF RouteInv
<1>2. /\ Came \subseteq Came'
      /\ \A g \in Holding' : g \in Holding /\ inv'[g] = inv[g]
  BY <1>1, StagesMove DEF Same, Holding
<1>3. RecordsOK'
  BY <1>1, <1>2 DEF RecordsOK, ledgerVars
<1>4. ASSUME NEW g \in Flows \ {f}, Mine(g) PROVE FlowOK(g)'
  <2>1. g \in Holding /\ f \in Holding' => inv'[f] # inv[g]
    BY <1>2, <1>4 DEF RouteInv, FlowOK, InvoiceOK
  <2>2. paid' = paid /\ status' = status /\ terms' = terms
    BY DEF ledgerVars
  <2> QED BY <1>4, <2>1, <2>2, OthersKeep
<1> QED BY <1>3, <1>4, RouteInvNext

LEMMA OfferStands ==
  ASSUME RouteInv, ~SingleUse
  PROVE  OfferPasses = TRUE /\ Purged = status
<1>1. status \in [Attempts -> Statuses] /\ lapsed = {} /\ ~revoked
  BY DEF RouteInv, RecordsOK, TypeOK, LedgerTypeOK
<1> QED BY <1>1 DEF OfferPasses, Purged

LEMMA CheckKeeps ==
  ASSUME RouteInv, TypeOK', Calm, Calm', ~SingleUse, NEW f \in Flows, PayOffer(f) \/ CheckPayment(f)
  PROVE  RouteInv'
<1>t. TypeOK
  BY DEF RouteInv
<1>1. ASSUME NEW from \in {"idle", "checking"}, NEW to \in {"checking", "requesting"}, Go(f, from, to),
             UNCHANGED <<ledgerVars, paid>>, UNCHANGED <<inv, seen, offerOk, route>>
      PROVE  RouteInv'
  <2>1. /\ opts' = opts /\ result' = result /\ at[f] = from /\ at'[f] = to
        /\ \A g \in Flows \ {f} : Same(g)
    BY <1>1, <1>t, GoSame
  <2>2. Mine(f) => FlowOK(f)'
    BY <1>1, <2>1 DEF RouteInv, FlowOK, EvidenceOK, Holding, HoldingStages
  <2>3. at[f] \notin HoldingStages \cup {"done"} /\ at'[f] \notin HoldingStages
    BY <1>1, <2>1 DEF HoldingStages
  <2> QED BY <1>1, <2>1, <2>2, <2>3, QuietKeeps
<1>2. CASE PayOffer(f)
  BY <1>1, <1>2 DEF PayOffer
<1>3. CASE CheckPayment(f)
  <2>1. UNCHANGED <<ledgerVars, paid>> /\ ~Rejects(f, "checking")
    BY <1>3, <1>t, NoFailure DEF CheckPayment, Rejects
  <2>2. PICK t : /\ at[f] = "checking" /\ Sees(t)
                 /\ \E r \in Readiness(OfferPasses, t, "none", FALSE) :
                      IF r.ready \/ ~opts[f].require
                      THEN Go(f, "checking", "requesting") /\ UNCHANGED <<inv, seen, offerOk, route>>
                      ELSE Return(f, "blocked_before_invoice")
    BY <1>3, <2>1 DEF CheckPayment
  <2>3. Go(f, "checking", "requesting") /\ UNCHANGED <<inv, seen, offerOk, route>>
    <3>1. Clear(t)
      BY <1>t, <2>2, CalmIsClear
    <3>2. \A r \in Readiness(OfferPasses, t, "none", FALSE) : r.ready
      <4>1. OfferPasses = TRUE
        BY OfferStands
      <4>2. ASSUME NEW r \in Readiness(TRUE, t, "none", FALSE) PROVE r.ready
        BY <3>1, <4>2, ClearIsReady
      <4> QED BY <4>1, <4>2
    <3> QED BY <2>2, <3>2
  <2> QED BY <1>1, <2>1, <2>3
<1> QED BY <1>2, <1>3

LEMMA RecheckKeeps ==
  ASSUME RouteInv, TypeOK', Calm, Calm', ~SingleUse, NEW f \in Flows, Recheck(f)
  PROVE  RouteInv'
<1>t. TypeOK
  BY DEF RouteInv
<1>1. UNCHANGED <<ledgerVars, paid>> /\ ~Rejects(f, "rechecking")
  BY <1>t, NoFailure DEF Recheck, Rejects
<1>2. PICK t : /\ Sees(t) /\ seen' = [seen EXCEPT ![f] = t]
               /\ Go(f, "rechecking", "trying") /\ offerOk' = [offerOk EXCEPT ![f] = OfferPasses]
               /\ UNCHANGED <<inv, route>>
  BY <1>1 DEF Recheck
<1>3. /\ opts' = opts /\ result' = result /\ at[f] = "rechecking" /\ at'[f] = "trying"
      /\ \A g \in Flows \ {f} : Same(g)
  BY <1>2, <1>t, GoSame
<1>4. Clear(t) /\ offerOk'[f] = TRUE /\ seen'[f] = t
  BY <1>2, <1>t, CalmIsClear, OfferStands DEF TypeOK
<1>5. at[f] \in HoldingStages /\ at'[f] \in HoldingStages
  BY <1>3 DEF HoldingStages
<1>6. ASSUME Mine(f) PROVE FlowOK(f)'
  <2>1. FlowOK(f) /\ f \in Holding
    BY <1>5, <1>6 DEF RouteInv, Holding
  <2>2. InvoiceOK(f)
    BY <2>1 DEF FlowOK
  <2>3. \A g \in Holding' \ {f} : g \in Holding /\ inv'[g] = inv[g]
    BY <1>3 DEF Same, Holding
  <2>4. inv' = inv /\ paid' = paid /\ status' = status /\ terms' = terms
    BY <1>1, <1>2 DEF ledgerVars
  <2>5. InvoiceOK(f)'
    BY <1>3, <2>2, <2>3, <2>4 DEF InvoiceOK
  <2>6. EvidenceOK(f)'
    BY <1>3, <1>4 DEF EvidenceOK
  <2> QED BY <1>3, <2>1, <2>5, <2>6 DEF FlowOK
<1> QED BY <1>1, <1>2, <1>3, <1>5, <1>6, QuietKeeps DEF HoldingStages

LEMMA TryKeeps ==
  ASSUME RouteInv, TypeOK', Calm, NEW f \in Flows, TryRoute(f)
  PROVE  RouteInv'
<1>t. TypeOK
  BY DEF RouteInv
<1> DEFINE asks == seen[f].status = "report"
           found == IF asks THEN DryRun(inv[f]) ELSE "none"
<1>1. /\ Go(f, "trying", "trying_own") /\ route' = [route EXCEPT ![f] = found]
      /\ UNCHANGED <<ledgerVars, inv, seen, offerOk, paid>>
  BY DEF TryRoute
<1>2. /\ opts' = opts /\ result' = result /\ at[f] = "trying" /\ at'[f] = "trying_own"
      /\ \A g \in Flows \ {f} : Same(g)
  <2> HIDE DEF found
  <2> QED BY <1>1, <1>t, GoSame
<1>3. at[f] \in HoldingStages /\ at'[f] \in HoldingStages
  BY <1>2 DEF HoldingStages
<1>4. ASSUME Mine(f) PROVE FlowOK(f)'
  <2>1. FlowOK(f) /\ f \in Holding
    BY <1>3, <1>4 DEF RouteInv, Holding
  <2>2. InvoiceOK(f) /\ offerOk[f] /\ Clear(seen[f])
    BY <1>2, <2>1 DEF FlowOK, EvidenceOK
  <2>3. \A g \in Holding' \ {f} : g \in Holding /\ inv'[g] = inv[g]
    BY <1>1, <1>2 DEF Same, Holding
  <2>4. InvoiceOK(f)'
    BY <1>1, <1>2, <2>2, <2>3 DEF InvoiceOK, ledgerVars
  <2>5. found = IF seen[f] = Blind THEN "none" ELSE "ok"
    <3>1. DryRun(inv[f]) = "ok"
      BY <1>2, <2>2 DEF InvoiceOK, DryRun, Acceptable, Calm, RouteStands
    <3>2. Blind.status = "none" /\ \A w : Report(w).status = "report"
      BY DEF Blind, Report
    <3>3. asks <=> seen[f] # Blind
      BY <2>2, <3>2 DEF Clear
    <3> QED BY <3>1, <3>3
  <2>6. route'[f] = found
    BY <1>1, <1>t DEF TypeOK
  <2>7. EvidenceOK(f)'
    BY <1>1, <1>2, <2>2, <2>5, <2>6 DEF EvidenceOK
  <2> QED BY <1>2, <2>1, <2>4, <2>7 DEF FlowOK
<1> QED BY <1>1, <1>2, <1>3, <1>4, QuietKeeps DEF HoldingStages

\* What the payer's own node says becomes the answer.
LEMMA MergedRecord ==
  ASSUME NEW offer, NEW topology, NEW amount, NEW asset, NEW tryout, NEW invoice
  PROVE  LET r == AnalyzePaymentReadiness(offer, topology, amount, asset, tryout, invoice)
             merged == MergeRouteCheck(r, "ok")
         IN r.ready => merged.ready /\ merged.payable = "yes"
<1> DEFINE checks == offer \cup TopologyChecks(topology, amount, asset)
                           \cup RouteDryRunCheck(tryout, invoice)
           ready == \A c \in checks : c.status # "fail"
           sure == Confidence(ready, topology, tryout)
           action == NextAction(ready, tryout, invoice)
           payable == Payable(ready, topology, tryout)
           r == AnalyzePaymentReadiness(offer, topology, amount, asset, tryout, invoice)
           merged == MergeRouteCheck(r, "ok")
<1>1. r = [ready |-> ready, payable |-> payable, confidence |-> sure, next_action |-> action,
           checks |-> checks, route |-> tryout]
  BY DEF AnalyzePaymentReadiness
<1> HIDE DEF checks, ready, sure, action, payable, r
<1>2. r.ready => merged.ready
  BY <1>1 DEF MergeRouteCheck
<1>3. r.ready => merged.payable = "yes"
  BY <1>1 DEF MergeRouteCheck
<1> QED BY <1>2, <1>3 DEF r

\* With the readiness it goes by, a payment of ours is sent.
LEMMA DecideSends ==
  ASSUME RouteInv, Calm, NEW f \in Flows, Mine(f), Decide(f)
  PROVE  Go(f, "trying_own", "sending") /\ UNCHANGED <<inv, seen, offerOk, route>>
<1>1. /\ at[f] = "trying_own" /\ f \in Holding /\ opts[f].execute /\ opts[f].client
      /\ FlowOK(f)
  BY DEF Decide, RouteInv, Mine, Holding, HoldingStages
<1>2. /\ offerOk[f] = TRUE /\ Clear(seen[f])
      /\ route[f] = IF seen[f] = Blind THEN "none" ELSE "ok"
  BY <1>1 DEF FlowOK, EvidenceOK, RouteInv, TypeOK
<1>3. DryRun(inv[f]) = "ok"
  BY <1>1 DEF FlowOK, InvoiceOK, DryRun, Acceptable, Calm, RouteStands
<1>4. ASSUME NEW r, Concludes(f, r), ReadyToSend(r)
      PROVE  Go(f, "trying_own", "sending") /\ UNCHANGED <<inv, seen, offerOk, route>>
  BY <1>1, <1>4 DEF Concludes
<1>5. PICK before \in Readiness(offerOk[f], seen[f], route[f], TRUE) :
        IF AsksOwnNode(before, opts[f].client, opts[f].forceLocal)
        THEN \E merged \in {MergeRouteCheck(before, DryRun(inv[f]))} : Concludes(f, merged)
        ELSE Concludes(f, before)
  BY DEF Decide
<1>6. /\ before.ready /\ before.route = route[f]
      /\ route[f] = "ok" => before.payable = "yes"
  <2>1. before \in Readiness(TRUE, seen[f], route[f], TRUE) /\ route[f] \in {"none", "ok"}
    BY <1>2, <1>5
  <2>2. ASSUME NEW s, Clear(s), NEW tryout \in {"none", "ok"}, NEW r \in Readiness(TRUE, s, tryout, TRUE)
        PROVE  r.ready /\ r.route = tryout /\ (tryout = "ok" => r.payable = "yes")
    BY <2>2, ClearIsReady
  <2> QED BY <1>2, <2>1, <2>2
<1>7. CASE AsksOwnNode(before, opts[f].client, opts[f].forceLocal)
  <2> DEFINE merged == MergeRouteCheck(before, "ok")
  <2>1. Concludes(f, merged)
    BY <1>3, <1>5, <1>7
  <2>2. ReadyToSend(merged)
    <3>1. PICK topology \in Topologies(seen[f]) :
            before = AnalyzePaymentReadiness(OfferChecks(offerOk[f]), topology, Amount, "ckb",
                                             route[f], TRUE)
      BY <1>5 DEF Readiness
    <3>2. merged.ready /\ merged.payable = "yes"
      BY <1>6, <3>1, MergedRecord
    <3> QED BY <3>2 DEF ReadyToSend
  <2> QED BY <1>4, <2>1, <2>2
<1>8. CASE ~AsksOwnNode(before, opts[f].client, opts[f].forceLocal)
  <2>1. route[f] = "ok"
    BY <1>1, <1>2, <1>6, <1>8 DEF AsksOwnNode
  <2> QED BY <1>4, <1>5, <1>6, <1>8, <2>1 DEF ReadyToSend
<1> QED BY <1>7, <1>8

LEMMA DecideHolds ==
  ASSUME RouteInv, TypeOK', Calm, NEW f \in Flows, Decide(f)
  PROVE  RouteInv'
<1>t. TypeOK
  BY DEF RouteInv
<1>0. at[f] = "trying_own" /\ UNCHANGED <<ledgerVars, paid>>
  BY DEF Decide
<1>1. CASE Go(f, "trying_own", "sending") /\ UNCHANGED <<inv, seen, offerOk, route>>
  <2>1. /\ opts' = opts /\ result' = result /\ at[f] = "trying_own" /\ at'[f] = "sending"
        /\ \A g \in Flows \ {f} : Same(g)
    BY <1>1, <1>t, GoSame
  <2>2. at[f] \in HoldingStages /\ at'[f] \in HoldingStages
    BY <2>1 DEF HoldingStages
  <2>3. ASSUME Mine(f) PROVE FlowOK(f)'
    <3>1. FlowOK(f) /\ f \in Holding
      BY <2>2, <2>3 DEF RouteInv, Holding
    <3>2. \A g \in Holding' \ {f} : g \in Holding /\ inv'[g] = inv[g]
      BY <2>1 DEF Same, Holding
    <3>3. InvoiceOK(f)'
      BY <1>0, <1>1, <2>1, <3>1, <3>2 DEF FlowOK, InvoiceOK, ledgerVars
    <3>4. EvidenceOK(f)'
      BY <2>1 DEF EvidenceOK
    <3> QED BY <2>1, <3>1, <3>3, <3>4 DEF FlowOK
  <2> QED BY <1>0, <1>1, <2>1, <2>2, <2>3, QuietKeeps DEF HoldingStages
<1>2. CASE ~Mine(f) /\ \E r : Return(f, r)
  <2>1. PICK r : Return(f, r)
    BY <1>2
  <2>2. /\ opts' = opts /\ inv' = inv /\ at'[f] = "done"
        /\ \A g \in Flows \ {f} : Same(g)
    BY <1>t, <2>1, ReturnSame
  <2>3. at[f] \in HoldingStages /\ at'[f] \notin HoldingStages
    BY <1>0, <2>2 DEF HoldingStages
  <2> QED BY <1>0, <1>2, <2>2, <2>3, QuietKeeps DEF HoldingStages
<1>3. (Go(f, "trying_own", "sending") /\ UNCHANGED <<inv, seen, offerOk, route>>) \/ \E r : Return(f, r)
  BY DEF Decide, Concludes
<1> QED BY <1>1, <1>2, <1>3, DecideSends

LEMMA SendHolds ==
  ASSUME RouteInv, TypeOK', Calm, Calm', NEW f \in Flows, SendPayment(f)
  PROVE  RouteInv'
<1>t. TypeOK /\ RecordsOK
  BY DEF RouteInv
<1> DEFINE a == inv[f]
           pays == Acceptable(a) /\ Routes(world) # {}
<1>1. at[f] = "sending" /\ UNCHANGED ledgerVars /\ f \in Holding /\ a \in Stored(status)
  BY <1>t DEF SendPayment, Holding, HoldingStages, RecordsOK
<1>2. \/ pays /\ paid' = paid \cup {a} /\ Return(f, "payment_sent")
      \/ ~pays /\ UNCHANGED paid /\ Return(f, "payment_failed")
  <2>1. \/ /\ pays /\ paid' = paid \cup {a}
           /\ \/ Return(f, "payment_sent")
              \/ faults < MaxFaults /\ faults' = faults + 1
        \/ /\ ~pays \/ (faults < MaxFaults /\ faults' = faults + 1)
           /\ Return(f, "payment_failed") /\ UNCHANGED paid
    BY DEF SendPayment
  <2> HIDE DEF pays, a
  <2> QED BY <1>t, <2>1, NoFailure
<1>3. PICK r : Return(f, r) /\ (pays => r = "payment_sent")
  BY <1>2
<1>4. paid \subseteq paid' /\ paid' \subseteq paid \cup {a}
  BY <1>2
<1>5. /\ opts' = opts /\ inv' = inv /\ at'[f] = "done" /\ result'[f] = r
      /\ \A g \in Flows \ {f} : Same(g)
  BY <1>t, <1>3, ReturnSame
<1>6. Came \subseteq Came' /\ Holding' \subseteq Holding /\ f \notin Holding'
  BY <1>1, <1>5, <1>t, StagesMove DEF Holding, HoldingStages
<1>7. RecordsOK'
  <2>1. status' = status /\ terms' = terms /\ lapsed' = lapsed /\ revoked' = revoked
    BY <1>1 DEF ledgerVars
  <2>2. Stored(status') = Stored(status)
    BY <2>1
  <2>3. paid' \subseteq Stored(status)
    BY <1>1, <1>4, <1>t DEF RecordsOK
  <2> QED BY <1>5, <1>6, <1>t, <2>1, <2>2, <2>3 DEF RecordsOK
<1>8. ASSUME Mine(f) PROVE FlowOK(f)'
  <2>1. InvoiceOK(f)
    BY <1>1, <1>8 DEF RouteInv, FlowOK
  <2>2. pays
    BY <1>1, <2>1 DEF InvoiceOK, Acceptable, Calm, RouteStands
  <2>3. result'[f] = "payment_sent"
    BY <1>3, <1>5, <2>2
  <2> QED BY <1>5, <1>6, <2>3 DEF FlowOK, EvidenceOK
<1>9. ASSUME NEW g \in Flows \ {f}, Mine(g) PROVE FlowOK(g)'
  <2>1. ASSUME g \in Holding
        PROVE  /\ inv[g] \in paid' => inv[g] \in paid
               /\ status'[inv[g]] = status[inv[g]] /\ terms'[inv[g]] = terms[inv[g]]
    <3>1. a # inv[g]
      BY <1>1, <1>9, <2>1 DEF RouteInv, FlowOK, InvoiceOK
    <3> QED BY <1>1, <1>4, <3>1 DEF ledgerVars
  <2> QED BY <1>5, <1>6, <1>9, <2>1, OthersKeep
<1> QED BY <1>5, <1>7, <1>8, <1>9, RouteInvNext

LEMMA ReceiveHolds ==
  ASSUME RouteInv, TypeOK', Calm, Calm', NEW f \in Flows, ReceiveInvoice(f)
  PROVE  RouteInv'
<1>t. TypeOK /\ RecordsOK
  BY DEF RouteInv
<1> DEFINE a == inv[f]
<1>1. Finalize(a) /\ Go(f, "minting", "rechecking")
      /\ UNCHANGED <<inv, seen, offerOk, route, paid>>
  BY <1>t, NoFailure DEF ReceiveInvoice, Rejects
<1>2. /\ opts' = opts /\ result' = result /\ at[f] = "minting" /\ at'[f] = "rechecking"
      /\ \A g \in Flows \ {f} : Same(g)
  BY <1>1, <1>t, GoSame
<1>3. f \in Holding /\ Came' = Came /\ Holding' = Holding
  BY <1>2 DEF Holding, Came, HoldingStages, Same
<1>4. /\ revoked' = revoked /\ terms' = terms /\ lapsed' \subseteq lapsed
      /\ status' = [status EXCEPT ![a] = "invoice_created"] /\ status[a] = "invoice_pending"
  BY <1>1 DEF Finalize
<1>5. /\ a \in Attempts /\ status'[a] = "invoice_created"
      /\ \A b \in Attempts \ {a} : status'[b] = status[b]
      /\ Stored(status') = Stored(status)
  <2>1. a \in Attempts /\ status \in [Attempts -> Statuses]
    BY <1>t DEF TypeOK, LedgerTypeOK
  <2> HIDE DEF a
  <2> QED BY <1>4, <2>1 DEF Stored
<1>6. RecordsOK'
  BY <1>1, <1>2, <1>3, <1>4, <1>5, <1>t DEF RecordsOK
<1>7. ASSUME Mine(f) PROVE FlowOK(f)'
  <2>1. FlowOK(f) /\ InvoiceOK(f)
    BY <1>3, <1>7 DEF RouteInv, FlowOK
  <2>2. InvoiceOK(f)'
    BY <1>1, <1>2, <1>3, <1>4, <1>5, <2>1 DEF InvoiceOK
  <2> QED BY <1>2, <2>1, <2>2 DEF FlowOK, EvidenceOK
<1>8. ASSUME NEW g \in Flows \ {f}, Mine(g) PROVE FlowOK(g)'
  <2>1. ASSUME g \in Holding
        PROVE  /\ inv[g] \in paid' => inv[g] \in paid
               /\ status'[inv[g]] = status[inv[g]] /\ terms'[inv[g]] = terms[inv[g]]
               /\ inv'[f] # inv[g]
    <3>1. a # inv[g] /\ inv[g] \in Attempts
      BY <1>3, <1>8, <1>t, <2>1 DEF RouteInv, FlowOK, InvoiceOK, TypeOK
    <3> QED BY <1>1, <1>4, <1>5, <3>1
  <2> QED BY <1>2, <1>8, <2>1, OthersKeep
<1> QED BY <1>2, <1>6, <1>7, <1>8, RouteInvNext

LEMMA SettleHolds ==
  ASSUME RouteInv, TypeOK', Calm, Calm', NEW a \in Attempts, Settle(a)
  PROVE  RouteInv'
<1>t. TypeOK /\ RecordsOK
  BY DEF RouteInv
<1>1. a \in paid /\ UNCHANGED <<sessionVars, paid>>
  BY <1>t DEF Settle, Calm
<1>2. /\ revoked' = revoked /\ terms' = terms /\ lapsed' \subseteq lapsed
      /\ a \in Stored(status) /\ status' = [status EXCEPT ![a] = "invoice_paid"]
  BY <1>1 DEF Settle, UpdateStatus, StatusWritable
<1>3. /\ \A b \in Attempts \ {a} : status'[b] = status[b]
      /\ Stored(status') = Stored(status)
  <2>1. status \in [Attempts -> Statuses]
    BY <1>t DEF TypeOK, LedgerTypeOK
  <2> QED BY <1>2, <2>1 DEF Stored
<1>4. /\ opts' = opts /\ Came' = Came /\ Holding' = Holding
      /\ at' = at /\ inv' = inv /\ seen' = seen /\ offerOk' = offerOk /\ route' = route
      /\ result' = result
  BY <1>1 DEF sessionVars, Came, Holding
<1>5. RecordsOK'
  BY <1>1, <1>2, <1>3, <1>4, <1>t DEF RecordsOK
<1>6. ASSUME NEW g \in Flows, Mine(g) PROVE FlowOK(g)'
  <2>1. FlowOK(g)
    BY <1>6 DEF RouteInv
  <2>2. ASSUME g \in Holding PROVE InvoiceOK(g)'
    <3>1. InvoiceOK(g) /\ inv[g] # a /\ inv[g] \in Attempts
      BY <1>1, <1>t, <2>1, <2>2 DEF FlowOK, InvoiceOK, TypeOK
    <3> QED BY <1>1, <1>2, <1>3, <1>4, <3>1 DEF InvoiceOK
  <2> QED BY <1>4, <2>1, <2>2 DEF FlowOK, EvidenceOK
<1> QED BY <1>4, <1>5, <1>6, RouteInvNext

\* A key of one's own that nobody used yet has no record.
LEMMA KeyIsFree ==
  ASSUME RouteInv, NEW f \in Flows, Mine(f), f \notin Came
  PROVE  KeyHolders(status, opts[f].key) = {}
<1>1. RecordsOK
  BY DEF RouteInv
<1>2. ASSUME NEW b \in KeyHolders(status, opts[f].key) PROVE FALSE
  <2>1. b \in Stored(status) /\ terms[b].key = opts[f].key /\ opts[f].key # NoKey
    BY <1>2 DEF KeyHolders
  <2>2. PICK g \in Came : opts[g].key = opts[f].key
    BY <1>1, <2>1 DEF RecordsOK
  <2> QED BY <2>1, <2>2 DEF Mine, OwnKey, Came
<1> QED BY <1>2

LEMMA NothingRefused ==
  ASSUME RouteInv, ~SingleUse, ~Recurring, NEW f \in Flows, Mine(f), f \notin Came,
         NEW a \in Attempts
  PROVE  ~Refuse(a, opts[f].key, Request0)
<1>1. Purged = status /\ ~revoked
  BY OfferStands DEF RouteInv, RecordsOK
<1>2. KeyHolders(status, opts[f].key) = {}
  BY KeyIsFree
<1>3. MayReserve(status, a, opts[f].key, Request0)
  BY <1>2 DEF MayReserve, CycleAccepted, CycleIndexAllows, CycleOf, Request0
<1> QED BY <1>1, <1>3 DEF Refuse

LEMMA ReserveHolds ==
  ASSUME RouteInv, TypeOK', ~SingleUse, NEW f \in Flows, NEW a \in Fresh,
         Reserve(a, opts[f].key, Request0), Go(f, "requesting", "minting"),
         inv' = [inv EXCEPT ![f] = a], UNCHANGED <<seen, offerOk, route, paid>>
  PROVE  RouteInv'
<1>t. TypeOK /\ RecordsOK
  BY DEF RouteInv
<1> DEFINE k == opts[f].key
<1>1. /\ opts' = opts /\ result' = result /\ at[f] = "requesting" /\ at'[f] = "minting"
      /\ \A g \in Flows \ {f} : Same(g)
  BY <1>t, GoSame
<1>2. /\ Came \subseteq Came' /\ f \in Came' /\ f \notin Came /\ f \notin Holding
      /\ \A g \in Flows \ {f} : g \in Holding' <=> g \in Holding
  BY <1>1 DEF Same, Holding, Came, HoldingStages
<1>3. /\ a \in Attempts /\ a \notin Stored(status) /\ revoked' = revoked
      /\ status' = [status EXCEPT ![a] = "invoice_pending"] /\ lapsed' \subseteq lapsed
      /\ terms' = [terms EXCEPT ![a] = [key |-> k, request |-> Request0, cycle |-> CycleOf(status)]]
  BY OfferStands DEF Fresh, Stored, Reserve
<1>4. /\ status'[a] = "invoice_pending" /\ terms'[a].key = k /\ inv'[f] = a
      /\ \A b \in Attempts \ {a} : status'[b] = status[b] /\ terms'[b] = terms[b]
      /\ Stored(status') = Stored(status) \cup {a}
  <2>1. status \in [Attempts -> Statuses] /\ terms \in [Attempts -> Terms] /\ inv \in [Flows -> Attempts]
    BY <1>t DEF TypeOK, LedgerTypeOK
  <2> HIDE DEF k
  <2> QED BY <1>3, <2>1 DEF Stored
<1>5. RecordsOK'
  <2>1. ~revoked' /\ lapsed' = {} /\ paid' \subseteq Stored(status')
    BY <1>3, <1>4, <1>t DEF RecordsOK
  <2>2. ASSUME NEW b \in Stored(status'), terms'[b].key # NoKey
        PROVE  \E g \in Came' : opts'[g].key = terms'[b].key
    <3>1. CASE b = a
      BY <1>1, <1>2, <1>4, <3>1
    <3>2. CASE b # a
      <4>1. b \in Stored(status) /\ terms'[b] = terms[b]
        BY <1>4, <2>2, <3>2 DEF Stored
      <4>2. PICK g \in Came : opts[g].key = terms[b].key
        BY <1>t, <2>2, <4>1 DEF RecordsOK
      <4> QED BY <1>1, <1>2, <4>1, <4>2
    <3> QED BY <3>1, <3>2
  <2>3. ASSUME NEW g \in Holding' PROVE inv'[g] \in Stored(status')
    <3>1. CASE g = f
      BY <1>4, <3>1
    <3>2. CASE g # f
      BY <1>1, <1>2, <1>4, <1>t, <2>3, <3>2 DEF RecordsOK, Same, Holding
    <3> QED BY <3>1, <3>2
  <2> QED BY <2>1, <2>2, <2>3 DEF RecordsOK
<1>6. ASSUME NEW g \in Flows \ {f}, g \in Holding PROVE inv[g] # a /\ inv[g] \in Attempts
  BY <1>3, <1>6, <1>t DEF RecordsOK, Stored
<1>7. ASSUME Mine(f) PROVE FlowOK(f)'
  <2>1. FlowOK(f)
    BY <1>7 DEF RouteInv
  <2>2. a \notin paid'
    BY <1>3, <1>t DEF RecordsOK
  <2>3. \A g \in Holding' \ {f} : inv'[g] # a
    BY <1>1, <1>2, <1>6 DEF Same, Holding
  <2>4. InvoiceOK(f)'
    BY <1>1, <1>4, <2>2, <2>3 DEF InvoiceOK
  <2> QED BY <1>1, <2>1, <2>4 DEF FlowOK, EvidenceOK
<1>8. ASSUME NEW g \in Flows \ {f}, Mine(g) PROVE FlowOK(g)'
  <2>1. g \in Holding => /\ inv[g] \in paid' => inv[g] \in paid
                         /\ status'[inv[g]] = status[inv[g]] /\ terms'[inv[g]] = terms[inv[g]]
                         /\ inv'[f] # inv[g]
    BY <1>4, <1>6
  <2> QED BY <1>1, <1>8, <2>1, OthersKeep
<1> QED BY <1>1, <1>5, <1>7, <1>8, RouteInvNext

\* An invoice is replayed to nobody whose key is his own, and the record it
\* belongs to is nobody's whose key is his own.
LEMMA ReplayHolds ==
  ASSUME RouteInv, TypeOK', ~SingleUse, NEW f \in Flows, NEW b \in Attempts,
         Replay(opts[f].key, Request0, b), Go(f, "requesting", "rechecking"),
         inv' = [inv EXCEPT ![f] = b], UNCHANGED <<seen, offerOk, route, paid>>
  PROVE  RouteInv'
<1>t. TypeOK /\ RecordsOK
  BY DEF RouteInv
<1> DEFINE k == opts[f].key
<1>1. /\ opts' = opts /\ result' = result /\ at[f] = "requesting" /\ at'[f] = "rechecking"
      /\ \A g \in Flows \ {f} : Same(g)
  BY <1>t, GoSame
<1>2. /\ Came \subseteq Came' /\ f \notin Came
      /\ \A g \in Flows \ {f} : g \in Holding' <=> g \in Holding
  BY <1>1 DEF Same, Holding, Came, HoldingStages
<1>3. /\ b \in KeyHolders(status, k) /\ status' = status /\ terms' = terms /\ revoked' = revoked
      /\ lapsed' \subseteq lapsed /\ inv'[f] = b
  BY <1>t, OfferStands DEF Replay, Replays, TypeOK
<1>4. b \in Stored(status) /\ k # NoKey /\ terms[b].key = k
  BY <1>3 DEF KeyHolders
<1>5. RecordsOK'
  <2>1. \A g \in Holding' : inv'[g] \in Stored(status')
    BY <1>1, <1>2, <1>3, <1>4, <1>t DEF RecordsOK, Same, Holding
  <2> QED BY <1>1, <1>2, <1>3, <1>t, <2>1 DEF RecordsOK
<1>6. ~Mine(f)
  BY <1>2, <1>3, KeyIsFree
<1>7. ASSUME NEW g \in Flows \ {f}, Mine(g) PROVE FlowOK(g)'
  <2>1. ASSUME g \in Holding PROVE inv'[f] # inv[g]
    <3>1. terms[inv[g]].key = opts[g].key
      BY <1>7, <2>1 DEF RouteInv, FlowOK, InvoiceOK
    <3>2. opts[g].key = k => opts[f].key # opts[g].key
      BY <1>4, <1>7 DEF Mine, OwnKey
    <3> QED BY <1>3, <1>4, <3>1, <3>2
  <2> QED BY <1>1, <1>3, <1>7, <2>1, OthersKeep
<1> QED BY <1>1, <1>5, <1>6, <1>7, RouteInvNext

\* A refused reservation ends the flow.
LEMMA RefusedHolds ==
  ASSUME RouteInv, TypeOK', ~SingleUse, NEW f \in Flows, at[f] = "requesting", ~Mine(f),
         NEW a, Refuse(a, opts[f].key, Request0), Return(f, "thrown"), UNCHANGED paid
  PROVE  RouteInv'
<1>t. TypeOK /\ RecordsOK
  BY DEF RouteInv
<1>1. /\ opts' = opts /\ inv' = inv /\ at'[f] = "done"
      /\ \A g \in Flows \ {f} : Same(g)
  BY <1>t, ReturnSame
<1>2. UNCHANGED ledgerVars
  <2>1. Purged = status /\ lapsed = {}
    BY <1>t, OfferStands DEF RecordsOK
  <2> QED BY <2>1 DEF Refuse, ledgerVars
<1>3. at'[f] \notin HoldingStages /\ at[f] \notin HoldingStages
  BY <1>1 DEF HoldingStages
<1> QED BY <1>1, <1>2, <1>3, QuietKeeps

LEMMA RequestHolds ==
  ASSUME RouteInv, TypeOK', Calm, Calm', ~SingleUse, ~Recurring, NEW f \in Flows, RequestInvoice(f)
  PROVE  RouteInv'
<1> DEFINE k == opts[f].key
           a == CHOOSE b \in Fresh : TRUE
<1>t. TypeOK
  BY DEF RouteInv
<1>a. Fresh # {} => a \in Fresh /\ a \in Attempts
  BY DEF Fresh
<1> HIDE DEF a
<1>1. CASE Fresh # {} /\ Reserve(a, k, Request0) /\ Go(f, "requesting", "minting")
           /\ inv' = [inv EXCEPT ![f] = a] /\ UNCHANGED <<seen, offerOk, route, paid>>
  BY <1>1, <1>a, ReserveHolds
<1>2. ASSUME NEW b \in Attempts, Replay(k, Request0, b), Go(f, "requesting", "rechecking"),
             inv' = [inv EXCEPT ![f] = b], UNCHANGED <<seen, offerOk, route, paid>>
      PROVE  RouteInv'
  BY <1>2, ReplayHolds
<1>3. CASE at[f] = "requesting" /\ Fresh # {} /\ Refuse(a, k, Request0) /\ Return(f, "thrown")
           /\ UNCHANGED paid
  <2>1. f \notin Came
    BY <1>3 DEF Came, HoldingStages
  <2>2. ~Mine(f)
    BY <1>3, <1>a, <2>1, NothingRefused
  <2> QED BY <1>3, <2>2, RefusedHolds
<1>4. ~Rejects(f, "requesting")
  BY <1>t, NoFailure DEF Rejects
<1> QED BY <1>1, <1>2, <1>3, <1>4 DEF RequestInvoice, a

\* For any number of payers beside each other on the same balances: while a
\* route stands that the reports show, a payment that is to be executed under a
\* key of its own is not blocked by either check, not refused and does not fail.
\* This is what SendsWhenItCan says but for the payment ever coming to its end.
THEOREM StandingRoutePays ==
  ~SingleUse /\ ~Recurring =>
    (SafetySpec /\ [](RouteStands /\ faults = 0) =>
       [](\A f \in Flows : opts[f].execute /\ opts[f].client /\ OwnKey(f)
                             => result[f] \in {"none", "payment_sent"}))
<1> SUFFICES ASSUME ~SingleUse, ~Recurring
             PROVE  SafetySpec /\ []Calm
                      => [](\A f \in Flows : Mine(f) => result[f] \in {"none", "payment_sent"})
  BY DEF Calm, Mine
<1>1. Init /\ TypeOK => RouteInv
  BY DEF Init, LedgerInit, RouteInv, RecordsOK, Stored, Holding, HoldingStages, FlowOK, EvidenceOK
<1>2. RouteInv /\ TypeOK /\ TypeOK' /\ Calm /\ Calm' /\ [Next]_vars => RouteInv'
  <2> SUFFICES ASSUME RouteInv, TypeOK, TypeOK', Calm, Calm', [Next]_vars PROVE RouteInv'
    OBVIOUS
  <2>1. ASSUME NEW f \in Flows, FlowStep(f) PROVE RouteInv'
    <3>1. ~DryRunFails(f)
      BY NoFailure DEF DryRunFails
    <3> QED BY <2>1, <3>1, CheckKeeps, RequestHolds, ReceiveHolds, RecheckKeeps, TryKeeps,
               DecideHolds, SendHolds
            DEF FlowStep
  <2>2. ~WorldChanges /\ ~Revoked
    BY NoFailure DEF WorldChanges, Revoked
  <2>3. CASE UNCHANGED vars
    BY <2>3 DEF vars, ledgerVars, sessionVars, RouteInv, RecordsOK, Came, Holding, Mine, OwnKey,
                FlowOK, InvoiceOK, EvidenceOK
  <2> QED BY <2>1, <2>2, <2>3, SettleHolds DEF Next
<1>3. RouteInv => \A f \in Flows : Mine(f) => result[f] \in {"none", "payment_sent"}
  BY DEF RouteInv, FlowOK
<1> QED BY <1>1, <1>2, <1>3, SessionTypeCorrect, PTL DEF SafetySpec
=============================================================================
