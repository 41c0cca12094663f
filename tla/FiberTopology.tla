---------------------------- MODULE FiberTopology ----------------------------
(***************************************************************************)
(* What the SDK concludes from the lists of a payer's and a merchant's     *)
(* Fiber node: the summaries of FiberNodeDiagnosticsClient, the topology   *)
(* report of analyzeFiberTopology and the plan of planDirectChannelFixture.*)
(*                                                                         *)
(* A list of channels is a function from the ids of the channels to what   *)
(* the node says of each.  Balances are whole units.  Names, versions,     *)
(* addresses, hexadecimal forms and wording are left out; an issue is its  *)
(* code.                                                                   *)
(***************************************************************************)
EXTENDS Integers, Sequences, FiniteSetsExt

\* one channel as a node lists it
Channel(Nodes, Units) ==
  [peer : Nodes, state : {"NegotiatingFunding", "AwaitingChannelReady", "ChannelReady", "Closed"},
   failed : BOOLEAN, enabled : BOOLEAN, udt : BOOLEAN, local : Units, remote : Units, tlcs : Units]

Total(cs, S, field) == LET Of(i) == cs[i][field] IN MapThenSumSet(Of, S)
CounterpartiesOf(cs, S) == {cs[i].peer : i \in S}
With(cs, S, n) == {i \in S : cs[i].peer = n}

-----------------------------------------------------------------------------
(* FiberNodeDiagnosticsClient. *)

Enabled(cs) == {i \in DOMAIN cs : cs[i].state = "ChannelReady" /\ cs[i].enabled}

SummarizeCounterparties(cs, peers) ==
  [n \in CounterpartiesOf(cs, Enabled(cs)) |->
     LET S == With(cs, Enabled(cs), n)
     IN [connected |-> n \in peers, local |-> Total(cs, S, "local"),
         remote |-> Total(cs, S, "remote"), tlcs |-> Total(cs, S, "tlcs")]]

SummarizeChannels(cs, peers) ==
  LET on == Enabled(cs)
  IN [enabled |-> Cardinality(on),
      ckb |-> Cardinality({i \in on : ~cs[i].udt}),
      udt |-> Cardinality({i \in on : cs[i].udt}),
      usable_outbound |-> Cardinality({i \in on : cs[i].local > 0}),
      usable_inbound |-> Cardinality({i \in on : cs[i].remote > 0}),
      pending_tlc_count |-> Total(cs, on, "tlcs"),
      counterparties |-> SummarizeCounterparties(cs, peers),
      offline_counterparties |-> CounterpartiesOf(cs, on) \ peers]

\* Mutant of IsOpening: a channel with a failure counts as opening.
IsOpeningThoughFailed(c) == c.state # "Closed"

\* Mutant of IsOpening: only the negotiation counts as opening.
IsOpeningWhileNegotiating(c) == c.state = "NegotiatingFunding" /\ ~c.failed

\* isOpeningChannel
IsOpening(c) == c.state # "Closed" /\ ~c.failed

SummarizePending(cs) ==
  [n \in CounterpartiesOf(cs, DOMAIN cs) |->
     LET opening == {i \in With(cs, DOMAIN cs, n) : IsOpening(cs[i])}
     IN [opening |-> Cardinality(opening),
         opening_states |-> {cs[i].state : i \in opening},
         opening_channel_ids |-> opening]]

\* inspectNode: the four answers of one node.  A pubkey that node_info did
\* not give is one that nobody lists.
Inspected(pubkey, peers, channels, pending) ==
  [pubkey |-> pubkey, peers |-> peers,
   channels |-> SummarizeChannels(channels, peers),
   pending |-> SummarizePending(pending)]

-----------------------------------------------------------------------------
(* analyzeFiberTopology. *)

Lists(node, pubkey) == pubkey \in DOMAIN node.channels.counterparties
Opens(node, pubkey) == pubkey \in DOMAIN node.pending /\ node.pending[pubkey].opening > 0

\* directChannelReport
DirectChannel(payer, merchant) ==
  LET p == Opens(payer, merchant.pubkey)
      m == Opens(merchant, payer.pubkey)
      local == IF Lists(payer, merchant.pubkey)
               THEN payer.channels.counterparties[merchant.pubkey].local ELSE 0
  IN [opening |-> p /\ m,
      partial_opening |-> p # m,
      ready |-> Lists(payer, merchant.pubkey) /\ Lists(merchant, payer.pubkey),
      payer_connected |-> merchant.pubkey \in payer.peers,
      payer_local |-> local,
      usable |-> local > 0 /\ merchant.pubkey \in payer.peers]

CommonCounterparties(payer, merchant) ==
  DOMAIN payer.channels.counterparties \cap DOMAIN merchant.channels.counterparties

Blockers(payer, merchant, known) ==
  LET direct == DirectChannel(payer, merchant)
      common == CommonCounterparties(payer, merchant)
      online == common \cap payer.peers \cap merchant.peers
      stuck  == ~direct.opening /\ ~direct.usable
      Issue(code, present) == IF present THEN {code} ELSE {}
  IN Issue("PAYER_PUBKEY_UNAVAILABLE", payer.pubkey \notin known)
     \cup Issue("MERCHANT_PUBKEY_UNAVAILABLE", merchant.pubkey \notin known)
     \cup Issue("PAYER_NO_ENABLED_CHANNELS", payer.channels.enabled = 0)
     \cup Issue("PAYER_NO_OUTBOUND_LIQUIDITY", payer.channels.usable_outbound = 0)
     \cup Issue("MERCHANT_NO_ENABLED_CHANNELS", merchant.channels.enabled = 0)
     \cup Issue("DIRECT_CHANNEL_HANDSHAKE_STALLED", direct.partial_opening)
     \cup Issue("NO_DIRECT_OR_SHARED_LOCAL_ROUTE", stuck /\ common = {})
     \cup Issue("SHARED_COUNTERPARTY_OFFLINE", stuck /\ common # {} /\ online = {})

Warnings(payer, merchant) ==
  LET direct == DirectChannel(payer, merchant)
      common == CommonCounterparties(payer, merchant)
      online == common \cap payer.peers \cap merchant.peers
      Issue(code, present) == IF present THEN {code} ELSE {}
  IN Issue("DIRECT_CHANNEL_OPENING", ~direct.ready /\ direct.opening)
     \cup Issue("NO_DIRECT_CHANNEL", ~direct.ready /\ ~direct.opening /\ ~direct.partial_opening)
     \cup Issue("DIRECT_CHANNEL_NOT_USABLE", direct.ready /\ ~direct.usable)
     \cup Issue("MERCHANT_NO_CONNECTED_PEERS", merchant.peers = {})
     \cup Issue("PAYER_NO_CONNECTED_PEERS", payer.peers = {})
     \cup Issue("MERCHANT_NO_VISIBLE_INBOUND", merchant.channels.usable_inbound = 0)
     \cup Issue("PENDING_TLCS", payer.channels.pending_tlc_count > 0
                                \/ merchant.channels.pending_tlc_count > 0)
     \cup Issue("NO_ONLINE_SHARED_COUNTERPARTY", common # {} /\ online = {})
     \cup Issue("OFFLINE_CHANNEL_COUNTERPARTIES",
                payer.channels.offline_counterparties # {}
                \/ merchant.channels.offline_counterparties # {})

AnalyzeTopology(payer, merchant, known) ==
  LET direct == DirectChannel(payer, merchant)
      blockers == Blockers(payer, merchant, known)
  IN [status |-> IF direct.opening THEN "opening"
                 ELSE IF blockers # {} THEN "blocked"
                 ELSE IF Warnings(payer, merchant) # {} THEN "degraded" ELSE "ready",
      payer |-> payer,
      merchant |-> merchant,
      direct_channel |-> direct,
      online_common |-> CommonCounterparties(payer, merchant) \cap payer.peers \cap merchant.peers,
      blockers |-> blockers]

-----------------------------------------------------------------------------
(* planDirectChannelFixture. *)

\* directChannelAcceptCandidate: the first opening channel the merchant
\* lists, when one of them is negotiating (none: {})
AcceptCandidate(topology) ==
  LET m == topology.merchant
      p == topology.payer.pubkey
  IN IF Opens(m, p) /\ "NegotiatingFunding" \in m.pending[p].opening_states
     THEN {Min(m.pending[p].opening_channel_ids)} ELSE {}

\* What is asked of the operator before the plan can run.  options says what
\* the operator gave: the merchant's address, an amount (also known when the
\* merchant's node accepts channels by itself).
Missing(topology, known, options) ==
  LET direct == topology.direct_channel
      open   == ~direct.usable /\ ~direct.opening /\ ~direct.partial_opening
  IN (IF topology.merchant.pubkey \notin known THEN {"merchant_pubkey"} ELSE {})
     \cup (IF ~direct.payer_connected /\ ~options.address THEN {"merchant_peer_address"} ELSE {})
     \cup (IF open /\ ~options.funding THEN {"funding_amount"} ELSE {})
     \cup (IF AcceptCandidate(topology) # {} /\ ~options.acceptFunding
           THEN {"accept_funding_amount"} ELSE {})

PlanSteps(topology) ==
  LET direct == topology.direct_channel
      open   == ~direct.usable /\ ~direct.opening /\ ~direct.partial_opening
      Step(id, present, c) == IF present THEN <<[id |-> id, channel |-> c]>> ELSE << >>
      accept == AcceptCandidate(topology)
  IN Step("connect_peer", ~direct.payer_connected, 0)
     \o Step("open_channel", open, 0)
     \o Step("accept_channel", accept # {}, IF accept # {} THEN Min(accept) ELSE 0)

PlanStatus(topology, known, options) ==
  LET direct == topology.direct_channel
  IN IF direct.usable THEN "already_ready"
     ELSE IF Missing(topology, known, options) # {} THEN "missing_input"
     ELSE IF AcceptCandidate(topology) # {} THEN "ready_to_accept"
     ELSE IF direct.opening THEN "already_opening"
     ELSE IF direct.partial_opening THEN "stalled_opening"
     ELSE "ready_to_execute"
=============================================================================
