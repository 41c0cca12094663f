-------------------------- MODULE OfferRegistryProofs --------------------------
(***************************************************************************)
(* Proofs about OfferRegistry.  The databases that matter form a chain:    *)
(* the file, the snapshot being written, the queued snapshots and the      *)
(* memory, each grown from the one before, until a load races.             *)
(***************************************************************************)
EXTENDS OfferRegistry, SequenceTheorems, TLAPS

\* e is d after further operations
Grown(d, e) ==
  /\ \A o \in Offers :
       /\ d.offers[o] # "absent" => e.offers[o] # "absent"
       /\ d.offers[o] = "revoked" => e.offers[o] = "revoked"
  /\ \A n \in Names : d.names[n] # NoOffer => e.names[n] = d.names[n]

-----------------------------------------------------------------------------
(* The operations on a database. *)

\* A chain of databases is one database grown from another.
LEMMA GrownTransitive ==
  ASSUME NEW c \in Databases, NEW d \in Databases, NEW e \in Databases, Grown(c, d), Grown(d, e)
  PROVE  Grown(c, e)
  BY DEF Grown, Databases

\* Every database is grown from itself.
LEMMA GrownReflexive == ASSUME NEW d PROVE Grown(d, d)
  BY DEF Grown

\* What an operation did stays visible in every later database.
LEMMA HoldsOn ==
  ASSUME NEW d \in Databases, NEW e \in Databases, NEW x \in Operations,
         Grown(d, e), Holds(d, x)
  PROVE  Holds(e, x)
<1>1. CASE x.kind \in {"register", "bind"}
  <2>1. x.offer \in Offers /\ x.offer # NoOffer
    BY <1>1, RegistryAssumption DEF Operations
  <2>2. d.offers[x.offer] # "absent" /\ (x.name \in Names => d.names[x.name] = x.offer)
    BY <1>1 DEF Holds
  <2>3. e.offers[x.offer] # "absent" /\ (x.name \in Names => e.names[x.name] = x.offer)
    BY <2>1, <2>2 DEF Grown
  <2> QED BY <1>1, <2>3 DEF Holds
<1>2. CASE x.kind = "revoke"
  BY <1>2 DEF Holds, Grown, Operations
<1>3. CASE x.kind = "read"
  BY <1>3 DEF Holds
<1> QED BY <1>1, <1>2, <1>3 DEF Operations

\* upsertOffer's entry: the database grows, and the offer is in it.
LEMMA PutGrows ==
  ASSUME NEW db \in Databases, NEW o \in Offers
  PROVE  /\ Put(db, o) \in Databases
         /\ Grown(db, Put(db, o))
         /\ Put(db, o).offers[o] # "absent"
         /\ Put(db, o).names = db.names
  BY DEF Put, Databases, Grown

\* bindUsername: a free name, or the offer's own, is bound to the offer.
LEMMA BoundGrows ==
  ASSUME NEW db \in Databases, NEW x, x.offer \in Offers, ~Refused(db, x)
  PROVE  /\ Bound(db, x) \in Databases
         /\ Grown(db, Bound(db, x))
         /\ x.name \in Names => Bound(db, x).names[x.name] = x.offer
         /\ Bound(db, x).offers = db.offers
  BY DEF Bound, Databases, Grown, Refused

\* An operation that succeeds is visible in the database it leaves, which is
\* grown from the one before.
LEMMA AfterGrows ==
  ASSUME NEW db \in Databases, NEW x \in Operations, Succeeds(db, x)
  PROVE  /\ After(db, x) \in Databases
         /\ Grown(db, After(db, x))
         /\ Holds(After(db, x), x)
<1>1. CASE x.kind = "register"
  <2>1. x.offer \in Offers /\ ~Refused(db, x)
    BY <1>1 DEF Operations, Succeeds
  <2> DEFINE p == Put(db, x.offer)
  <2>2. p \in Databases /\ Grown(db, p) /\ p.offers[x.offer] # "absent" /\ p.names = db.names
    BY <2>1, PutGrows
  <2>3. ~Refused(p, x)
    BY <2>1, <2>2 DEF Refused
  <2> HIDE DEF p
  <2>4. /\ Bound(p, x) \in Databases /\ Grown(p, Bound(p, x))
        /\ x.name \in Names => Bound(p, x).names[x.name] = x.offer
        /\ Bound(p, x).offers = p.offers
    BY <2>1, <2>2, <2>3, BoundGrows
  <2>5. After(db, x) = Bound(p, x)
    BY <1>1 DEF After, p
  <2>6. Grown(db, Bound(p, x))
    BY <2>2, <2>4, GrownTransitive
  <2> QED BY <1>1, <2>2, <2>4, <2>5, <2>6 DEF Holds
<1>2. CASE x.kind = "bind"
  <2>1. x.offer \in Offers /\ ~Refused(db, x) /\ db.offers[x.offer] # "absent"
    BY <1>2 DEF Operations, Succeeds
  <2>2. After(db, x) = Bound(db, x)
    BY <1>2 DEF After
  <2> QED BY <1>2, <2>1, <2>2, BoundGrows DEF Holds
<1>3. CASE x.kind = "revoke"
  BY <1>3 DEF After, Holds, Succeeds, Operations, Databases, Grown
<1>4. CASE x.kind = "read"
  BY <1>4, GrownReflexive DEF After, Holds
<1> QED BY <1>1, <1>2, <1>3, <1>4 DEF Operations

\* An operation that is refused takes nothing away.
LEMMA LeftoverGrows ==
  ASSUME NEW db \in Databases, NEW x \in Operations
  PROVE  Leftover(db, x) \in Databases /\ Grown(db, Leftover(db, x))
<1>1. CASE x.kind = "register"
  BY <1>1, PutGrows DEF Leftover, Operations
<1>2. CASE x.kind # "register"
  BY <1>2, GrownReflexive DEF Leftover
<1> QED BY <1>1, <1>2

-----------------------------------------------------------------------------
(* The JSON store's requests. *)

\* What a request r for x leaves when it finds db in memory: a memory grown
\* from db, and, if it has to be saved, its snapshot.
Served(r, x, db) ==
  /\ memory' \in Databases /\ Grown(db, memory')
  /\ \/ queue' = queue
     \/ queue' = Append(queue, [by |-> r, db |-> memory']) /\ Holds(memory', x)
  /\ \E s \in {"saving", "refused", "done", "checked"} :
       pc' = [pc EXCEPT ![r] = s] /\ (s = "done" => x.kind = "read")

\* Registering, binding and reading serve, and so does reading the entry that
\* DELETE is to revoke.
LEMMA ServeServes ==
  ASSUME NEW r \in Requests, NEW x \in Operations, NEW db \in Databases, Serve(r, x, db)
  PROVE  Served(r, x, db)
<1>1. Succeeds(db, x) => /\ After(db, x) \in Databases
                         /\ Grown(db, After(db, x))
                         /\ Holds(After(db, x), x)
  BY AfterGrows
<1>2. Leftover(db, x) \in Databases /\ Grown(db, Leftover(db, x)) /\ Grown(db, db)
  BY LeftoverGrows, GrownReflexive
<1>3. CASE x.kind \in {"register", "bind"}
  BY <1>1, <1>2, <1>3 DEF Serve, Served, Saved
<1>4. CASE x.kind \notin {"register", "bind"}
  BY <1>1, <1>2, <1>4 DEF Serve, Served, Saved
<1> QED BY <1>3, <1>4

\* Revoking serves.
LEMMA RevokeServes ==
  ASSUME TypeOK, NEW r \in Requests, Revoke(r)
  PROVE  Served(r, op[r], memory)
<1>1. op[r] \in Operations /\ memory \in Databases
  BY DEF TypeOK
<1>2. Succeeds(memory, op[r]) => /\ After(memory, op[r]) \in Databases
                                 /\ Grown(memory, After(memory, op[r]))
                                 /\ Holds(After(memory, op[r]), op[r])
  BY <1>1, AfterGrows
<1> QED BY <1>1, <1>2, GrownReflexive DEF Revoke, Served, Saved

-----------------------------------------------------------------------------
(* Types. *)

\* A request that serves keeps the types of what it changes.
LEMMA ServedTypes ==
  ASSUME TypeOK, NEW r \in Requests, NEW x, NEW db, Served(r, x, db)
  PROVE  memory' \in Databases /\ queue' \in Seq(Snapshots)
         /\ pc' \in [Requests -> {"idle", "reading", "loading", "checked", "saving",
                                   "done", "refused", "lost"}]
<1>1. [by |-> r, db |-> memory'] \in Snapshots
  BY DEF Served, Snapshots
<1>2. queue \in Seq(Snapshots)
  BY DEF TypeOK
<1>3. queue' \in Seq(Snapshots)
  BY <1>1, <1>2, AppendProperties DEF Served
<1> QED BY <1>3 DEF Served, TypeOK

\* The next write is a snapshot, and the queue stays one of snapshots.
LEMMA NextWriteTypes ==
  ASSUME TypeOK, NextWrite
  PROVE  Head(queue) \in Snapshots /\ Tail(queue) \in Seq(Snapshots)
  BY HeadTailProperties DEF TypeOK, NextWrite

\* With PostgreSQL nothing of the JSON store is used.
ModeInv ==
  backend = "postgres" =>
    /\ file \in Databases /\ ~loaded /\ queue = <<>> /\ writing = {}
    /\ \A r \in Requests : pc[r] \in {"idle", "done", "refused"}

\* The counts of faults and crashes stay within their bounds.
LEMMA Bounds ==
  /\ 0 \in 0 .. MaxFaults /\ 0 \in 0 .. MaxCrashes
  /\ \A n \in 0 .. MaxFaults : n < MaxFaults => n + 1 \in 0 .. MaxFaults
  /\ \A n \in 0 .. MaxCrashes : n < MaxCrashes => n + 1 \in 0 .. MaxCrashes
<1>1. MaxFaults \in Nat /\ MaxCrashes \in Nat
  BY RegistryAssumption
<1> QED BY <1>1

\* PostgreSQL stays apart.
LEMMA ModeNext == TypeOK /\ ModeInv /\ [Next]_vars => ModeInv'
<1> SUFFICES ASSUME TypeOK, ModeInv, [Next]_vars, backend' = "postgres" PROVE ModeInv'
  BY DEF ModeInv
<1>1. ASSUME NEW r \in Requests, NEW x \in Asked, AskPostgres(r, x) PROVE ModeInv'
  <2>1. x \in Operations
    BY RegistryAssumption
  <2>2. file \in Databases
    BY <1>1 DEF AskPostgres, ModeInv
  <2>3. Succeeds(file, x) => After(file, x) \in Databases
    BY <2>1, <2>2, AfterGrows
  <2>4. file' \in Databases
    BY <1>1, <2>2, <2>3 DEF AskPostgres, Query
  <2> QED BY <1>1, <2>4 DEF AskPostgres, Query, memoryVars, writeVars, ModeInv, TypeOK
<1>2. ASSUME NEW r \in Requests, NEW x \in Asked, AskLoaded(r, x) \/ AskUnloaded(r, x)
      PROVE  ModeInv'
  BY <1>2 DEF AskLoaded, AskUnloaded
<1>3. ASSUME NEW r \in Requests, Handle(r) PROVE ModeInv'
  BY <1>3 DEF Handle, ReadFile, Load, LoadFails, Revoke, ModeInv
<1>4. CASE Write
  BY <1>4 DEF Write, StartWrite, EndWrite, RefuseWrite, BreakWrite, NextWrite, ModeInv
<1>5. CASE Crash
  BY <1>5 DEF Crash
<1>6. CASE UNCHANGED vars
  BY <1>6 DEF vars, memoryVars, writeVars, requestVars, ModeInv
<1> QED BY <1>1, <1>2, <1>3, <1>4, <1>5, <1>6 DEF Next, Ask

\* Each step keeps the types.
LEMMA RegistryTypeNext == TypeOK /\ ModeInv /\ [Next]_vars => TypeOK'
<1> SUFFICES ASSUME TypeOK, ModeInv, [Next]_vars PROVE TypeOK'
  OBVIOUS
<1>1. ASSUME NEW r \in Requests, NEW x \in Asked, AskPostgres(r, x) PROVE TypeOK'
  <2>1. x \in Operations
    BY RegistryAssumption
  <2>2. Succeeds(file, x) => After(file, x) \in Databases
    BY <1>1, <2>1, AfterGrows DEF AskPostgres, ModeInv
  <2> QED BY <1>1, <2>1, <2>2 DEF AskPostgres, Query, memoryVars, writeVars, TypeOK
<1>2. ASSUME NEW r \in Requests, NEW x \in Asked, AskLoaded(r, x) PROVE TypeOK'
  <2>1. x \in Operations /\ memory \in Databases
    BY RegistryAssumption DEF TypeOK
  <2>2. Served(r, x, memory)
    BY <1>2, <2>1, ServeServes DEF AskLoaded
  <2>3. op' \in [Requests -> Operations]
    BY <1>2, <2>1 DEF AskLoaded, TypeOK
  <2> QED BY <1>2, <2>2, <2>3, ServedTypes DEF AskLoaded, TypeOK
<1>3. ASSUME NEW r \in Requests, NEW x \in Asked, AskUnloaded(r, x) PROVE TypeOK'
  BY <1>3, RegistryAssumption DEF AskUnloaded, memoryVars, writeVars, TypeOK
<1>4. ASSUME NEW r \in Requests, ReadFile(r) \/ LoadFails(r) PROVE TypeOK'
  BY <1>4 DEF ReadFile, LoadFails, memoryVars, writeVars, TypeOK
<1>5. ASSUME NEW r \in Requests, Load(r) PROVE TypeOK'
  <2> DEFINE db == IF got[r] = Missing THEN memory ELSE got[r]
  <2>1. op[r] \in Operations /\ db \in Databases
    BY <1>5 DEF Load, TypeOK
  <2>2. Served(r, op[r], db)
    BY <1>5, <2>1, ServeServes DEF Load
  <2>3. raced' \in BOOLEAN /\ got' \in [Requests -> Databases \cup {Missing, Torn}]
    BY <1>5 DEF Load, TypeOK
  <2> QED BY <1>5, <2>2, <2>3, ServedTypes DEF Load, TypeOK
<1>6. ASSUME NEW r \in Requests, Revoke(r) PROVE TypeOK'
  BY <1>6, RevokeServes, ServedTypes DEF Revoke, TypeOK
<1>7. CASE Write
  <2>1. CASE StartWrite
    BY <2>1, NextWriteTypes DEF StartWrite, memoryVars, requestVars, TypeOK
  <2>2. CASE EndWrite
    BY <2>2 DEF EndWrite, memoryVars, Snapshots, TypeOK
  <2>3. CASE RefuseWrite
    <3>1. faults' \in 0 .. MaxFaults
      BY <2>3, Bounds DEF RefuseWrite, TypeOK
    <3> QED BY <2>3, <3>1, NextWriteTypes DEF RefuseWrite, memoryVars, TypeOK
  <2>4. CASE BreakWrite
    <3>1. faults' \in 0 .. MaxFaults
      BY <2>4, Bounds DEF BreakWrite, TypeOK
    <3> QED BY <2>4, <3>1 DEF BreakWrite, memoryVars, TypeOK
  <2> QED BY <1>7, <2>1, <2>2, <2>3, <2>4 DEF Write
<1>8. CASE Crash
  <2>1. Empty \in Databases /\ <<>> \in Seq(Snapshots)
    BY DEF Empty, Databases
  <2>2. crashes' \in 0 .. MaxCrashes
    BY <1>8, Bounds DEF Crash, TypeOK
  <2> QED BY <1>8, <2>1, <2>2 DEF Crash, TypeOK
<1>9. CASE UNCHANGED vars
  BY <1>9 DEF vars, memoryVars, writeVars, requestVars, TypeOK
<1> QED BY <1>1, <1>2, <1>3, <1>4, <1>5, <1>6, <1>7, <1>8, <1>9 DEF Next, Ask, Handle

\* The registry starts with the right types.
LEMMA RegistryInit == Init => TypeOK /\ ModeInv
<1>1. Empty \in Databases /\ <<>> \in Seq(Snapshots) /\ Read \in Operations
  BY DEF Empty, Databases, Read, Operations
<1>2. Init => faults \in 0 .. MaxFaults /\ crashes \in 0 .. MaxCrashes
  BY Bounds DEF Init
<1> QED BY <1>1, <1>2 DEF Init, TypeOK, ModeInv

\* The registry and its file keep their types.
THEOREM RegistryTypeCorrect == SafetySpec => []TypeOK
<1>1. Init => TypeOK /\ ModeInv
  BY RegistryInit
<1>2. TypeOK /\ ModeInv /\ [Next]_vars => (TypeOK /\ ModeInv)'
  BY RegistryTypeNext, ModeNext
<1> QED BY <1>1, <1>2, PTL DEF SafetySpec

-----------------------------------------------------------------------------
(* The chain of databases. *)

Places == 1 .. Len(queue)
Acked(r) == pc[r] = "done" /\ op[r].kind # "read"

\* A snapshot shows what the request that took it asked for.
Own(s) == pc[s.by] # "idle" /\ Holds(s.db, op[s.by])

\* Before the file is read nothing is under way but reads of the file.
UnloadedInv ==
  ~loaded => /\ queue = <<>> /\ writing = {}
             /\ \A r \in Requests : pc[r] # "checked"
             /\ backend = "json" =>
                  \A r \in Requests : pc[r] = "loading" => got[r] = file

\* The file, the snapshot being written and the queued ones are a chain, and
\* each shows every request that was answered.
QueueInv ==
  /\ \A i \in Places : Own(queue[i])
  /\ \A i, j \in Places : i < j => Grown(queue[i].db, queue[j].db)
  /\ \A s \in writing : /\ file = Torn /\ Own(s)
                        /\ \A i \in Places : Grown(s.db, queue[i].db)
  /\ file \in Databases => \A i \in Places : Grown(file, queue[i].db)
  /\ \A r \in Requests : Acked(r) =>
       /\ file # Missing
       /\ file \in Databases => Holds(file, op[r])
       /\ \A s \in writing : Holds(s.db, op[r])
       /\ \A i \in Places : Holds(queue[i].db, op[r])

\* db ends the chain.
Latest(db) ==
  /\ \A i \in Places : Grown(queue[i].db, db)
  /\ \A s \in writing : Grown(s.db, db)
  /\ file \in Databases => Grown(file, db)
  /\ \A r \in Requests : Acked(r) => Holds(db, op[r])

RegistryInv == UnloadedInv /\ (~raced => QueueInv /\ (loaded => Latest(memory)))

\* A request that serves with the end of the chain in memory makes it longer.
LEMMA ServedKeeps ==
  ASSUME TypeOK, NEW r \in Requests, NEW x \in Operations, NEW db \in Databases,
         Served(r, x, db), QueueInv, Latest(db),
         UNCHANGED <<file, writing>>,
         op' \in [Requests -> Operations], op'[r] = x,
         pc[r] # "idle" => op[r] = x,
         \A q \in Requests \ {r} : op'[q] = op[q]
  PROVE  QueueInv' /\ Latest(memory)'
<1> DEFINE snap == [by |-> r, db |-> memory']
<1>1. /\ memory' \in Databases /\ Grown(db, memory')
      /\ queue \in Seq(Snapshots) /\ writing \subseteq Snapshots
  BY DEF Served, TypeOK
<1>2. /\ pc'[r] # "idle" /\ (pc'[r] = "done" => x.kind = "read")
      /\ \A q \in Requests \ {r} : pc'[q] = pc[q]
  BY DEF Served, TypeOK
<1>3. ASSUME NEW q \in Requests, Acked(q)' PROVE Acked(q) /\ op'[q] = op[q]
  BY <1>2, <1>3 DEF Acked
<1>4. ASSUME NEW s \in Snapshots, Own(s) PROVE Own(s)'
  <2>1. s.by \in Requests
    BY DEF Snapshots
  <2> QED BY <1>2, <1>4, <2>1 DEF Own
<1>5. ASSUME NEW d \in Databases, Grown(d, db) PROVE Grown(d, memory')
  BY <1>1, <1>5, GrownTransitive
<1>6. ASSUME NEW q \in Requests, Acked(q)' PROVE Holds(memory', op'[q])
  <2>1. op[q] \in Operations /\ Holds(db, op[q])
    BY <1>3, <1>6 DEF Latest, TypeOK
  <2> QED BY <1>1, <1>3, <1>6, <2>1, HoldsOn
<1>7. \A i \in Places : queue[i] \in Snapshots /\ queue[i].db \in Databases
  <2>1. \A i \in Places : queue[i] \in Snapshots
    BY <1>1 DEF Places
  <2> QED BY <2>1 DEF Snapshots
<1>8. \A s \in writing : s \in Snapshots /\ s.db \in Databases
  BY <1>1 DEF Snapshots
<1>9. CASE queue' = queue
  <2>1. Places' = Places
    BY <1>9 DEF Places
  <2>2. QueueInv'
    BY <1>3, <1>4, <1>7, <1>8, <1>9, <2>1 DEF QueueInv
  <2>3. Latest(memory)'
    BY <1>5, <1>6, <1>7, <1>8, <1>9, <2>1 DEF Latest
  <2> QED BY <2>2, <2>3
<1>10. CASE queue' = Append(queue, snap) /\ Holds(memory', x)
  <2>1. /\ Places' = Places \cup {Len(queue) + 1} /\ Len(queue) \in Nat
        /\ \A i \in Places : queue'[i] = queue[i] /\ i < Len(queue) + 1
        /\ queue'[Len(queue) + 1] = snap
    BY <1>1, <1>10 DEF Places
  <2> DEFINE n == Len(queue) + 1
  <2>2. snap.by = r /\ snap.db = memory'
    OBVIOUS
  <2> HIDE DEF n, snap
  <2>3. pc'[snap.by] # "idle" /\ Holds(snap.db, op'[snap.by])
    BY <1>2, <1>10, <2>2
  <2>4. Latest(memory)'
    <3>1. \A i \in Places' : Grown(queue'[i].db, memory')
      BY <1>5, <1>7, <2>1, <2>2, GrownReflexive DEF Latest, n
    <3> QED BY <1>5, <1>6, <1>8, <3>1 DEF Latest
  <2>5. QueueInv'
    <3>1. \A i \in Places' : Own(queue[i])'
      <4> SUFFICES ASSUME NEW i \in Places' PROVE Own(queue[i])'
        OBVIOUS
      <4>1. CASE i \in Places
        <5>1. Own(queue[i]) /\ queue'[i] = queue[i] /\ queue[i] \in Snapshots
          BY <1>7, <2>1, <4>1 DEF QueueInv
        <5> QED BY <1>2, <5>1 DEF Own, Snapshots
      <4>2. CASE i = Len(queue) + 1
        BY <2>1, <2>3, <4>2 DEF Own
      <4> QED BY <2>1, <4>1, <4>2
    <3>2. \A i, j \in Places' : i < j => Grown(queue'[i].db, queue'[j].db)
      <4> SUFFICES ASSUME NEW i \in Places', NEW j \in Places', i < j
                   PROVE  Grown(queue'[i].db, queue'[j].db)
        OBVIOUS
      <4>1. i \in Places
        BY <2>1 DEF Places
      <4>2. CASE j \in Places
        BY <2>1, <4>1, <4>2 DEF QueueInv
      <4>3. CASE j = Len(queue) + 1
        BY <1>5, <1>7, <2>1, <2>2, <4>1, <4>3 DEF Latest
      <4> QED BY <2>1, <4>2, <4>3
    <3>3. \A s \in writing' : /\ file' = Torn /\ Own(s)'
                              /\ \A i \in Places' : Grown(s.db, queue'[i].db)
      BY <1>4, <1>5, <1>8, <2>1, <2>2 DEF QueueInv, Latest
    <3>4. file' \in Databases => \A i \in Places' : Grown(file', queue'[i].db)
      BY <1>5, <2>1, <2>2 DEF QueueInv, Latest
    <3>5. ASSUME NEW q \in Requests, Acked(q)'
          PROVE  /\ file' # Missing
                 /\ file' \in Databases => Holds(file', op'[q])
                 /\ \A s \in writing' : Holds(s.db, op'[q])
                 /\ \A i \in Places' : Holds(queue'[i].db, op'[q])
      BY <1>3, <1>6, <2>1, <2>2, <3>5 DEF QueueInv
    <3> QED BY <3>1, <3>2, <3>3, <3>4, <3>5 DEF QueueInv
  <2> QED BY <2>4, <2>5
<1> QED BY <1>9, <1>10 DEF Served
\* A file that is missing or torn is no database.
LEMMA NoDatabase == Missing \notin Databases /\ Torn \notin Databases
  BY RegistryAssumption

\* The queue after its head was taken.
LEMMA TailPlaces ==
  ASSUME TypeOK, queue # <<>>, queue' = Tail(queue)
  PROVE  /\ 1 \in Places /\ Head(queue) = queue[1]
         /\ \A i \in Places' : i + 1 \in Places /\ 1 < i + 1 /\ queue'[i] = queue[i + 1]
         /\ \A i, j \in Places' : i < j => i + 1 < j + 1
  BY DEF TypeOK, Places

\* A step that only moves requests keeps the chain: none is answered with an
\* effect, none goes back, and what a request under way asks for is fixed.
LEMMA QuietKeeps ==
  ASSUME RegistryInv, TypeOK, UNCHANGED <<memory, loaded, raced, file, queue, writing>>,
         \A q \in Requests : /\ Acked(q)' => Acked(q) /\ op'[q] = op[q]
                             /\ pc[q] # "idle" => pc'[q] # "idle" /\ op'[q] = op[q]
  PROVE  ~raced' => QueueInv' /\ (loaded' => Latest(memory)')
<1> SUFFICES ASSUME ~raced PROVE QueueInv' /\ (loaded => Latest(memory)')
  OBVIOUS
<1>1. QueueInv /\ (loaded => Latest(memory)) /\ Places' = Places
  BY DEF RegistryInv, Places
<1>2. queue \in Seq(Snapshots) /\ writing \subseteq Snapshots
  BY DEF TypeOK
<1>3. ASSUME NEW s \in Snapshots, Own(s) PROVE Own(s)'
  BY <1>3 DEF Own, Snapshots
<1>4. \A i \in Places : queue[i] \in Snapshots
  BY <1>2 DEF Places
<1>5. QueueInv'
  BY <1>1, <1>2, <1>3, <1>4 DEF QueueInv
<1>6. loaded => Latest(memory)'
  BY <1>1 DEF Latest
<1> QED BY <1>5, <1>6

\* A transaction of PostgreSQL keeps every answer.
LEMMA PostgresKeeps ==
  ASSUME TypeOK, ModeInv, RegistryInv, NEW r \in Requests, NEW x \in Asked, AskPostgres(r, x)
  PROVE  RegistryInv'
<1>1. /\ file \in Databases /\ ~loaded' /\ queue = <<>> /\ queue' = <<>> /\ writing' = {}
      /\ backend' = "postgres" /\ raced' = raced /\ x \in Operations
  BY RegistryAssumption DEF AskPostgres, ModeInv, memoryVars, writeVars
<1>2. Succeeds(file, x) => /\ After(file, x) \in Databases
                           /\ Grown(file, After(file, x))
                           /\ Holds(After(file, x), x)
  BY <1>1, AfterGrows
<1>3. file' \in Databases /\ Grown(file, file') /\ (Succeeds(file, x) => Holds(file', x))
  BY <1>1, <1>2, GrownReflexive DEF AskPostgres, Query
<1>4. UnloadedInv'
  BY <1>1 DEF AskPostgres, Query, ModeInv, TypeOK, UnloadedInv
<1>5. ASSUME ~raced, NEW q \in Requests, Acked(q)' PROVE Holds(file', op'[q])
  <2>1. CASE q = r
    BY <1>3, <1>5, <2>1 DEF AskPostgres, Query, Acked, TypeOK
  <2>2. CASE q # r
    <3>1. Acked(q) /\ op'[q] = op[q] /\ op[q] \in Operations
      BY <1>5, <2>2 DEF AskPostgres, Query, Acked, TypeOK
    <3>2. Holds(file, op[q])
      BY <1>1, <1>5, <3>1 DEF RegistryInv, QueueInv
    <3> QED BY <1>1, <1>3, <3>1, <3>2, HoldsOn
  <2> QED BY <2>1, <2>2
<1>6. Places' = {}
  BY <1>1 DEF Places
<1>7. ~raced => QueueInv'
  BY <1>1, <1>3, <1>5, <1>6, NoDatabase DEF QueueInv
<1> QED BY <1>1, <1>4, <1>7 DEF RegistryInv

\* A read of the file that ends with the file itself in memory, or that finds
\* nothing new, keeps every answer; any other one races.
LEMMA LoadKeeps ==
  ASSUME TypeOK, ModeInv, RegistryInv, NEW r \in Requests, Load(r)
  PROVE  RegistryInv'
<1> DEFINE db == IF got[r] = Missing THEN memory ELSE got[r]
<1>1. /\ db \in Databases /\ op[r] \in Operations /\ op' = op /\ loaded'
      /\ UNCHANGED <<file, writing>> /\ Serve(r, op[r], db)
      /\ raced' = (raced \/ (loaded /\ db # memory))
  BY DEF Load, TypeOK
<1>2. Served(r, op[r], db)
  BY <1>1, ServeServes
<1>3. ASSUME ~raced' PROVE QueueInv /\ Latest(db)
  <2>1. QueueInv /\ (loaded => Latest(memory) /\ db = memory)
    BY <1>1, <1>3 DEF RegistryInv, TypeOK
  <2>2. CASE loaded
    BY <2>1, <2>2
  <2>3. CASE ~loaded
    <3>1. /\ queue = <<>> /\ writing = {} /\ got[r] = file /\ file # Torn
          /\ Places = {}
      BY <2>3 DEF RegistryInv, UnloadedInv, Load, ModeInv, TypeOK, Places
    <3>2. CASE file = Missing
      BY <2>1, <3>1, <3>2, NoDatabase DEF Latest, QueueInv
    <3>3. CASE file # Missing
      BY <2>1, <3>1, <3>3, GrownReflexive DEF Latest, QueueInv, TypeOK
    <3> QED BY <3>2, <3>3
  <2> QED BY <2>1, <2>2, <2>3
<1>4. ~raced' => QueueInv' /\ Latest(memory)'
  <2> HIDE DEF db
  <2> SUFFICES ASSUME ~raced' PROVE QueueInv' /\ Latest(memory)'
    OBVIOUS
  <2>1. op' \in [Requests -> Operations] /\ op'[r] = op[r]
    BY <1>1 DEF TypeOK
  <2> QED BY <1>1, <1>2, <1>3, <2>1, ServedKeeps
<1> QED BY <1>1, <1>4 DEF RegistryInv, UnloadedInv
\* Writes move the snapshots along the chain into the file.
LEMMA WriteKeeps ==
  ASSUME TypeOK, RegistryInv, Write
  PROVE  RegistryInv'
<1>1. loaded /\ loaded' /\ raced' = raced /\ memory' = memory /\ op' = op
  BY DEF Write, StartWrite, EndWrite, RefuseWrite, BreakWrite, NextWrite, RegistryInv,
         UnloadedInv, memoryVars, requestVars
<1>2. SUFFICES ASSUME ~raced PROVE QueueInv' /\ Latest(memory)'
  BY <1>1 DEF RegistryInv, UnloadedInv
<1>3. QueueInv /\ Latest(memory)
  BY <1>1, <1>2 DEF RegistryInv
<1>4. queue \in Seq(Snapshots) /\ writing \subseteq Snapshots
  BY DEF TypeOK
<1>5. \A i \in Places : queue[i] \in Snapshots
  BY <1>4 DEF Places
<1>6. \A s \in Snapshots : s.by \in Requests /\ s.db \in Databases
  BY DEF Snapshots
<1>7. CASE StartWrite
  <2>1. /\ writing = {} /\ queue # <<>> /\ queue' = Tail(queue) /\ file' = Torn
        /\ writing' = {queue[1]} /\ pc' = pc
    BY <1>7, TailPlaces DEF StartWrite, NextWrite, requestVars, TypeOK
  <2>2. /\ 1 \in Places
        /\ \A i \in Places' : i + 1 \in Places /\ 1 < i + 1 /\ queue'[i] = queue[i + 1]
        /\ \A i, j \in Places' : i < j => i + 1 < j + 1
    BY <2>1, TailPlaces
  <2>3. \A s : Own(s) => Own(s)'
    BY <1>1, <2>1 DEF Own
  <2>4. \A q \in Requests : Acked(q)' => Acked(q)
    BY <1>1, <2>1 DEF Acked
  <2>5. /\ \A i \in Places' : Own(queue[i])'
        /\ \A i, j \in Places' : i < j => Grown(queue'[i].db, queue'[j].db)
    BY <1>1, <1>3, <2>1, <2>2 DEF QueueInv, Own
  <2>6. \A s \in writing' : Own(s)' /\ \A i \in Places' : Grown(s.db, queue'[i].db)
    BY <1>3, <2>1, <2>2, <2>3 DEF QueueInv
  <2>7. \A q \in Requests : Acked(q)' =>
          /\ \A s \in writing' : Holds(s.db, op'[q])
          /\ \A i \in Places' : Holds(queue'[i].db, op'[q])
    BY <1>1, <1>3, <2>1, <2>2, <2>4 DEF QueueInv
  <2>8. QueueInv'
    BY <2>1, <2>5, <2>6, <2>7, NoDatabase, RegistryAssumption DEF QueueInv
  <2>9. Latest(memory)'
    BY <1>1, <1>3, <2>1, <2>2, <2>4, NoDatabase DEF Latest
  <2> QED BY <2>8, <2>9
<1>8. CASE EndWrite
  <2>1. PICK s \in writing : /\ writing' = {} /\ file' = s.db /\ queue' = queue
                            /\ pc' = [pc EXCEPT ![s.by] = "done"]
    BY <1>8 DEF EndWrite
  <2>2. s \in Snapshots /\ s.by \in Requests /\ s.db \in Databases /\ Places' = Places
    BY <1>4, <1>6, <2>1 DEF Places
  <2>3. Own(s) /\ Grown(s.db, memory) /\ \A i \in Places : Grown(s.db, queue[i].db)
    BY <1>3, <2>1 DEF QueueInv, Latest
  <2>4. ASSUME NEW d \in Snapshots, Own(d) PROVE Own(d)'
    BY <1>1, <1>6, <2>1, <2>4 DEF Own, TypeOK
  <2>5. ASSUME NEW q \in Requests, Acked(q)' PROVE Acked(q) \/ q = s.by
    BY <1>1, <2>1, <2>5 DEF Acked, TypeOK
  <2>6. ASSUME NEW q \in Requests, Acked(q)'
        PROVE  /\ Holds(s.db, op[q]) /\ Holds(memory, op[q])
               /\ \A i \in Places : Holds(queue[i].db, op[q])
    <3>1. Holds(s.db, op[q])
      BY <1>3, <2>1, <2>3, <2>5, <2>6 DEF QueueInv, Own
    <3>2. op[q] \in Operations /\ memory \in Databases
          /\ \A i \in Places : queue[i].db \in Databases
      BY <1>5, <1>6 DEF TypeOK
    <3> QED BY <2>2, <2>3, <3>1, <3>2, HoldsOn
  <2>7. \A i \in Places' : Own(queue[i])'
    <3> SUFFICES ASSUME NEW i \in Places' PROVE Own(queue[i])'
      OBVIOUS
    <3>1. queue[i] \in Snapshots /\ Own(queue[i]) /\ queue'[i] = queue[i]
      BY <1>3, <1>5, <2>1, <2>2 DEF QueueInv
    <3> QED BY <1>1, <1>6, <2>1, <3>1 DEF Own, TypeOK
  <2>8. QueueInv'
    BY <1>1, <1>3, <2>1, <2>2, <2>3, <2>6, <2>7, NoDatabase DEF QueueInv
  <2>9. Latest(memory)'
    BY <1>1, <1>3, <2>1, <2>2, <2>3, <2>6 DEF Latest
  <2> QED BY <2>8, <2>9
<1>9. CASE RefuseWrite
  <2>1. /\ queue # <<>> /\ queue' = Tail(queue) /\ UNCHANGED <<file, writing>>
        /\ pc' = [pc EXCEPT ![queue[1].by] = "refused"] /\ writing = {}
    BY <1>9, TailPlaces DEF RefuseWrite, NextWrite
  <2>2. /\ 1 \in Places
        /\ \A i \in Places' : i + 1 \in Places /\ queue'[i] = queue[i + 1]
        /\ \A i, j \in Places' : i < j => i + 1 < j + 1
    BY <2>1, TailPlaces
  <2>3. \A q \in Requests : Acked(q)' => Acked(q)
    BY <1>1, <2>1 DEF Acked, TypeOK
  <2>4. \A i \in Places' : Own(queue[i])'
    <3> SUFFICES ASSUME NEW i \in Places' PROVE Own(queue[i])'
      OBVIOUS
    <3>1. queue'[i] \in Snapshots /\ Own(queue[i + 1]) /\ queue'[i] = queue[i + 1]
      BY <1>3, <1>5, <2>2 DEF QueueInv
    <3> QED BY <1>1, <1>6, <2>1, <3>1 DEF Own, TypeOK
  <2>5. \A i, j \in Places' : i < j => Grown(queue'[i].db, queue'[j].db)
    BY <1>3, <2>2 DEF QueueInv
  <2>6. QueueInv'
    BY <1>1, <1>3, <2>1, <2>2, <2>3, <2>4, <2>5 DEF QueueInv
  <2>7. Latest(memory)'
    BY <1>1, <1>3, <2>1, <2>2, <2>3 DEF Latest
  <2> QED BY <2>6, <2>7
<1>10. CASE BreakWrite
  <2>1. PICK s \in writing : /\ writing' = {} /\ UNCHANGED <<file, queue>>
                            /\ pc' = [pc EXCEPT ![s.by] = "refused"]
    BY <1>10 DEF BreakWrite
  <2>2. Places' = Places
    BY <2>1 DEF Places
  <2>3. \A q \in Requests : Acked(q)' => Acked(q)
    BY <1>1, <2>1 DEF Acked, TypeOK
  <2>4. \A i \in Places' : Own(queue[i])'
    <3> SUFFICES ASSUME NEW i \in Places' PROVE Own(queue[i])'
      OBVIOUS
    <3>1. queue[i] \in Snapshots /\ Own(queue[i]) /\ queue'[i] = queue[i]
      BY <1>3, <1>5, <2>1, <2>2 DEF QueueInv
    <3> QED BY <1>1, <1>6, <2>1, <3>1 DEF Own, TypeOK
  <2>5. QueueInv'
    BY <1>1, <1>3, <2>1, <2>2, <2>3, <2>4 DEF QueueInv
  <2>6. Latest(memory)'
    BY <1>1, <1>3, <2>1, <2>2, <2>3 DEF Latest
  <2> QED BY <2>5, <2>6
<1> QED BY <1>7, <1>8, <1>9, <1>10 DEF Write

\* Each step keeps the chain.
LEMMA RegistryInvNext == TypeOK /\ ModeInv /\ RegistryInv /\ [Next]_vars => RegistryInv'
<1> SUFFICES ASSUME TypeOK, ModeInv, RegistryInv, [Next]_vars PROVE RegistryInv'
  OBVIOUS
<1>1. ASSUME NEW r \in Requests, NEW x \in Asked, AskLoaded(r, x) PROVE RegistryInv'
  <2>1. x \in Operations /\ memory \in Databases /\ loaded /\ loaded' /\ raced' = raced
    BY <1>1, RegistryAssumption DEF AskLoaded, TypeOK
  <2>2. Served(r, x, memory)
    BY <1>1, <2>1, ServeServes DEF AskLoaded
  <2>3. /\ UNCHANGED <<file, writing>> /\ op' \in [Requests -> Operations] /\ op'[r] = x
        /\ pc[r] = "idle" /\ \A q \in Requests \ {r} : op'[q] = op[q]
    BY <1>1, <2>1 DEF AskLoaded, TypeOK
  <2>4. ~raced => QueueInv' /\ Latest(memory)'
    BY <2>1, <2>2, <2>3, ServedKeeps DEF RegistryInv
  <2> QED BY <2>1, <2>4 DEF RegistryInv, UnloadedInv
<1>2. ASSUME NEW r \in Requests, NEW x \in Asked, AskUnloaded(r, x) PROVE RegistryInv'
  <2>1. ~raced' => QueueInv' /\ (loaded' => Latest(memory)')
    <3>1. \A q \in Requests : /\ Acked(q)' => Acked(q) /\ op'[q] = op[q]
                              /\ pc[q] # "idle" => pc'[q] # "idle" /\ op'[q] = op[q]
      BY <1>2 DEF AskUnloaded, Acked, TypeOK
    <3> QED BY <1>2, <3>1, QuietKeeps DEF AskUnloaded, memoryVars, writeVars
  <2>2. UnloadedInv'
    BY <1>2 DEF AskUnloaded, memoryVars, writeVars, RegistryInv, UnloadedInv, TypeOK
  <2> QED BY <1>2, <2>1, <2>2 DEF AskUnloaded, memoryVars, RegistryInv
<1>3. ASSUME NEW r \in Requests, ReadFile(r) \/ LoadFails(r) PROVE RegistryInv'
  <2>1. ~raced' => QueueInv' /\ (loaded' => Latest(memory)')
    <3>1. \A q \in Requests : /\ Acked(q)' => Acked(q) /\ op'[q] = op[q]
                              /\ pc[q] # "idle" => pc'[q] # "idle" /\ op'[q] = op[q]
      BY <1>3 DEF ReadFile, LoadFails, Acked, TypeOK
    <3> QED BY <1>3, <3>1, QuietKeeps DEF ReadFile, LoadFails, memoryVars, writeVars
  <2>2. UnloadedInv'
    BY <1>3 DEF ReadFile, LoadFails, memoryVars, writeVars, RegistryInv, UnloadedInv, TypeOK
  <2> QED BY <1>3, <2>1, <2>2 DEF ReadFile, LoadFails, memoryVars, RegistryInv
<1>4. ASSUME NEW r \in Requests, Revoke(r) PROVE RegistryInv'
  <2>1. /\ loaded /\ loaded' /\ raced' = raced /\ op' = op
        /\ op[r] \in Operations /\ memory \in Databases /\ UNCHANGED <<file, writing>>
    BY <1>4 DEF Revoke, RegistryInv, UnloadedInv, TypeOK
  <2>2. Served(r, op[r], memory)
    BY <1>4, RevokeServes
  <2>3. op' \in [Requests -> Operations] /\ op'[r] = op[r]
    BY <2>1 DEF TypeOK
  <2>4. ~raced => QueueInv' /\ Latest(memory)'
    BY <2>1, <2>2, <2>3, ServedKeeps DEF RegistryInv
  <2> QED BY <2>1, <2>4 DEF RegistryInv, UnloadedInv
<1>5. CASE Crash
  <2>1. /\ ~loaded' /\ queue' = <<>> /\ writing' = {} /\ UNCHANGED <<raced, file, op>>
        /\ Places' = {}
    BY <1>5 DEF Crash, Places
  <2>2. \A q \in Requests : /\ Acked(q)' => Acked(q)
                            /\ pc'[q] \notin {"checked", "loading"}
    BY <1>5 DEF Crash, Acked, TypeOK
  <2>3. UnloadedInv'
    BY <2>1, <2>2 DEF UnloadedInv
  <2>4. ~raced => QueueInv'
    BY <2>1, <2>2 DEF RegistryInv, QueueInv
  <2> QED BY <2>1, <2>3, <2>4 DEF RegistryInv
<1>6. CASE UNCHANGED vars
  <2>1. ~raced' => QueueInv' /\ (loaded' => Latest(memory)')
    BY <1>6, QuietKeeps DEF vars, memoryVars, writeVars, requestVars, Acked
  <2>2. UnloadedInv'
    BY <1>6 DEF vars, memoryVars, writeVars, requestVars, RegistryInv, UnloadedInv
  <2> QED BY <2>1, <2>2 DEF RegistryInv
<1> QED BY <1>1, <1>2, <1>3, <1>4, <1>5, <1>6, PostgresKeeps, LoadKeeps, WriteKeeps
        DEF Next, Ask, Handle

-----------------------------------------------------------------------------
(* Results. *)

\* The chain holds in every reachable state.
LEMMA RegistryInvCorrect == SafetySpec => [](TypeOK /\ RegistryInv)
<1>1. Init => TypeOK /\ ModeInv /\ RegistryInv
  <2>1. Init => RegistryInv
    BY DEF Init, RegistryInv, UnloadedInv, QueueInv, Latest, Places, Acked
  <2> QED BY <2>1, RegistryInit
<1>2. TypeOK /\ ModeInv /\ RegistryInv /\ [Next]_vars => (TypeOK /\ ModeInv /\ RegistryInv)'
  BY RegistryTypeNext, ModeNext, RegistryInvNext
<1> QED BY <1>1, <1>2, PTL DEF SafetySpec

\* Whatever was answered for is kept, while no load has raced.
LEMMA AnswersAreKept ==
  ASSUME TypeOK, RegistryInv, ~raced, NEW r \in Requests, Acked(r)
  PROVE  Kept(op[r])
  BY DEF TypeOK, RegistryInv, QueueInv, Latest, Kept

\* An offer or a name that was answered for stays, over any number of
\* requests, writes, failures and restarts, short of a torn file and of a
\* load that overtook a request.
THEOREM RegistrationsAreKept == SafetySpec => []RegistrationsKept
<1>1. TypeOK /\ RegistryInv => RegistrationsKept
  BY AnswersAreKept DEF RegistrationsKept, Acked
<1> QED BY <1>1, RegistryInvCorrect, PTL

\* So does a revocation.
THEOREM RevocationsAreKept == SafetySpec => []RevocationsKept
<1>1. TypeOK /\ RegistryInv => RevocationsKept
  BY AnswersAreKept DEF RevocationsKept, Acked
<1> QED BY <1>1, RegistryInvCorrect, PTL
\* Only a registration that succeeds adds an offer, and only its own.
LEMMA NewOffer ==
  ASSUME NEW db \in Databases, NEW x \in Operations, Succeeds(db, x), NEW o \in Offers,
         db.offers[o] = "absent", After(db, x).offers[o] # "absent"
  PROVE  x.kind = "register" /\ x.offer = o
<1>1. CASE x.kind = "register"
  <2>1. After(db, x).offers = Put(db, x.offer).offers
    BY <1>1 DEF After, Bound
  <2> QED BY <1>1, <2>1 DEF Put, Databases, Operations
<1>2. CASE x.kind = "bind"
  BY <1>2 DEF After, Bound
<1>3. CASE x.kind = "revoke"
  BY <1>3 DEF After, Succeeds, Databases, Operations
<1>4. CASE x.kind = "read"
  BY <1>4 DEF After
<1> QED BY <1>1, <1>2, <1>3, <1>4 DEF Operations

\* A registration that PostgreSQL refused registered nothing.
THEOREM RefusalsRegisterNothing == SafetySpec => []RefusedRegistersNothing
<1>1. Init => RefusedRegistersNothing
  BY DEF Init, RefusedRegistersNothing, Empty
<1>2. TypeOK /\ ModeInv /\ RefusedRegistersNothing /\ [Next]_vars => RefusedRegistersNothing'
  <2> SUFFICES ASSUME TypeOK, ModeInv, RefusedRegistersNothing, [Next]_vars,
                      backend' = "postgres", NEW o \in Offers, file'.offers[o] # "absent"
               PROVE  \E r \in Requests :
                        pc'[r] = "done" /\ op'[r].kind = "register" /\ op'[r].offer = o
    BY DEF RefusedRegistersNothing
  <2>1. ASSUME NEW r \in Requests, NEW x \in Asked, AskPostgres(r, x)
        PROVE  \E q \in Requests :
                 pc'[q] = "done" /\ op'[q].kind = "register" /\ op'[q].offer = o
    <3>1. x \in Operations /\ file \in Databases /\ backend = "postgres" /\ pc[r] = "idle"
      BY <2>1, RegistryAssumption DEF AskPostgres, ModeInv
    <3>2. CASE file.offers[o] # "absent"
      <4>1. PICK q \in Requests : pc[q] = "done" /\ op[q].kind = "register" /\ op[q].offer = o
        BY <3>1, <3>2 DEF RefusedRegistersNothing
      <4> QED BY <2>1, <3>1, <4>1 DEF AskPostgres, Query, TypeOK
    <3>3. CASE file.offers[o] = "absent"
      <4>1. Succeeds(file, x) /\ file' = After(file, x)
        BY <2>1, <3>3 DEF AskPostgres, Query
      <4>2. x.kind = "register" /\ x.offer = o
        BY <3>1, <3>3, <4>1, NewOffer
      <4> QED BY <2>1, <4>1, <4>2 DEF AskPostgres, Query, TypeOK
    <3> QED BY <3>2, <3>3
  <2>2. CASE UNCHANGED vars
    BY <2>2 DEF vars, requestVars, RefusedRegistersNothing
  <2>3. ASSUME NEW r \in Requests, NEW x \in Asked, AskLoaded(r, x) \/ AskUnloaded(r, x)
        PROVE  FALSE
    BY <2>3 DEF AskLoaded, AskUnloaded
  <2>4. ASSUME NEW r \in Requests, Handle(r) PROVE FALSE
    BY <2>4 DEF Handle, ReadFile, Load, LoadFails, Revoke, ModeInv
  <2>5. ~Write /\ ~Crash
    BY DEF Write, StartWrite, EndWrite, RefuseWrite, BreakWrite, NextWrite, Crash, ModeInv
  <2> QED BY <2>1, <2>2, <2>3, <2>4, <2>5 DEF Next, Ask
<1>3. Init => TypeOK /\ ModeInv
  BY RegistryInit
<1>4. TypeOK /\ ModeInv /\ [Next]_vars => (TypeOK /\ ModeInv)'
  BY RegistryTypeNext, ModeNext
<1> QED BY <1>1, <1>2, <1>3, <1>4, PTL DEF SafetySpec
===============================================================================
