----------------------------- MODULE OfferRegistry -----------------------------
(***************************************************************************)
(* The registry of offers and user names: POST /offers, POST               *)
(* /fiber-addresses, DELETE /offers/:id and the requests that only read,   *)
(* over either store.                                                      *)
(*                                                                         *)
(* PostgreSQL runs each operation as one transaction.  The JSON store      *)
(* keeps everything in memory: a process reads the file at its first       *)
(* request, an operation changes the memory at once, and save() queues a   *)
(* snapshot that a chain of promises writes to the file later.  The        *)
(* request is answered when its snapshot is written.  writeFile truncates  *)
(* the file before it fills it.                                            *)
(***************************************************************************)
EXTENDS Naturals, Sequences

CONSTANTS
  Offers,      \* offers signed by a merchant, each valid
  Names,       \* well formed user names, after normalizeUsername
  NoName,      \* no user name given
  BadName,     \* a name that normalizeUsername refuses
  NoOffer,     \* what a free name is bound to
  Missing,     \* the file does not exist
  Torn,        \* the file was truncated and not filled
  Requests,    \* requests, each made once
  Asked,       \* what requests ask for: some of Operations
  MaxFaults,   \* bound on writes that fail
  MaxCrashes   \* bound on deaths of the process

VARIABLES
  backend,   \* the store createServer chose
  memory,    \* JSON store: this.state
  loaded,    \* JSON store: this.loaded
  file,      \* the JSON file, or the tables
  queue,     \* JSON store: snapshots that save() queued, oldest first
  writing,   \* JSON store: the snapshot being written (at most one)
  pc,        \* request -> where it stands
  op,        \* request -> what it asks for
  got,       \* request -> what its readFile returned
  raced,     \* a load replaced what another request had put in memory
  faults, crashes

memoryVars == <<memory, loaded, raced>>
writeVars == <<queue, writing>>
requestVars == <<pc, op, got>>
vars == <<backend, memoryVars, file, writeVars, requestVars, faults, crashes>>

Databases == [offers : [Offers -> {"absent", "active", "revoked"}],
              names : [Names -> Offers \cup {NoOffer}]]
Empty == [offers |-> [o \in Offers |-> "absent"], names |-> [n \in Names |-> NoOffer]]

Operations ==
  [kind : {"register"}, offer : Offers, name : Names \cup {NoName, BadName}]
    \cup [kind : {"bind"}, offer : Offers, name : Names \cup {BadName}]
    \cup [kind : {"revoke"}, offer : Offers, name : {NoName}]
    \cup [kind : {"read"}, offer : {NoOffer}, name : {NoName}]
Read == [kind |-> "read", offer |-> NoOffer, name |-> NoName]

ASSUME RegistryAssumption ==
  /\ {NoName, BadName} \cap Names = {} /\ NoName # BadName
  /\ NoOffer \notin Offers
  /\ {Missing, Torn} \cap Databases = {} /\ Missing # Torn
  /\ Asked \subseteq Operations
  /\ MaxFaults \in Nat /\ MaxCrashes \in Nat

Snapshots == [by : Requests, db : Databases]

TypeOK ==
  /\ backend \in {"json", "postgres"}
  /\ memory \in Databases /\ loaded \in BOOLEAN /\ raced \in BOOLEAN
  /\ file \in Databases \cup {Missing, Torn}
  /\ queue \in Seq(Snapshots) /\ writing \in SUBSET Snapshots
  /\ pc \in [Requests -> {"idle", "reading", "loading", "checked", "saving",
                          "done", "refused", "lost"}]
  /\ op \in [Requests -> Operations]
  /\ got \in [Requests -> Databases \cup {Missing, Torn}]
  /\ faults \in 0 .. MaxFaults /\ crashes \in 0 .. MaxCrashes

Init ==
  /\ backend \in {"json", "postgres"}
  /\ memory = Empty /\ loaded = FALSE /\ raced = FALSE
  /\ file = IF backend = "json" THEN Missing ELSE Empty
  /\ queue = <<>> /\ writing = {}
  /\ pc = [r \in Requests |-> "idle"]
  /\ op = [r \in Requests |-> Read]
  /\ got = [r \in Requests |-> Missing]
  /\ faults = 0 /\ crashes = 0

-----------------------------------------------------------------------------
(* What an operation does to a database. *)

\* Mutant of Put: registering a revoked offer again makes it active.
PutAfresh(db, o) == [db EXCEPT !.offers[o] = "active"]

\* Mutant of Put: disabled is left undefined for a new offer.
PutUndefined(db, o) == [db EXCEPT !.offers[o] = IF @ = "absent" THEN "undefined" ELSE @]

\* upsertOffer, the entry alone: an offer that was revoked stays revoked
Put(db, o) == [db EXCEPT !.offers[o] = IF @ = "absent" THEN "active" ELSE @]

\* bindUsername refuses a malformed name and a name bound to another offer
Refused(db, x) == x.name = BadName \/ (x.name \in Names /\ db.names[x.name] \notin {NoOffer, x.offer})

Bound(db, x) == IF x.name \in Names THEN [db EXCEPT !.names[x.name] = x.offer] ELSE db

Succeeds(db, x) ==
  CASE x.kind = "register" -> ~Refused(db, x)
    [] x.kind = "bind"     -> db.offers[x.offer] # "absent" /\ ~Refused(db, x)
    [] x.kind = "revoke"   -> db.offers[x.offer] = "active"
    [] x.kind = "read"     -> TRUE

\* the database after an operation that succeeds
After(db, x) ==
  CASE x.kind = "register" -> Bound(Put(db, x.offer), x)
    [] x.kind = "bind"     -> Bound(db, x)
    [] x.kind = "revoke"   -> [db EXCEPT !.offers[x.offer] = "revoked"]
    [] x.kind = "read"     -> db

\* the database after an operation that is refused: store.js has put the
\* offer by the time bindUsername refuses its name
Leftover(db, x) == IF x.kind = "register" THEN Put(db, x.offer) ELSE db

-----------------------------------------------------------------------------
(* PostgreSQL. *)

\* Mutant of Query: no transaction around the offer and its name.
QueryPiecemeal(r, x) ==
  /\ file' = IF Succeeds(file, x) THEN After(file, x) ELSE Leftover(file, x)
  /\ pc' = [pc EXCEPT ![r] = IF Succeeds(file, x) THEN "done" ELSE "refused"]

\* one transaction, committed or rolled back
Query(r, x) ==
  /\ file' = IF Succeeds(file, x) THEN After(file, x) ELSE file
  /\ pc' = [pc EXCEPT ![r] = IF Succeeds(file, x) THEN "done" ELSE "refused"]

AskPostgres(r, x) ==
  /\ backend = "postgres" /\ pc[r] = "idle"
  /\ op' = [op EXCEPT ![r] = x]
  /\ Query(r, x)
  /\ UNCHANGED <<backend, memoryVars, writeVars, got, faults, crashes>>

-----------------------------------------------------------------------------
(* The JSON store. *)

\* Mutant of Saved: the latest snapshot is written first.
SavedFirst(r, db) == <<[by |-> r, db |-> db]>> \o queue

\* save() takes its snapshot when it is called
Saved(r, db) == Append(queue, [by |-> r, db |-> db])

\* The operation x on the database db, which is then the memory.  A
\* revocation comes later: DELETE first reads the entry, then the body.
Serve(r, x, db) ==
  LET ok == Succeeds(db, x) IN
    IF x.kind \in {"register", "bind"}
    THEN /\ memory' = IF ok THEN After(db, x) ELSE Leftover(db, x)
         /\ queue' = IF ok THEN Saved(r, After(db, x)) ELSE queue
         /\ pc' = [pc EXCEPT ![r] = IF ok THEN "saving" ELSE "refused"]
    ELSE /\ memory' = db
         /\ pc' = [pc EXCEPT ![r] = IF x.kind = "read" THEN "done"
                                    ELSE IF db.offers[x.offer] = "absent" THEN "refused"
                                    ELSE "checked"]
         /\ UNCHANGED queue

\* load() finds the file already read
AskLoaded(r, x) ==
  /\ backend = "json" /\ pc[r] = "idle" /\ loaded
  /\ op' = [op EXCEPT ![r] = x]
  /\ Serve(r, x, memory)
  /\ UNCHANGED <<backend, loaded, raced, file, writing, got, faults, crashes>>

\* load() calls readFile; every request that comes before the first one is
\* back does
AskUnloaded(r, x) ==
  /\ backend = "json" /\ pc[r] = "idle" /\ ~loaded
  /\ op' = [op EXCEPT ![r] = x]
  /\ pc' = [pc EXCEPT ![r] = "reading"]
  /\ UNCHANGED <<backend, memoryVars, file, writeVars, got, faults, crashes>>

ReadFile(r) ==
  /\ pc[r] = "reading"
  /\ got' = [got EXCEPT ![r] = file]
  /\ pc' = [pc EXCEPT ![r] = "loading"]
  /\ UNCHANGED <<backend, memoryVars, file, writeVars, op, faults, crashes>>

\* The request goes on with what it read, even when another one has loaded
\* the file and changed the memory meanwhile.  A missing file leaves the
\* memory alone.
Load(r) ==
  /\ pc[r] = "loading" /\ got[r] # Torn
  /\ LET db == IF got[r] = Missing THEN memory ELSE got[r] IN
       /\ Serve(r, op[r], db)
       /\ raced' = (raced \/ (loaded /\ db # memory))
  /\ loaded' = TRUE
  /\ got' = [got EXCEPT ![r] = Missing]
  /\ UNCHANGED <<backend, file, writing, op, faults, crashes>>

\* JSON.parse throws, and the next request reads the file again
LoadFails(r) ==
  /\ pc[r] = "loading" /\ got[r] = Torn
  /\ pc' = [pc EXCEPT ![r] = "refused"]
  /\ got' = [got EXCEPT ![r] = Missing]
  /\ UNCHANGED <<backend, memoryVars, file, writeVars, op, faults, crashes>>

\* revokeOffer, after the body was read and the proof verified
Revoke(r) ==
  /\ pc[r] = "checked"
  /\ LET ok == Succeeds(memory, op[r]) IN
       /\ memory' = IF ok THEN After(memory, op[r]) ELSE memory
       /\ queue' = IF ok THEN Saved(r, After(memory, op[r])) ELSE queue
       /\ pc' = [pc EXCEPT ![r] = IF ok THEN "saving" ELSE "refused"]
  /\ UNCHANGED <<backend, loaded, raced, file, writing, op, got, faults, crashes>>

\* Mutant of NextWrite: a write that failed rejects the ones after it.
NextWriteUnlessFailed == queue # <<>> /\ writing = {} /\ faults = 0

\* writeQueue.catch(() => {}).then(...)
NextWrite == queue # <<>> /\ writing = {}

StartWrite ==
  /\ NextWrite
  /\ writing' = {Head(queue)}
  /\ queue' = Tail(queue)
  /\ file' = Torn
  /\ UNCHANGED <<backend, memoryVars, requestVars, faults, crashes>>

EndWrite ==
  \E s \in writing :
    /\ writing' = {}
    /\ file' = s.db
    /\ pc' = [pc EXCEPT ![s.by] = "done"]
    /\ UNCHANGED <<backend, memoryVars, queue, op, got, faults, crashes>>

\* mkdir or the opening of the file fails, and the file is as it was
RefuseWrite ==
  /\ NextWrite /\ faults < MaxFaults
  /\ faults' = faults + 1
  /\ queue' = Tail(queue)
  /\ pc' = [pc EXCEPT ![Head(queue).by] = "refused"]
  /\ UNCHANGED <<backend, memoryVars, file, writing, op, got, crashes>>

\* the disk fills up while the file is written
BreakWrite ==
  \E s \in writing :
    /\ faults < MaxFaults
    /\ faults' = faults + 1
    /\ writing' = {}
    /\ pc' = [pc EXCEPT ![s.by] = "refused"]
    /\ UNCHANGED <<backend, memoryVars, file, queue, op, got, crashes>>

\* The process dies and another one starts on the same file.
Crash ==
  /\ backend = "json" /\ crashes < MaxCrashes
  /\ crashes' = crashes + 1
  /\ memory' = Empty /\ loaded' = FALSE
  /\ queue' = <<>> /\ writing' = {}
  /\ pc' = [r \in Requests |-> IF pc[r] \in {"idle", "done", "refused"} THEN pc[r] ELSE "lost"]
  /\ got' = [r \in Requests |-> Missing]
  /\ UNCHANGED <<backend, raced, file, op, faults>>

-----------------------------------------------------------------------------
Ask(r) ==
  \E x \in Asked : AskPostgres(r, x) \/ AskLoaded(r, x) \/ AskUnloaded(r, x)

Handle(r) == ReadFile(r) \/ Load(r) \/ LoadFails(r) \/ Revoke(r)

Write == StartWrite \/ EndWrite \/ RefuseWrite \/ BreakWrite

Next ==
  \/ \E r \in Requests : Ask(r) \/ Handle(r)
  \/ Write
  \/ Crash

\* A live process goes on, and a read or a write of the file ends.
Fairness == WF_vars(Write) /\ \A r \in Requests : WF_vars(Handle(r))

SafetySpec == Init /\ [][Next]_vars
Spec == SafetySpec /\ Fairness

-----------------------------------------------------------------------------
(* Safety. *)

Holds(db, x) ==
  CASE x.kind \in {"register", "bind"} ->
         db.offers[x.offer] # "absent" /\ (x.name \in Names => db.names[x.name] = x.offer)
    [] x.kind = "revoke" -> db.offers[x.offer] = "revoked"
    [] x.kind = "read"   -> TRUE

\* x can be seen now and after a restart; a torn file is one of the two ways
\* in which the JSON store forgets
Kept(x) ==
  /\ file # Missing
  /\ file # Torn => Holds(file, x)
  /\ loaded => Holds(memory, x)

\* An offer or a name that was answered for is still there, whatever was
\* registered, bound, revoked, refused or not written since, and after a
\* restart; short of a torn file, and of a load that overtook a request.
RegistrationsKept ==
  ~raced => \A r \in Requests :
    (pc[r] = "done" /\ op[r].kind \in {"register", "bind"}) => Kept(op[r])

\* So is a revocation: no registration of the same offer undoes it.
RevocationsKept ==
  ~raced => \A r \in Requests : (pc[r] = "done" /\ op[r].kind = "revoke") => Kept(op[r])

\* PostgreSQL: a registration that was refused registered nothing, the offer
\* included, although the name is looked at after the offer is written.
RefusedRegistersNothing ==
  backend = "postgres" => \A o \in Offers :
    file.offers[o] # "absent" =>
      \E r \in Requests : pc[r] = "done" /\ op[r].kind = "register" /\ op[r].offer = o

-----------------------------------------------------------------------------
(* Liveness. *)

\* Every request is answered or dies with its process: a write that fails
\* stops no other.
EveryRegistryRequestAnswered ==
  \A r \in Requests : pc[r] # "idle" ~> pc[r] \in {"done", "refused", "lost"}
===============================================================================
