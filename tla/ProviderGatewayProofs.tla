------------------------ MODULE ProviderGatewayProofs ------------------------
(***************************************************************************)
(* Proofs about ProviderGateway for every set of pods, keys, resources and *)
(* operations and any number of requests and faults.  The inductive        *)
(* invariant has one part per key (KeyInv), one per request (ReqInv), one  *)
(* for pairs of requests (a turn has one executor), one for the leases and *)
(* one for the configuration (ConfigInv).  A second invariant, inductive   *)
(* together with it, accounts for tokens and leases (AccountInv).          *)
(***************************************************************************)
EXTENDS ProviderGateway, TLAPS, FiniteSetTheorems

ExecPcs == {"insert", "select", "check", "tokens", "lease", "call", "calling", "failure",
            "success", "settle", "untoken", "unlease", "persist", "publish"}

Pcs == {"idle", "reserve", "lookup", "subscribed", "poll", "done", "gone"} \cup ExecPcs

RequestRecords ==
  [pc : Pcs, pod : Pods \cup {None}, key : Keys \cup {None}, body : Bodies \cup {None},
   late : BOOLEAN, snapshot : Configs \cup {None}, todo : Seq(Resources), able : Seq(Resources),
   at : Nat, tries : Nat, held : Nat, leased : BOOLEAN, out : Outcomes]

Leases == [key : Keys \cup {None}, scope : Nat, by : AllRequests]

Health == [failures : Nat, state : {"closed", "open", "half_open"}, cooling : BOOLEAN]

Databases ==
  [turns : [Keys -> TurnRows \cup {None}], usage : Nat, leases : SUBSET Leases,
   health : [Circuits -> Health]]

Calls == AllRequests \X (1..(MaxSwitches + 1)) \X (1..MaxAttempts)

Types ==
  /\ scenario \in Scenarios
  /\ db \in Databases
  /\ memory \in [Pods -> [Keys -> {None, "in_progress", "settled"}]]
  /\ req \in [AllRequests -> RequestRecords]
  /\ conf \in [Pods -> Configs \cup {None}]
  /\ spent \in [Keys -> SUBSET Calls]
  /\ oks \in [Keys -> SUBSET (AllRequests \cup {None})]

Exec(r) == req[r].pc \in ExecPcs

(* What a key's row says of the calls made and of the responses returned *)
KeyInv(k) ==
  /\ db.turns[k] = None => spent[k] = {} /\ oks[k] = {}
  /\ \A c, d \in spent[k] : c[1] = d[1]
  /\ \A b, c \in oks[k] : b = c
  /\ db.turns[k] # None =>
       /\ \A b \in oks[k] : \/ db.turns[k].state = "expired"
                            \/ db.turns[k].state = "completed" /\ db.turns[k].out.by = b
       /\ db.turns[k].state \in {"completed", "failed"} => db.turns[k].out # None
       /\ db.turns[k].state = "failed" => ~db.turns[k].out.ok

(* Calls may be in flight, or may still be made *)
NeedsLease(r) ==
  \/ req[r].pc = "calling"
  \/ req[r].pc \in {"call", "failure"} /\ ~req[r].late

ReqInv(r) ==
  /\ req[r].pc # "idle" => req[r].key \in Keys
  /\ Live(r) => req[r].pod \in Pods /\ conf[req[r].pod] # None /\ req[r].body \in Bodies
  /\ req[r].pc \in {"lookup", "poll"} => db.turns[req[r].key] # None
  /\ req[r].pc \in ExecPcs \ {"insert", "select"} => req[r].snapshot # None
  /\ Exec(r) =>
       /\ db.turns[req[r].key] # None
       /\ req[r].pc # "publish" => db.turns[req[r].key].state = "in_progress"
       /\ \A c \in spent[req[r].key] : c[1] = r
  /\ req[r].pc = "publish" /\ req[r].out.ok =>
       \/ db.turns[req[r].key].state = "completed" /\ db.turns[req[r].key].out = req[r].out
       \/ db.turns[req[r].key].state = "expired" /\ oks[req[r].key] \subseteq {req[r].out.by}
  /\ req[r].pc \in {"call", "calling", "failure"} => req[r].at \in 1..(MaxSwitches + 1)
  /\ req[r].pc = "calling" => req[r].tries \in 1..MaxAttempts
  /\ req[r].pc \in {"failure", "success", "settle", "untoken", "unlease", "persist", "publish"} =>
       req[r].out # None
  /\ NeedsLease(r) => Lease(r) \in db.leases

OneExecutor == \A q, r \in AllRequests : Exec(q) /\ Exec(r) /\ req[q].key = req[r].key => q = r

LeasesOf(d, s) == {l \in d.leases : l.scope = s}

LeaseInv ==
  /\ IsFiniteSet(db.leases)
  /\ \A s \in Nat : Cardinality(LeasesOf(db, s)) <= MaxConcurrent

TurnInv ==
  /\ Types
  /\ \A k \in Keys : KeyInv(k)
  /\ \A r \in AllRequests : ReqInv(r)
  /\ OneExecutor
  /\ LeaseInv

Handlers ==
  [pc : {"idle", "reserve", "save", "refresh", "complete", "discard", "acked", "failed", "gone"},
   pod : Pods \cup {None}, expected : Nat]

Loads ==
  [pc : {"idle", "load", "loading", "install", "mark", "start", "opened", "starting"},
   pod : Pods \cup {None}, before : Nat, read : Configs \cup {None}, tries : Nat]

ConfigTypes ==
  /\ config \in Configs /\ trail \subseteq Configs
  /\ op \in [Operations -> Handlers]
  /\ applied \in [Operations -> Nat]
  /\ refresh \in [Refreshers -> Loads]
  /\ version \in [Pods -> Nat] /\ started \subseteq Pods

(* Revisions only grow, and an operation that has created one does not find *)
(* the revision it expects again.                                           *)
OpInv(o) ==
  /\ op[o].expected <= config[Table(o)]
  /\ applied[o] <= 1
  /\ applied[o] = 1 => op[o].pc # "idle" /\ op[o].expected < config[Table(o)]

(* What a load has read is not newer than the database, and not older than  *)
(* the version it began with as far as the first table goes.                *)
LoadInv(f) ==
  /\ refresh[f].pc = "install" => refresh[f].read \in trail
  /\ refresh[f].pc = "opened" => refresh[f].before <= config.resources + config.policies
  /\ refresh[f].pc \in {"loading", "starting"} =>
       /\ refresh[f].read \in Configs
       /\ refresh[f].read.resources <= config.resources
       /\ refresh[f].before <= refresh[f].read.resources + config.policies

(* The steps of a pod that does not serve yet, and those of an operation's  *)
(* handler under way                                                        *)
StartPcs == {"start", "opened", "starting"}

Busy == {"reserve", "save", "refresh", "complete", "discard"}

(* A pod has a snapshot unless it is starting; its load is its own.         *)
PodInv(p) ==
  /\ conf[p] = None <=> refresh[p].pc \in StartPcs
  /\ refresh[p].pc # "idle" => refresh[p].pod = p

(* A handler, and its load with it, runs in a pod that serves.              *)
HandlerInv(o) ==
  /\ op[o].pc \in Busy => op[o].pod \in Pods /\ conf[op[o].pod] # None
  /\ refresh[o].pc # "idle" => /\ op[o].pc = "refresh" /\ refresh[o].pod = op[o].pod
                               /\ refresh[o].pc \notin StartPcs

(* A load that stores its version has replaced what a start left.           *)
MarkInv(f) == refresh[f].pc = "mark" => refresh[f].pod \notin started

ServeInv ==
  /\ \A p \in Pods : PodInv(p)
  /\ \A o \in Operations : HandlerInv(o)
  /\ \A f \in Refreshers : MarkInv(f)

(* What every pod serves, the database has had, but for pods that started   *)
(* while something was written.                                             *)
ConfigurationReal == \A p \in Pods : ServesReal(p)

ConfigInv ==
  /\ ConfigTypes
  /\ config \in trail
  /\ ConfigurationReal
  /\ ServeInv
  /\ \A o \in Operations : OpInv(o)
  /\ \A f \in Refreshers : LoadInv(f)

GInv == TurnInv /\ ConfigInv

-----------------------------------------------------------------------------
(* Requests and rows have their types. *)
LEMMA Typed ==
  ASSUME TurnInv, NEW r \in AllRequests
  PROVE  /\ Types /\ ReqInv(r)
         /\ db \in Databases /\ req \in [AllRequests -> RequestRecords]
         /\ req[r] \in RequestRecords
         /\ Live(r) => req[r].key \in Keys /\ req[r].pod \in Pods /\ req[r].body \in Bodies
                     /\ conf[req[r].pod] \in Configs
PROOF
  <1>1. Types /\ ReqInv(r)
    BY DEF TurnInv
  <1>2. db \in Databases /\ req \in [AllRequests -> RequestRecords] /\ req[r] \in RequestRecords
    BY <1>1 DEF Types
  <1>3. Live(r) => req[r].key \in Keys /\ req[r].pod \in Pods /\ req[r].body \in Bodies
                   /\ conf[req[r].pod] \in Configs
    BY <1>1 DEF ReqInv, Live, Types
  <1> QED BY <1>1, <1>2, <1>3

(* The fields of the database. *)
LEMMA DbFields ==
  ASSUME NEW d \in Databases
  PROVE  /\ d.turns \in [Keys -> TurnRows \cup {None}] /\ d.usage \in Nat
         /\ d.leases \in SUBSET Leases /\ d.health \in [Circuits -> Health]
  BY DEF Databases

(* Upstream calls are added only by the executor of a key, and are its own. *)
Spends(r) ==
  /\ spent' \in [Keys -> SUBSET Calls]
  /\ \A k \in Keys : \/ spent'[k] = spent[k]
                     \/ Exec(r) /\ k = req[r].key /\ \A c \in spent'[k] : c[1] = r

(* Most steps add none. *)
LEMMA SpendsNothing == ASSUME TurnInv, UNCHANGED spent, NEW r PROVE Spends(r)
  BY DEF TurnInv, Types, Spends

(* A step that moves one request and leaves rows and responses alone keeps  *)
(* the invariant when it keeps it for that request, makes it no executor    *)
(* and takes nobody else's lease.                                           *)
LEMMA ReqStep ==
  ASSUME TurnInv, NEW r \in AllRequests, NEW n \in RequestRecords,
         req' = [req EXCEPT ![r] = n],
         db' \in Databases, db'.turns = db.turns,
         memory' \in [Pods -> [Keys -> {None, "in_progress", "settled"}]],
         UNCHANGED <<scenario, conf, oks>>, Spends(r),
         LeaseInv',
         \A q \in AllRequests \ {r} : NeedsLease(q) => Lease(q) \in db'.leases,
         n.pc \in ExecPcs => Exec(r) /\ n.key = req[r].key,
         ReqInv(r)'
  PROVE  TurnInv'
PROOF
  <1>1. Types /\ OneExecutor /\ req \in [AllRequests -> RequestRecords]
    BY DEF TurnInv, Types
  <1>2. /\ req' \in [AllRequests -> RequestRecords] /\ req'[r] = n
        /\ \A q \in AllRequests \ {r} : req'[q] = req[q]
    BY <1>1
  <1>3. Types'
    BY <1>1, <1>2 DEF Types, Spends
  <1>4. ASSUME NEW k \in Keys PROVE KeyInv(k)'
    <2>1. KeyInv(k)
      BY DEF TurnInv
    <2>2. CASE spent'[k] = spent[k]
      BY <2>1, <2>2 DEF KeyInv
    <2>3. CASE Exec(r) /\ k = req[r].key /\ \A c \in spent'[k] : c[1] = r
      <3>1. db.turns[k] # None
        BY <2>3 DEF TurnInv, ReqInv
      <3> QED BY <2>1, <2>3, <3>1 DEF KeyInv
    <2> QED BY <2>2, <2>3 DEF Spends
  <1>5. ASSUME NEW q \in AllRequests \ {r} PROVE ReqInv(q)'
    <2>1. ReqInv(q) /\ req'[q] = req[q]
      BY <1>2 DEF TurnInv
    <2>2. Exec(q)' <=> Exec(q)
      BY <2>1 DEF Exec
    <2>3. (NeedsLease(q)' <=> NeedsLease(q)) /\ Lease(q)' = Lease(q) /\ (Live(q)' <=> Live(q))
      BY <2>1 DEF NeedsLease, Lease, Live
    <2>4. Exec(q) => \A c \in spent'[req[q].key] : c[1] = q
      <3> SUFFICES ASSUME Exec(q) PROVE \A c \in spent'[req[q].key] : c[1] = q
        OBVIOUS
      <3>1. req[q].key \in Keys /\ \A c \in spent[req[q].key] : c[1] = q
        BY <2>1 DEF ReqInv, Exec, ExecPcs
      <3>2. ~(Exec(r) /\ req[q].key = req[r].key)
        BY <1>1 DEF OneExecutor
      <3> QED BY <3>1, <3>2 DEF Spends
    <2> QED BY <2>1, <2>2, <2>3, <2>4 DEF ReqInv
  <1>6. OneExecutor'
    <2> SUFFICES ASSUME NEW p \in AllRequests, NEW q \in AllRequests, Exec(p)', Exec(q)',
                        req'[p].key = req'[q].key
                 PROVE  p = q
      BY DEF OneExecutor
    <2>1. Exec(p) /\ Exec(q) /\ req[p].key = req'[p].key /\ req[q].key = req'[q].key
      BY <1>2 DEF Exec
    <2> QED BY <1>1, <2>1 DEF OneExecutor
  <1> QED BY <1>3, <1>4, <1>5, <1>6 DEF TurnInv

(* The conditions on an executor's next record n that keep ReqInv. *)
Fit(r, n) ==
  /\ n \in RequestRecords
  /\ n.pc \in ExecPcs \ {"publish"}
  /\ n.key = req[r].key /\ n.pod = req[r].pod /\ n.body = req[r].body
  /\ n.pc \in ExecPcs \ {"insert", "select"} => n.snapshot # None
  /\ n.pc \in {"call", "calling", "failure"} => n.at \in 1..(MaxSwitches + 1)
  /\ n.pc = "calling" => n.tries \in 1..MaxAttempts
  /\ n.pc \in {"failure", "success", "settle", "untoken", "unlease", "persist"} => n.out # None

NeedsLeaseIn(n) ==
  \/ n.pc = "calling"
  \/ n.pc \in {"call", "failure"} /\ ~n.late

(* An executor that goes on, with rows and responses as they are. *)
LEMMA ExecStep ==
  ASSUME TurnInv, NEW r \in AllRequests, Exec(r), req[r].pc # "publish",
         NEW n, Fit(r, n), req' = [req EXCEPT ![r] = n],
         NeedsLeaseIn(n) =>
           [key |-> n.key, scope |-> n.snapshot.policies, by |-> r] \in db'.leases,
         db' \in Databases, db'.turns = db.turns,
         memory' \in [Pods -> [Keys -> {None, "in_progress", "settled"}]],
         UNCHANGED <<scenario, conf, oks>>, Spends(r),
         LeaseInv',
         \A q \in AllRequests \ {r} : NeedsLease(q) => Lease(q) \in db'.leases
  PROVE  TurnInv'
PROOF
  <1>1. Types /\ ReqInv(r) /\ req \in [AllRequests -> RequestRecords]
    BY Typed
  <1>2. req'[r] = n
    BY <1>1
  <1>3. Live(r)
    BY DEF Exec, ExecPcs, Live
  <1>4. n.key \in Keys /\ n.pod \in Pods /\ conf[n.pod] # None /\ n.body \in Bodies
    BY <1>3, Typed, NoneAssumption DEF Fit
  <1>5. /\ db'.turns[n.key] # None /\ db'.turns[n.key].state = "in_progress"
        /\ \A c \in spent'[n.key] : c[1] = r
    BY <1>1, <1>4 DEF ReqInv, Fit, Spends
  <1>6. NeedsLease(r)' => Lease(r)' \in db'.leases
    BY <1>2 DEF NeedsLease, NeedsLeaseIn, Lease
  <1>7. ReqInv(r)'
    BY <1>2, <1>4, <1>5, <1>6 DEF ReqInv, Fit, Exec, ExecPcs
  <1> QED BY <1>7, ReqStep DEF Fit

(* Leases nobody touched bound what they bounded. *)
LEMMA SameLeases ==
  ASSUME TurnInv, db'.leases = db.leases
  PROVE  /\ LeaseInv'
         /\ \A q \in AllRequests : NeedsLease(q) => Lease(q) \in db'.leases
PROOF
  <1>1. LeaseInv /\ \A q \in AllRequests : ReqInv(q)
    BY DEF TurnInv
  <1>2. LeaseInv'
    BY <1>1 DEF LeaseInv, LeasesOf
  <1>3. \A q \in AllRequests : NeedsLease(q) => Lease(q) \in db.leases
    BY <1>1 DEF ReqInv
  <1> QED BY <1>2, <1>3

(* An executor that goes on and leaves the leases alone too. *)
LEMMA QuietStep ==
  ASSUME TurnInv, NEW r \in AllRequests, Exec(r), req[r].pc # "publish",
         NEW n, Fit(r, n), req' = [req EXCEPT ![r] = n],
         NeedsLeaseIn(n) => NeedsLease(r) /\ n.snapshot = req[r].snapshot,
         db' \in Databases, db'.turns = db.turns, db'.leases = db.leases,
         memory' \in [Pods -> [Keys -> {None, "in_progress", "settled"}]],
         UNCHANGED <<scenario, conf, spent, oks>>
  PROVE  TurnInv'
PROOF
  <1>1. NeedsLeaseIn(n) =>
          [key |-> n.key, scope |-> n.snapshot.policies, by |-> r] \in db'.leases
    BY SameLeases DEF Lease, Fit
  <1> QED BY <1>1, SameLeases, SpendsNothing, ExecStep

-----------------------------------------------------------------------------
(* Health records touch neither rows nor leases. *)
LEMMA HealthOps ==
  ASSUME NEW d \in Databases, NEW c
  PROVE  \A e \in {resource_circuit_allows(d, c), record_resource_success(d, c),
                   record_resource_retryable_failure(d, c)} :
           e \in Databases /\ e.turns = d.turns /\ e.leases = d.leases
PROOF
  <1>1. d.health \in [Circuits -> Health]
    BY DbFields
  <1>2. ASSUME NEW h \in Health
        PROVE  LET e == [d EXCEPT !.health[c] = h]
               IN  e \in Databases /\ e.turns = d.turns /\ e.leases = d.leases
    BY <1>1 DEF Databases
  <1>3. LET e == resource_circuit_allows(d, c)
        IN  e \in Databases /\ e.turns = d.turns /\ e.leases = d.leases
    <2>1. CASE c \in Circuits
      <3>1. d.health[c] \in Health
        BY <1>1, <2>1
      <3>2. [d.health[c] EXCEPT !.state = "half_open"] \in Health
        BY <3>1 DEF Health
      <3> QED BY <1>1, <1>2, <2>1, <3>2 DEF resource_circuit_allows, Databases
    <2>2. CASE c \notin Circuits
      BY <1>1, <2>2 DEF resource_circuit_allows, Databases
    <2> QED BY <2>1, <2>2
  <1>4. LET e == record_resource_success(d, c)
        IN  e \in Databases /\ e.turns = d.turns /\ e.leases = d.leases
    <2>1. [failures |-> 0, state |-> "closed", cooling |-> FALSE] \in Health
      BY DEF Health
    <2> QED BY <1>2, <2>1 DEF record_resource_success
  <1>5. LET e == record_resource_retryable_failure(d, c)
        IN  e \in Databases /\ e.turns = d.turns /\ e.leases = d.leases
    <2> DEFINE n == IF d.health[c].failures < Threshold THEN d.health[c].failures + 1
                    ELSE Threshold
               h == [failures |-> n, state |-> IF n >= Threshold THEN "open" ELSE "closed",
                     cooling |-> n >= Threshold]
    <2>1. CASE c \in Circuits
      <3>1. d.health[c].failures \in Nat
        BY <1>1, <2>1 DEF Health
      <3>2. h \in Health
        BY <3>1, GatewayAssumption DEF Health
      <3> QED BY <1>2, <3>2 DEF record_resource_retryable_failure
    <2>2. CASE c \notin Circuits
      BY <1>1, <2>2 DEF record_resource_retryable_failure, Databases
    <2> QED BY <2>1, <2>2
  <1> QED BY <1>3, <1>4, <1>5

(* The day's usage is a counter of its own. *)
LEMMA UsageOps ==
  ASSUME NEW d \in Databases, NEW m \in Nat, NEW n \in Nat
  PROVE  \A e \in {reserve_project_daily_input_tokens(d), settle_project_daily_usage(d, m, n)} :
           e \in Databases /\ e.turns = d.turns /\ e.leases = d.leases
  BY DEF reserve_project_daily_input_tokens, settle_project_daily_usage, Databases

(* Acquiring a lease keeps the bound of every scope, and expires nobody's   *)
(* lease who may still call.                                                *)
LEMMA AcquireOps ==
  ASSUME TurnInv, NEW r \in AllRequests, req[r].snapshot # None, req[r].pc # "idle",
         db' = acquire_project_concurrency_lease(db, Lease(r))
  PROVE  /\ db' \in Databases /\ db'.turns = db.turns
         /\ LeaseInv'
         /\ \A q \in AllRequests : NeedsLease(q) => Lease(q) \in db'.leases
         /\ HasRoom(db, Lease(r).scope) => Lease(r) \in db'.leases
PROOF
  <1> DEFINE l == Lease(r)
             U == Unexpired(db, l.scope)
             E == IF HasRoom(db, l.scope) THEN {l} ELSE {}
  <1>1. db \in Databases /\ db.leases \in SUBSET Leases /\ LeaseInv
    BY Typed, DbFields DEF TurnInv
  <1>2. l \in Leases /\ l.scope \in Nat
    <2>1. req[r].snapshot \in Configs /\ req[r].key \in Keys
      BY Typed DEF RequestRecords, ReqInv
    <2> QED BY <2>1 DEF Lease, Leases, Configs
  <1>3. db' = [db EXCEPT !.leases = U \cup E]
    BY DEF acquire_project_concurrency_lease
  <1>4. U \subseteq db.leases
    BY DEF Unexpired
  <1>5. db' \in Databases /\ db'.turns = db.turns /\ db'.leases = U \cup E
    BY <1>1, <1>2, <1>3, <1>4 DEF Databases
  <1>6. IsFiniteSet(db.leases) /\ IsFiniteSet(U) /\ IsFiniteSet(U \cup {l})
    BY <1>1, <1>4, FS_Subset, FS_AddElement DEF LeaseInv
  <1>7. IsFiniteSet(db'.leases)
    BY <1>5, <1>6
  <1>8. ASSUME NEW s \in Nat PROVE Cardinality(LeasesOf(db', s)) <= MaxConcurrent
    <2>1. /\ Cardinality(LeasesOf(db, s)) <= MaxConcurrent
          /\ IsFiniteSet(LeasesOf(db, s)) /\ Cardinality(LeasesOf(db, s)) \in Nat
      BY <1>1, <1>6, FS_Subset, FS_CardinalityType DEF LeaseInv, LeasesOf
    <2>2. CASE s # l.scope \/ ~HasRoom(db, l.scope)
      <3>1. LeasesOf(db', s) \in SUBSET LeasesOf(db, s)
        BY <1>4, <1>5, <2>2 DEF LeasesOf
      <3>2. Cardinality(LeasesOf(db', s)) <= Cardinality(LeasesOf(db, s))
            /\ IsFiniteSet(LeasesOf(db', s))
        BY <2>1, <3>1, FS_Subset
      <3> QED BY <2>1, <3>2, FS_CardinalityType, GatewayAssumption
    <2>3. CASE s = l.scope /\ HasRoom(db, l.scope)
      <3> DEFINE V == {u \in U : u.scope = l.scope}
      <3>1. IsFiniteSet(V) /\ Cardinality(V) \in Nat
        BY <1>6, FS_Subset, FS_CardinalityType
      <3>2. Cardinality(V) < MaxConcurrent
        BY <2>3 DEF HasRoom
      <3>3. LeasesOf(db', s) = V \cup {l}
        BY <1>5, <2>3 DEF LeasesOf
      <3>4. Cardinality(V \cup {l}) <= Cardinality(V) + 1
        BY <3>1, FS_AddElement
      <3>5. IsFiniteSet(V \cup {l}) /\ Cardinality(V \cup {l}) \in Nat
        BY <3>1, FS_AddElement, FS_CardinalityType
      <3> HIDE DEF V
      <3> QED BY <3>1, <3>2, <3>3, <3>4, <3>5, GatewayAssumption
    <2> QED BY <2>2, <2>3
  <1>9. ASSUME NEW q \in AllRequests, NeedsLease(q) PROVE Lease(q) \in db'.leases
    <2>1. Lease(q) \in db.leases
      BY <1>9 DEF TurnInv, ReqInv
    <2>2. Lease(q).by = q
      BY DEF Lease
    <2>3. ~Expired(Lease(q))
      BY <1>9, <2>2 DEF Expired, NeedsLease, Live
    <2> QED BY <1>5, <2>1, <2>3 DEF Unexpired
  <1>10. HasRoom(db, l.scope) => l \in db'.leases
    BY <1>5
  <1> QED BY <1>5, <1>7, <1>8, <1>9, <1>10 DEF LeaseInv

(* Releasing the lease of a turn takes no other executor's lease. *)
LEMMA ReleaseOps ==
  ASSUME TurnInv, NEW r \in AllRequests, Exec(r),
         db' = release_project_concurrency_lease(db, req[r].key)
  PROVE  /\ db' \in Databases /\ db'.turns = db.turns
         /\ LeaseInv'
         /\ \A q \in AllRequests \ {r} : NeedsLease(q) => Lease(q) \in db'.leases
PROOF
  <1>1. db \in Databases /\ db.leases \in SUBSET Leases /\ LeaseInv /\ OneExecutor
    BY Typed, DbFields DEF TurnInv
  <1>2. /\ db' \in Databases /\ db'.turns = db.turns
        /\ db'.leases = {l \in db.leases : l.key # req[r].key}
    BY <1>1 DEF release_project_concurrency_lease, Databases
  <1>3. IsFiniteSet(db'.leases)
    BY <1>1, <1>2, FS_Subset DEF LeaseInv
  <1>4. ASSUME NEW s \in Nat PROVE Cardinality(LeasesOf(db', s)) <= MaxConcurrent
    <2>1. LeasesOf(db', s) \in SUBSET LeasesOf(db, s)
      BY <1>2 DEF LeasesOf
    <2>2. IsFiniteSet(LeasesOf(db, s)) /\ Cardinality(LeasesOf(db, s)) <= MaxConcurrent
      BY <1>1, FS_Subset DEF LeaseInv, LeasesOf
    <2>3. Cardinality(LeasesOf(db', s)) <= Cardinality(LeasesOf(db, s))
          /\ IsFiniteSet(LeasesOf(db', s))
      BY <2>1, <2>2, FS_Subset
    <2> QED BY <2>2, <2>3, FS_CardinalityType, GatewayAssumption
  <1>5. ASSUME NEW q \in AllRequests \ {r}, NeedsLease(q) PROVE Lease(q) \in db'.leases
    <2>1. Lease(q) \in db.leases
      BY <1>5 DEF TurnInv, ReqInv
    <2>2. Exec(q)
      BY <1>5 DEF NeedsLease, Exec, ExecPcs
    <2>3. Lease(q).key # req[r].key
      BY <1>1, <2>2 DEF OneExecutor, Lease
    <2> QED BY <1>2, <2>1, <2>3
  <1> QED BY <1>2, <1>3, <1>4, <1>5 DEF LeaseInv

-----------------------------------------------------------------------------
(* An executor's record, and what is known of it. *)
LEMMA ExecFacts ==
  ASSUME TurnInv, NEW r \in AllRequests, Exec(r)
  PROVE  /\ req[r] \in RequestRecords /\ ReqInv(r) /\ db \in Databases
         /\ req[r].key \in Keys /\ req[r].pod \in Pods /\ req[r].body \in Bodies
         /\ conf[req[r].pod] \in Configs
         /\ memory \in [Pods -> [Keys -> {None, "in_progress", "settled"}]]
PROOF
  <1>1. Live(r)
    BY DEF Exec, ExecPcs, Live
  <1> QED BY <1>1, Typed DEF Types

(* An error is an outcome. *)
LEMMA Errors ==
  ASSUME NEW code \in Codes
  PROVE  Error(code) \in Results /\ Error(code) # None /\ ~Error(code).ok
PROOF
  <1>1. Error(code) \in Results
    BY DEF Error, Results
  <1>2. ~Error(code).ok
    BY DEF Error
  <1>3. Error(code) # None
    BY <1>1, NoneAssumption
  <1> QED BY <1>1, <1>2, <1>3

(* Stopping an execution with an error is a move an executor may make. *)
LEMMA StopFits ==
  ASSUME TurnInv, NEW r \in AllRequests, Exec(r), NEW code \in Codes,
         req[r].snapshot # None
  PROVE  Fit(r, Stop(r, code)) /\ ~NeedsLeaseIn(Stop(r, code))
PROOF
  <1>1. req[r] \in RequestRecords
    BY ExecFacts
  <1>2. Error(code) \in Outcomes /\ Error(code) # None
    BY Errors DEF Outcomes
  <1>3. Stop(r, code) = [req[r] EXCEPT !.pc = "persist", !.out = Error(code)]
    BY DEF Stop
  <1>4. Stop(r, code) \in RequestRecords
    BY <1>1, <1>2, <1>3 DEF RequestRecords, Pcs, ExecPcs
  <1>5. /\ Stop(r, code).pc = "persist" /\ Stop(r, code).out # None
        /\ Stop(r, code).key = req[r].key /\ Stop(r, code).pod = req[r].pod
        /\ Stop(r, code).body = req[r].body /\ Stop(r, code).snapshot = req[r].snapshot
    BY <1>1, <1>2, <1>3 DEF RequestRecords
  <1> QED BY <1>4, <1>5 DEF Fit, NeedsLeaseIn, ExecPcs

(* Registering the turn in memory keeps the invariant. *)
LEMMA InsertStep == ASSUME TurnInv, NEW r \in AllRequests, Insert(r) PROVE TurnInv'
PROOF
  <1> DEFINE n == [req[r] EXCEPT !.pc = "select"]
  <1>1. Exec(r) /\ req[r].pc = "insert"
    BY DEF Insert, Exec, ExecPcs
  <1>2. req[r] \in RequestRecords /\ db \in Databases
        /\ memory \in [Pods -> [Keys -> {None, "in_progress", "settled"}]]
    BY <1>1, ExecFacts
  <1>3. n \in RequestRecords
    BY <1>2 DEF RequestRecords, Pcs, ExecPcs
  <1>4. Fit(r, n) /\ ~NeedsLeaseIn(n)
    BY <1>2, <1>3 DEF Fit, NeedsLeaseIn, RequestRecords, ExecPcs
  <1>5. memory' \in [Pods -> [Keys -> {None, "in_progress", "settled"}]]
    BY <1>2 DEF Insert
  <1>6. req' = [req EXCEPT ![r] = n] /\ UNCHANGED <<db, scenario, conf, spent, oks>>
    BY DEF Insert, Set
  <1> HIDE DEF n
  <1> QED BY <1>1, <1>2, <1>4, <1>5, <1>6, QuietStep

(* Selecting policy and candidates keeps the invariant. *)
LEMMA SelectStep == ASSUME TurnInv, NEW r \in AllRequests, Select(r) PROVE TurnInv'
PROOF
  <1>1. Exec(r) /\ req[r].pc = "select"
    BY DEF Select, Exec, ExecPcs
  <1>2. /\ req[r] \in RequestRecords /\ db \in Databases /\ req[r].pod \in Pods
        /\ memory \in [Pods -> [Keys -> {None, "in_progress", "settled"}]]
        /\ conf[req[r].pod] \in Configs /\ scenario \in Scenarios
    BY <1>1, ExecFacts, Typed DEF Types
  <1>3. PICK c \in scenario.lists :
          req' = [req EXCEPT ![r] =
                    IF c = <<>>
                    THEN [Stop(r, "model_resource_not_allowed") EXCEPT !.snapshot = conf[req[r].pod]]
                    ELSE [req[r] EXCEPT !.pc = "check", !.todo = c, !.snapshot = conf[req[r].pod]]]
    BY DEF Select, Set
  <1>4. c \in Seq(Resources) /\ conf[req[r].pod] # None
    BY <1>2, GatewayAssumption, NoneAssumption
  <1>5. UNCHANGED <<db, memory, scenario, conf, spent, oks>>
    BY DEF Select
  <1>6. CASE c = <<>>
    <2> DEFINE e == Error("model_resource_not_allowed")
               n == [req[r] EXCEPT !.pc = "persist", !.out = e, !.snapshot = conf[req[r].pod]]
    <2>1. e \in Outcomes /\ e # None
      BY Errors DEF Codes, Outcomes
    <2> HIDE DEF e
    <2>2. n \in RequestRecords
      BY <1>2, <2>1 DEF RequestRecords, Pcs, ExecPcs
    <2>3. Fit(r, n) /\ ~NeedsLeaseIn(n)
      BY <1>2, <1>4, <2>1, <2>2 DEF Fit, NeedsLeaseIn, RequestRecords, ExecPcs
    <2>4. req' = [req EXCEPT ![r] = n]
      <3>1. [Stop(r, "model_resource_not_allowed") EXCEPT !.snapshot = conf[req[r].pod]] = n
        BY <1>2 DEF Stop, RequestRecords, e
      <3> QED BY <1>3, <1>6, <3>1
    <2> HIDE DEF n
    <2> QED BY <1>1, <1>2, <1>5, <2>3, <2>4, QuietStep
  <1>7. CASE c # <<>>
    <2> DEFINE n == [req[r] EXCEPT !.pc = "check", !.todo = c, !.snapshot = conf[req[r].pod]]
    <2>1. n \in RequestRecords
      BY <1>2, <1>4 DEF RequestRecords, Pcs, ExecPcs
    <2>2. Fit(r, n) /\ ~NeedsLeaseIn(n)
      BY <1>2, <1>4, <2>1 DEF Fit, NeedsLeaseIn, RequestRecords, ExecPcs
    <2>3. req' = [req EXCEPT ![r] = n]
      BY <1>3, <1>7
    <2> HIDE DEF n
    <2> QED BY <1>1, <1>2, <1>5, <2>2, <2>3, QuietStep
  <1> QED BY <1>6, <1>7

(* Asking a candidate's circuit keeps the invariant. *)
LEMMA CheckStep == ASSUME TurnInv, NEW r \in AllRequests, Check(r) PROVE TurnInv'
PROOF
  <1> DEFINE m == Head(req[r].todo)
  <1>1. Exec(r) /\ req[r].pc = "check"
    BY DEF Check, Exec, ExecPcs
  <1>2. /\ req[r] \in RequestRecords /\ ReqInv(r) /\ db \in Databases
        /\ memory \in [Pods -> [Keys -> {None, "in_progress", "settled"}]]
    BY <1>1, ExecFacts
  <1>3. req[r].snapshot # None
    BY <1>1, <1>2 DEF ReqInv, ExecPcs
  <1>4. UNCHANGED <<memory, scenario, conf, spent, oks>>
    BY DEF Check
  <1>5. CASE req[r].todo # <<>>
    <2> DEFINE able == IF Allows(db, Circuit(r, m)) THEN Append(req[r].able, m) ELSE req[r].able
               n == [req[r] EXCEPT !.todo = Tail(@), !.able = able]
    <2>1. m \in Resources /\ Tail(req[r].todo) \in Seq(Resources) /\ able \in Seq(Resources)
      BY <1>2, <1>5 DEF RequestRecords
    <2>2. req' = [req EXCEPT ![r] = n] /\ db' = resource_circuit_allows(db, Circuit(r, m))
      <3>1. [req[r] EXCEPT !.todo = Tail(@),
                           !.able = IF Allows(db, Circuit(r, m)) THEN Append(@, m) ELSE @] = n
        BY <1>2 DEF RequestRecords
      <3> QED BY <1>5, <3>1 DEF Check, Set
    <2>3. db' \in Databases /\ db'.turns = db.turns /\ db'.leases = db.leases
      BY <1>2, <2>2, HealthOps
    <2> HIDE DEF able, m
    <2>4. n \in RequestRecords
      BY <1>2, <2>1 DEF RequestRecords
    <2>5. Fit(r, n) /\ ~NeedsLeaseIn(n)
      BY <1>1, <1>2, <1>3, <2>4 DEF Fit, NeedsLeaseIn, RequestRecords, ExecPcs
    <2> HIDE DEF n
    <2> QED BY <1>1, <1>2, <1>4, <2>2, <2>3, <2>5, QuietStep
  <1>6. CASE req[r].todo = <<>> /\ req[r].able = <<>>
    <2>1. req' = [req EXCEPT ![r] = Stop(r, "provider_unavailable")] /\ UNCHANGED db
      BY <1>6 DEF Check, Set
    <2>2. Fit(r, Stop(r, "provider_unavailable")) /\ ~NeedsLeaseIn(Stop(r, "provider_unavailable"))
      BY <1>1, <1>3, StopFits DEF Codes
    <2> QED BY <1>1, <1>2, <1>4, <2>1, <2>2, QuietStep
  <1>7. CASE req[r].todo = <<>> /\ req[r].able # <<>>
    <2> DEFINE n == [req[r] EXCEPT !.pc = "tokens"]
    <2>1. req' = [req EXCEPT ![r] = n] /\ UNCHANGED db
      BY <1>7 DEF Check, Set
    <2>2. n \in RequestRecords
      BY <1>2 DEF RequestRecords, Pcs, ExecPcs
    <2>3. Fit(r, n) /\ ~NeedsLeaseIn(n)
      BY <1>2, <1>3, <2>2 DEF Fit, NeedsLeaseIn, RequestRecords, ExecPcs
    <2> HIDE DEF n
    <2> QED BY <1>1, <1>2, <1>4, <2>1, <2>3, QuietStep
  <1> QED BY <1>5, <1>6, <1>7

(* Reserving tokens keeps the invariant. *)
LEMMA ReserveTokensStep == ASSUME TurnInv, NEW r \in AllRequests, ReserveTokens(r) PROVE TurnInv'
PROOF
  <1>1. Exec(r) /\ req[r].pc = "tokens"
    BY DEF ReserveTokens, Exec, ExecPcs
  <1>2. /\ req[r] \in RequestRecords /\ ReqInv(r) /\ db \in Databases
        /\ memory \in [Pods -> [Keys -> {None, "in_progress", "settled"}]]
    BY <1>1, ExecFacts
  <1>3. req[r].snapshot # None
    BY <1>1, <1>2 DEF ReqInv, ExecPcs
  <1>4. UNCHANGED <<memory, scenario, conf, spent, oks>>
    BY DEF ReserveTokens
  <1>5. CASE db.usage + 1 <= DailyTokens
    <2> DEFINE n == [req[r] EXCEPT !.pc = "lease", !.held = 1]
    <2>1. req' = [req EXCEPT ![r] = n] /\ db' = reserve_project_daily_input_tokens(db)
      BY <1>5 DEF ReserveTokens, Set
    <2>2. db' \in Databases /\ db'.turns = db.turns /\ db'.leases = db.leases
      BY <1>2, <2>1, UsageOps
    <2>3. n \in RequestRecords
      BY <1>2 DEF RequestRecords, Pcs, ExecPcs
    <2>4. Fit(r, n) /\ ~NeedsLeaseIn(n)
      BY <1>2, <1>3, <2>3 DEF Fit, NeedsLeaseIn, RequestRecords, ExecPcs
    <2> HIDE DEF n
    <2> QED BY <1>1, <1>2, <1>4, <2>1, <2>2, <2>4, QuietStep
  <1>6. CASE ~(db.usage + 1 <= DailyTokens)
    <2> DEFINE n == Stop(r, "gateway_quota_exceeded")
    <2>1. req' = [req EXCEPT ![r] = n] /\ UNCHANGED db
      BY <1>6 DEF ReserveTokens, Set
    <2>2. Fit(r, n) /\ ~NeedsLeaseIn(n)
      BY <1>1, <1>3, StopFits DEF Codes
    <2> HIDE DEF n
    <2> QED BY <1>1, <1>2, <1>4, <2>1, <2>2, QuietStep
  <1> QED BY <1>5, <1>6

(* Acquiring the concurrency lease keeps the invariant. *)
LEMMA AcquireLeaseStep == ASSUME TurnInv, NEW r \in AllRequests, AcquireLease(r) PROVE TurnInv'
PROOF
  <1>1. Exec(r) /\ req[r].pc = "lease"
    BY DEF AcquireLease, Exec, ExecPcs
  <1>2. /\ req[r] \in RequestRecords /\ ReqInv(r) /\ db \in Databases
        /\ memory \in [Pods -> [Keys -> {None, "in_progress", "settled"}]]
    BY <1>1, ExecFacts
  <1>3. req[r].snapshot # None
    BY <1>1, <1>2 DEF ReqInv, ExecPcs
  <1>4. UNCHANGED <<memory, scenario, conf, spent, oks>>
    BY DEF AcquireLease
  <1>5. /\ db' \in Databases /\ db'.turns = db.turns /\ LeaseInv'
        /\ \A q \in AllRequests : NeedsLease(q) => Lease(q) \in db'.leases
        /\ HasRoom(db, Lease(r).scope) => Lease(r) \in db'.leases
    BY <1>1, <1>3, AcquireOps DEF AcquireLease
  <1>6. CASE HasRoom(db, Lease(r).scope)
    <2> DEFINE n == [req[r] EXCEPT !.pc = "call", !.at = 1, !.leased = TRUE]
    <2>1. req' = [req EXCEPT ![r] = n]
      BY <1>6 DEF AcquireLease, Set
    <2>2. n \in RequestRecords
      BY <1>2 DEF RequestRecords, Pcs, ExecPcs
    <2>3. n.pc = "call" /\ n.at = 1 /\ n.key = req[r].key /\ n.pod = req[r].pod
          /\ n.body = req[r].body /\ n.snapshot = req[r].snapshot
      BY <1>2 DEF RequestRecords
    <2> HIDE DEF n
    <2>4. Fit(r, n)
      BY <1>3, <2>2, <2>3, GatewayAssumption DEF Fit, ExecPcs
    <2>5. [key |-> n.key, scope |-> n.snapshot.policies, by |-> r] \in db'.leases
      BY <1>5, <1>6, <2>3 DEF Lease
    <2> QED BY <1>1, <1>2, <1>4, <1>5, <2>1, <2>4, <2>5, SpendsNothing, ExecStep
  <1>7. CASE ~HasRoom(db, Lease(r).scope)
    <2> DEFINE n == [req[r] EXCEPT !.pc = "untoken", !.out = Error("gateway_overloaded")]
    <2>1. req' = [req EXCEPT ![r] = n]
      BY <1>7 DEF AcquireLease, Set, Overloaded
    <2>2. Error("gateway_overloaded") \in Outcomes /\ Error("gateway_overloaded") # None
      BY Errors DEF Codes, Outcomes
    <2>3. n \in RequestRecords
      BY <1>2, <2>2 DEF RequestRecords, Pcs, ExecPcs
    <2>4. Fit(r, n) /\ ~NeedsLeaseIn(n)
      BY <1>2, <1>3, <2>2, <2>3 DEF Fit, NeedsLeaseIn, RequestRecords, ExecPcs
    <2> HIDE DEF n
    <2> QED BY <1>1, <1>2, <1>4, <1>5, <2>1, <2>4, SpendsNothing, ExecStep
  <1> QED BY <1>6, <1>7

-----------------------------------------------------------------------------
(* The next candidate or the end of the turn is a move an executor may      *)
(* make, and needs a lease only if there was time left.                     *)
LEMMA FailedFits ==
  ASSUME TurnInv, NEW r \in AllRequests, req[r].pc \in {"call", "calling", "failure"},
         NEW code \in Codes
  PROVE  /\ Fit(r, Failed(r, code))
         /\ Failed(r, code).snapshot = req[r].snapshot
         /\ NeedsLeaseIn(Failed(r, code)) => ~req[r].late
PROOF
  <1>1. Exec(r)
    BY DEF Exec, ExecPcs
  <1>2. req[r] \in RequestRecords /\ ReqInv(r) /\ req[r].at \in Nat
    BY <1>1, ExecFacts DEF RequestRecords
  <1>3. req[r].snapshot # None /\ req[r].at \in 1..(MaxSwitches + 1)
    BY <1>1, <1>2 DEF ReqInv, ExecPcs
  <1> DEFINE e == Error(code)
  <1>4. e \in Outcomes /\ e # None
    BY Errors DEF Outcomes
  <1>5. CASE MaySwitch(r, code)
    <2> DEFINE n == [req[r] EXCEPT !.pc = "call", !.at = req[r].at + 1, !.out = e]
    <2>1. Failed(r, code) = n
      BY <1>5 DEF Failed
    <2> HIDE DEF e
    <2>0. req[r].at + 1 \in Nat
      BY <1>2
    <2>2. n \in RequestRecords
      BY <1>2, <1>4, <2>0 DEF RequestRecords, Pcs, ExecPcs
    <2>3. n.pc = "call" /\ n.at = req[r].at + 1 /\ n.key = req[r].key /\ n.pod = req[r].pod
          /\ n.body = req[r].body /\ n.snapshot = req[r].snapshot /\ n.late = req[r].late
      BY <1>2 DEF RequestRecords
    <2>4. n.at \in 1..(MaxSwitches + 1)
      BY <1>2, <1>3, <1>5, <2>3, GatewayAssumption DEF MaySwitch
    <2> HIDE DEF n
    <2> QED BY <1>3, <2>1, <2>2, <2>3, <2>4 DEF Fit, NeedsLeaseIn, ExecPcs
  <1>6. CASE ~MaySwitch(r, code)
    <2> DEFINE n == [req[r] EXCEPT !.pc = "untoken", !.out = Error(code)]
    <2>1. Failed(r, code) = n
      BY <1>6 DEF Failed
    <2>2. n \in RequestRecords
      BY <1>2, <1>4 DEF RequestRecords, Pcs, ExecPcs
    <2>3. n.pc = "untoken" /\ n.key = req[r].key /\ n.pod = req[r].pod /\ n.out # None
          /\ n.body = req[r].body /\ n.snapshot = req[r].snapshot
      BY <1>2, <1>4 DEF RequestRecords
    <2> HIDE DEF n
    <2> QED BY <1>3, <2>1, <2>2, <2>3 DEF Fit, NeedsLeaseIn, ExecPcs
  <1> QED BY <1>5, <1>6

(* So is what follows a call that failed. *)
LEMMA CallFailedFits ==
  ASSUME TurnInv, NEW r \in AllRequests, req[r].pc \in {"call", "calling"},
         NEW code \in Codes
  PROVE  /\ Fit(r, CallFailed(r, code))
         /\ NeedsLeaseIn(CallFailed(r, code)) =>
              NeedsLease(r) /\ CallFailed(r, code).snapshot = req[r].snapshot
PROOF
  <1>1. Exec(r)
    BY DEF Exec, ExecPcs
  <1>2. req[r] \in RequestRecords /\ ReqInv(r)
    BY <1>1, ExecFacts
  <1>3. req[r].snapshot # None /\ req[r].at \in 1..(MaxSwitches + 1)
    BY <1>1, <1>2 DEF ReqInv, ExecPcs
  <1>4. Error(code) \in Outcomes /\ Error(code) # None
    BY Errors DEF Outcomes
  <1>5. CASE code \in RetryableUpstream
    <2> DEFINE n == [req[r] EXCEPT !.pc = "failure", !.out = Error(code)]
    <2>1. CallFailed(r, code) = n
      BY <1>5 DEF CallFailed
    <2>2. n \in RequestRecords
      BY <1>2, <1>4 DEF RequestRecords, Pcs, ExecPcs
    <2>3. n.pc = "failure" /\ n.at = req[r].at /\ n.key = req[r].key /\ n.pod = req[r].pod
          /\ n.out # None /\ n.late = req[r].late
          /\ n.body = req[r].body /\ n.snapshot = req[r].snapshot
      BY <1>2, <1>4 DEF RequestRecords
    <2> HIDE DEF n
    <2> QED BY <1>3, <2>1, <2>2, <2>3 DEF Fit, NeedsLeaseIn, NeedsLease, ExecPcs
  <1>6. CASE code \notin RetryableUpstream
    <2>1. CallFailed(r, code) = Failed(r, code)
      BY <1>6 DEF CallFailed
    <2> QED BY <2>1, FailedFits DEF NeedsLease
  <1> QED BY <1>5, <1>6

(* Making an upstream call keeps the invariant: it is the request's own, and *)
(* the lease covers it.                                                      *)
LEMMA SpendStep ==
  ASSUME TurnInv, NEW r \in AllRequests, req[r].pc \in {"call", "calling"}, ~req[r].late,
         NEW t \in 1..MaxAttempts,
         req' = [req EXCEPT ![r] = [req[r] EXCEPT !.pc = "calling", !.tries = t]],
         spent' = [spent EXCEPT ![req[r].key] = @ \cup {<<r, req[r].at, t>>}],
         UNCHANGED <<db, memory, scenario, conf, oks>>
  PROVE  TurnInv'
PROOF
  <1> DEFINE n == [req[r] EXCEPT !.pc = "calling", !.tries = t]
  <1>1. Exec(r) /\ req[r].pc # "publish"
    BY DEF Exec, ExecPcs
  <1>2. /\ req[r] \in RequestRecords /\ ReqInv(r) /\ db \in Databases /\ req[r].key \in Keys
        /\ memory \in [Pods -> [Keys -> {None, "in_progress", "settled"}]]
    BY <1>1, ExecFacts
  <1>3. req[r].snapshot # None /\ req[r].at \in 1..(MaxSwitches + 1) /\ NeedsLease(r)
    BY <1>1, <1>2 DEF ReqInv, ExecPcs, NeedsLease
  <1>4. t \in Nat
    BY GatewayAssumption
  <1>5. n \in RequestRecords
    BY <1>2, <1>4 DEF RequestRecords, Pcs, ExecPcs
  <1>6. /\ n.pc = "calling" /\ n.tries = t /\ n.at = req[r].at /\ n.key = req[r].key
        /\ n.pod = req[r].pod /\ n.body = req[r].body /\ n.snapshot = req[r].snapshot
    BY <1>2 DEF RequestRecords
  <1>7. req' = [req EXCEPT ![r] = n]
    OBVIOUS
  <1> HIDE DEF n
  <1>8. Fit(r, n)
    BY <1>3, <1>5, <1>6 DEF Fit, ExecPcs
  <1>9. [key |-> n.key, scope |-> n.snapshot.policies, by |-> r] \in db'.leases
    BY <1>2, <1>3, <1>6 DEF ReqInv, Lease
  <1>10. Spends(r)
    <2>1. spent \in [Keys -> SUBSET Calls] /\ <<r, req[r].at, t>> \in Calls
      BY <1>3 DEF TurnInv, Types, Calls
    <2>2. spent' \in [Keys -> SUBSET Calls]
      BY <2>1
    <2>3. \A c \in spent[req[r].key] : c[1] = r
      BY <1>1, <1>2 DEF ReqInv
    <2>4. \A c \in spent'[req[r].key] : c[1] = r
      BY <1>2, <2>1, <2>3
    <2> QED BY <1>1, <2>1, <2>2, <2>4 DEF Spends
  <1> QED BY <1>1, <1>2, <1>7, <1>8, <1>9, <1>10, SameLeases, ExecStep

(* Starting a call, or being refused one, keeps the invariant. *)
LEMMA CallStep == ASSUME TurnInv, NEW r \in AllRequests, Call(r) PROVE TurnInv'
PROOF
  <1>1. Exec(r) /\ req[r].pc = "call" /\ UNCHANGED <<db, memory, scenario, conf, oks>>
    BY DEF Call, Exec, ExecPcs
  <1>2. db \in Databases /\ memory \in [Pods -> [Keys -> {None, "in_progress", "settled"}]]
    BY <1>1, ExecFacts
  <1>3. ASSUME NEW code \in {"gateway_overloaded", "provider_timeout"},
               Set(r, CallFailed(r, code)), UNCHANGED spent
        PROVE  TurnInv'
    <2>1. /\ Fit(r, CallFailed(r, code))
          /\ NeedsLeaseIn(CallFailed(r, code)) =>
               NeedsLease(r) /\ CallFailed(r, code).snapshot = req[r].snapshot
      BY <1>1, CallFailedFits DEF Codes
    <2> QED BY <1>1, <1>2, <1>3, <2>1, QuietStep DEF Set
  <1>4. CASE /\ ~req[r].late
             /\ Set(r, [req[r] EXCEPT !.pc = "calling", !.tries = 1])
             /\ spent' = [spent EXCEPT ![req[r].key] = @ \cup {<<r, req[r].at, 1>>}]
    <2>1. 1 \in 1..MaxAttempts
      BY GatewayAssumption
    <2> QED BY <1>1, <1>4, <2>1, SpendStep DEF Set
  <1> QED BY <1>3, <1>4 DEF Call

(* What the provider answers keeps the invariant. *)
LEMMA UpstreamStep == ASSUME TurnInv, NEW r \in AllRequests, Upstream(r) PROVE TurnInv'
PROOF
  <1>1. Exec(r) /\ req[r].pc = "calling" /\ UNCHANGED <<db, memory, scenario, conf, oks>>
    BY DEF Upstream, Exec, ExecPcs
  <1>2. /\ req[r] \in RequestRecords /\ ReqInv(r) /\ db \in Databases
        /\ memory \in [Pods -> [Keys -> {None, "in_progress", "settled"}]]
    BY <1>1, ExecFacts
  <1>3. ASSUME NEW code \in {"provider_unavailable", "provider_timeout",
                             "provider_response_invalid"},
               Set(r, CallFailed(r, code)), UNCHANGED spent
        PROVE  TurnInv'
    <2>1. /\ Fit(r, CallFailed(r, code))
          /\ NeedsLeaseIn(CallFailed(r, code)) =>
               NeedsLease(r) /\ CallFailed(r, code).snapshot = req[r].snapshot
      BY <1>1, CallFailedFits DEF Codes
    <2> QED BY <1>1, <1>2, <1>3, <2>1, QuietStep DEF Set
  <1>4. ASSUME NEW a \in Actual, Set(r, [req[r] EXCEPT !.pc = "success", !.out = Ok(r, a)]),
               UNCHANGED spent
        PROVE  TurnInv'
    <2> DEFINE e == Ok(r, a)
               n == [req[r] EXCEPT !.pc = "success", !.out = e]
    <2>1. e \in Results
      BY DEF Ok, Results, Codes
    <2>2. e \in Outcomes /\ e # None
      BY <2>1, NoneAssumption DEF Outcomes
    <2>3. req' = [req EXCEPT ![r] = n]
      BY <1>4 DEF Set
    <2> HIDE DEF e
    <2>4. n \in RequestRecords
      BY <1>2, <2>2 DEF RequestRecords, Pcs, ExecPcs
    <2>5. n.pc = "success" /\ n.out # None /\ n.key = req[r].key /\ n.pod = req[r].pod
          /\ n.body = req[r].body /\ n.snapshot # None
      BY <1>1, <1>2, <2>2 DEF RequestRecords, ReqInv, ExecPcs
    <2> HIDE DEF n
    <2>6. Fit(r, n) /\ ~NeedsLeaseIn(n)
      BY <2>4, <2>5 DEF Fit, NeedsLeaseIn, ExecPcs
    <2> QED BY <1>1, <1>2, <1>4, <2>3, <2>6, QuietStep
  <1>5. ASSUME MayRetry(r), Set(r, [req[r] EXCEPT !.tries = @ + 1]),
               spent' = [spent EXCEPT ![req[r].key] = @ \cup {<<r, req[r].at, req[r].tries + 1>>}]
        PROVE  TurnInv'
    <2>1. req[r].tries + 1 \in 1..MaxAttempts /\ ~req[r].late
      BY <1>1, <1>2, <1>5, GatewayAssumption DEF ReqInv, MayRetry
    <2>2. [req[r] EXCEPT !.tries = @ + 1]
            = [req[r] EXCEPT !.pc = "calling", !.tries = req[r].tries + 1]
      BY <1>1, <1>2 DEF RequestRecords
    <2> QED BY <1>1, <1>5, <2>1, <2>2, SpendStep DEF Set
  <1> QED BY <1>3, <1>4, <1>5 DEF Upstream

(* Recording a failure, then going on, keeps the invariant. *)
LEMMA RecordFailureStep == ASSUME TurnInv, NEW r \in AllRequests, RecordFailure(r) PROVE TurnInv'
PROOF
  <1>1. Exec(r) /\ req[r].pc = "failure" /\ UNCHANGED <<memory, scenario, conf, spent, oks>>
    BY DEF RecordFailure, Exec, ExecPcs
  <1>2. /\ req[r] \in RequestRecords /\ ReqInv(r) /\ db \in Databases
        /\ memory \in [Pods -> [Keys -> {None, "in_progress", "settled"}]]
    BY <1>1, ExecFacts
  <1>3. req[r].out.code \in Codes
    BY <1>1, <1>2 DEF ReqInv, RequestRecords, Outcomes, Results
  <1>4. db' \in Databases /\ db'.turns = db.turns /\ db'.leases = db.leases
    BY <1>2, HealthOps DEF RecordFailure
  <1>5. /\ Fit(r, Failed(r, req[r].out.code))
        /\ Failed(r, req[r].out.code).snapshot = req[r].snapshot
        /\ NeedsLeaseIn(Failed(r, req[r].out.code)) => ~req[r].late
    BY <1>1, <1>3, FailedFits
  <1>6. NeedsLeaseIn(Failed(r, req[r].out.code)) => NeedsLease(r)
    BY <1>1, <1>5 DEF NeedsLease
  <1> QED BY <1>1, <1>2, <1>4, <1>5, <1>6, QuietStep DEF RecordFailure, Set

(* A move of an executor's pc to one past its calls, with what it holds *)
(* changed, is one it may make.                                         *)
LEMMA PastCalls ==
  ASSUME TurnInv, NEW r \in AllRequests, Exec(r), req[r].snapshot # None, req[r].out # None,
         NEW pc \in {"settle", "untoken", "unlease", "persist"},
         NEW held \in Nat, NEW leased \in BOOLEAN
  PROVE  LET n == [req[r] EXCEPT !.pc = pc, !.held = held, !.leased = leased]
         IN  Fit(r, n) /\ ~NeedsLeaseIn(n)
PROOF
  <1> DEFINE n == [req[r] EXCEPT !.pc = pc, !.held = held, !.leased = leased]
  <1>1. req[r] \in RequestRecords
    BY ExecFacts
  <1>2. n \in RequestRecords
    BY <1>1 DEF RequestRecords, Pcs, ExecPcs
  <1>3. n.pc = pc /\ n.out # None /\ n.key = req[r].key /\ n.pod = req[r].pod
        /\ n.body = req[r].body /\ n.snapshot # None
    BY <1>1 DEF RequestRecords
  <1> HIDE DEF n
  <1>4. Fit(r, n) /\ ~NeedsLeaseIn(n)
    BY <1>2, <1>3 DEF Fit, NeedsLeaseIn, ExecPcs
  <1> QED BY <1>4 DEF n

(* Recording a success keeps the invariant. *)
LEMMA RecordSuccessStep == ASSUME TurnInv, NEW r \in AllRequests, RecordSuccess(r) PROVE TurnInv'
PROOF
  <1> DEFINE n == [req[r] EXCEPT !.pc = "settle", !.held = req[r].held, !.leased = req[r].leased]
  <1>1. Exec(r) /\ req[r].pc = "success" /\ UNCHANGED <<memory, scenario, conf, spent, oks>>
    BY DEF RecordSuccess, Exec, ExecPcs
  <1>2. /\ req[r] \in RequestRecords /\ ReqInv(r) /\ db \in Databases
        /\ memory \in [Pods -> [Keys -> {None, "in_progress", "settled"}]]
    BY <1>1, ExecFacts
  <1>3. req[r].snapshot # None /\ req[r].out # None
        /\ req[r].held \in Nat /\ req[r].leased \in BOOLEAN
    BY <1>1, <1>2 DEF ReqInv, ExecPcs, RequestRecords
  <1>4. db' \in Databases /\ db'.turns = db.turns /\ db'.leases = db.leases
    BY <1>2, HealthOps DEF RecordSuccess
  <1>5. Fit(r, n) /\ ~NeedsLeaseIn(n)
    BY <1>1, <1>3, PastCalls
  <1>6. [req[r] EXCEPT !.pc = "settle"] = n
    BY <1>2 DEF RequestRecords
  <1>7. req' = [req EXCEPT ![r] = n]
    BY <1>6 DEF RecordSuccess, Set
  <1> HIDE DEF n
  <1> QED BY <1>1, <1>2, <1>4, <1>5, <1>7, QuietStep

(* Settling or giving back the tokens keeps the invariant. *)
LEMMA SettleStep ==
  ASSUME TurnInv, NEW r \in AllRequests, Settle(r) \/ ReleaseTokens(r)
  PROVE  TurnInv'
PROOF
  <1> DEFINE pc == IF req[r].leased THEN "unlease" ELSE "persist"
             n == [req[r] EXCEPT !.pc = pc, !.held = 0, !.leased = req[r].leased]
  <1>1. Exec(r) /\ req[r].pc \in {"settle", "untoken"}
        /\ UNCHANGED <<memory, scenario, conf, spent, oks>>
    BY DEF Settle, ReleaseTokens, Exec, ExecPcs
  <1>2. /\ req[r] \in RequestRecords /\ ReqInv(r) /\ db \in Databases
        /\ memory \in [Pods -> [Keys -> {None, "in_progress", "settled"}]]
    BY <1>1, ExecFacts
  <1>3. req[r].snapshot # None /\ req[r].out # None
        /\ req[r].held \in Nat /\ req[r].leased \in BOOLEAN
    BY <1>1, <1>2 DEF ReqInv, ExecPcs, RequestRecords
  <1>4. req[r].out.tokens \in Nat
    BY <1>2, <1>3, GatewayAssumption DEF RequestRecords, Outcomes, Results
  <1>5. db' \in Databases /\ db'.turns = db.turns /\ db'.leases = db.leases
    BY <1>2, <1>3, <1>4, UsageOps DEF Settle, ReleaseTokens
  <1>6. Fit(r, n) /\ ~NeedsLeaseIn(n)
    BY <1>1, <1>3, PastCalls
  <1>7. [req[r] EXCEPT !.pc = pc, !.held = 0] = n
    BY <1>2 DEF RequestRecords
  <1>8. req' = [req EXCEPT ![r] = n]
    BY <1>7 DEF Settle, ReleaseTokens, Settled, Set
  <1> HIDE DEF n
  <1> QED BY <1>1, <1>2, <1>5, <1>6, <1>8, QuietStep

(* Releasing the lease keeps the invariant. *)
LEMMA ReleaseLeaseStep == ASSUME TurnInv, NEW r \in AllRequests, ReleaseLease(r) PROVE TurnInv'
PROOF
  <1> DEFINE n == [req[r] EXCEPT !.pc = "persist", !.held = req[r].held, !.leased = FALSE]
  <1>1. Exec(r) /\ req[r].pc = "unlease" /\ UNCHANGED <<memory, scenario, conf, spent, oks>>
    BY DEF ReleaseLease, Exec, ExecPcs
  <1>2. /\ req[r] \in RequestRecords /\ ReqInv(r)
        /\ memory \in [Pods -> [Keys -> {None, "in_progress", "settled"}]]
    BY <1>1, ExecFacts
  <1>3. req[r].snapshot # None /\ req[r].out # None /\ req[r].held \in Nat
    BY <1>1, <1>2 DEF ReqInv, ExecPcs, RequestRecords
  <1>4. /\ db' \in Databases /\ db'.turns = db.turns /\ LeaseInv'
        /\ \A q \in AllRequests \ {r} : NeedsLease(q) => Lease(q) \in db'.leases
    BY <1>1, ReleaseOps DEF ReleaseLease
  <1>5. Fit(r, n) /\ ~NeedsLeaseIn(n)
    BY <1>1, <1>3, PastCalls
  <1>6. [req[r] EXCEPT !.pc = "persist", !.leased = FALSE] = n
    BY <1>2 DEF RequestRecords
  <1>7. req' = [req EXCEPT ![r] = n]
    BY <1>6 DEF ReleaseLease, Set
  <1> HIDE DEF n
  <1> QED BY <1>1, <1>2, <1>4, <1>5, <1>7, SpendsNothing, ExecStep

-----------------------------------------------------------------------------
(* A step that moves one request and touches the row or the responses of    *)
(* one key keeps the invariant when it does so for that key, for that       *)
(* request and for another executor of the key.                             *)
LEMMA KeyStep ==
  ASSUME TurnInv, NEW r \in AllRequests, NEW n \in RequestRecords, NEW k \in Keys,
         req' = [req EXCEPT ![r] = n],
         db' \in Databases, db'.leases = db.leases,
         \A j \in Keys \ {k} : db'.turns[j] = db.turns[j] /\ oks'[j] = oks[j],
         db.turns[k] # None => db'.turns[k] # None,
         oks' \in [Keys -> SUBSET (AllRequests \cup {None})],
         memory' \in [Pods -> [Keys -> {None, "in_progress", "settled"}]],
         UNCHANGED <<scenario, conf, spent>>,
         KeyInv(k)', ReqInv(r)',
         \A q \in AllRequests \ {r} : Exec(q) /\ req[q].key = k => ReqInv(q)',
         n.pc \in ExecPcs =>
           \A q \in AllRequests \ {r} : ~(Exec(q) /\ req[q].key = n.key)
  PROVE  TurnInv'
PROOF
  <1>1. Types /\ OneExecutor /\ req \in [AllRequests -> RequestRecords]
    BY DEF TurnInv, Types
  <1>2. /\ req' \in [AllRequests -> RequestRecords] /\ req'[r] = n
        /\ \A q \in AllRequests \ {r} : req'[q] = req[q]
    BY <1>1
  <1>3. Types'
    BY <1>1, <1>2 DEF Types
  <1>4. ASSUME NEW j \in Keys PROVE KeyInv(j)'
    <2>1. CASE j = k
      BY <2>1
    <2>2. CASE j # k
      <3>1. KeyInv(j) /\ db'.turns[j] = db.turns[j] /\ oks'[j] = oks[j] /\ spent'[j] = spent[j]
        BY <2>2 DEF TurnInv
      <3> QED BY <3>1 DEF KeyInv
    <2> QED BY <2>1, <2>2
  <1>5. ASSUME NEW q \in AllRequests PROVE ReqInv(q)'
    <2>1. CASE q = r
      BY <2>1
    <2>2. CASE q # r /\ Exec(q) /\ req[q].key = k
      BY <2>2
    <2>3. CASE q # r /\ Exec(q) /\ req[q].key # k
      <3>1. ReqInv(q) /\ req'[q] = req[q]
        BY <1>2, <2>3 DEF TurnInv
      <3>2. req[q].key \in Keys \ {k}
        BY <2>3, <3>1 DEF ReqInv, Exec, ExecPcs
      <3>3. /\ db'.turns[req[q].key] = db.turns[req[q].key] /\ oks'[req[q].key] = oks[req[q].key]
            /\ spent' = spent /\ db'.leases = db.leases
        BY <3>2
      <3>4. /\ Exec(q)' <=> Exec(q)
            /\ (NeedsLease(q)' <=> NeedsLease(q)) /\ Lease(q)' = Lease(q) /\ (Live(q)' <=> Live(q))
        BY <3>1 DEF NeedsLease, Lease, Live, Exec
      <3> QED BY <3>1, <3>3, <3>4 DEF ReqInv
    <2>4. CASE q # r /\ ~Exec(q)
      <3>1. ReqInv(q) /\ req'[q] = req[q]
        BY <1>2, <2>4 DEF TurnInv
      <3>2. ~Exec(q)' /\ ~NeedsLease(q)' /\ (Live(q)' <=> Live(q))
        BY <2>4, <3>1 DEF Exec, ExecPcs, NeedsLease, Live
      <3>3. req[q].pc \in {"lookup", "poll"} => db'.turns[req[q].key] # None
        BY <3>1 DEF ReqInv
      <3> QED BY <3>1, <3>2, <3>3 DEF ReqInv, Exec, ExecPcs
    <2> QED BY <2>1, <2>2, <2>3, <2>4
  <1>6. OneExecutor'
    <2> SUFFICES ASSUME NEW p \in AllRequests, NEW q \in AllRequests, Exec(p)', Exec(q)',
                        req'[p].key = req'[q].key
                 PROVE  p = q
      BY DEF OneExecutor
    <2>1. CASE p # r /\ q # r
      BY <1>1, <1>2, <2>1 DEF OneExecutor, Exec
    <2>2. CASE p = r \/ q = r
      BY <1>2, <2>2 DEF Exec
    <2> QED BY <2>1, <2>2
  <1> QED BY <1>3, <1>4, <1>5, <1>6, SameLeases DEF TurnInv

(* A request that moves and executes nothing, before or after. *)
LEMMA WaitStep ==
  ASSUME TurnInv, NEW r \in AllRequests, NEW n \in RequestRecords, n.pc \notin ExecPcs,
         n.pc # "idle" => n.key \in Keys,
         n.pc \notin {"idle", "done", "gone"} =>
           n.pod \in Pods /\ conf[n.pod] # None /\ n.body \in Bodies,
         n.pc \in {"lookup", "poll"} => db.turns[n.key] # None,
         req' = [req EXCEPT ![r] = n],
         db' \in Databases, db'.turns = db.turns, db'.leases = db.leases,
         memory' \in [Pods -> [Keys -> {None, "in_progress", "settled"}]],
         UNCHANGED <<scenario, conf, spent, oks>>
  PROVE  TurnInv'
PROOF
  <1>1. req'[r] = n
    BY Typed
  <1>2. ReqInv(r)'
    BY <1>1 DEF ReqInv, Exec, ExecPcs, Live, NeedsLease
  <1> QED BY <1>2, SameLeases, SpendsNothing, ReqStep

(* The record of a request that has ended. *)
LEMMA EndedRecord ==
  ASSUME TurnInv, NEW r \in AllRequests, req[r].pc # "idle", NEW pc \in {"done", "gone"}
  PROVE  /\ Ended(r, pc) \in RequestRecords
         /\ Ended(r, pc).pc = pc /\ Ended(r, pc).key = req[r].key /\ Ended(r, pc).key \in Keys
         /\ Ended(r, pc).pc \notin ExecPcs
PROOF
  <1>1. req[r] \in RequestRecords /\ req[r].key \in Keys
    BY Typed DEF ReqInv
  <1>2. req[r].pod \in Pods \cup {None} /\ None \in Outcomes
    BY <1>1 DEF RequestRecords, Outcomes
  <1>3. NewRequest \in RequestRecords
    <2>1. <<>> \in Seq(Resources)
      OBVIOUS
    <2> QED BY <1>2, <2>1 DEF NewRequest, RequestRecords, Pcs
  <1>4. Ended(r, pc) \in RequestRecords
    BY <1>1, <1>2, <1>3 DEF Ended, RequestRecords, Pcs
  <1>5. Ended(r, pc).pc = pc /\ Ended(r, pc).key = req[r].key
    BY <1>3 DEF Ended, RequestRecords
  <1> QED BY <1>1, <1>4, <1>5 DEF ExecPcs

(* A request that has ended satisfies its part of the invariant. *)
LEMMA EndedInv ==
  ASSUME TurnInv, NEW r \in AllRequests, req[r].pc # "idle", NEW pc \in {"done", "gone"},
         req'[r] = Ended(r, pc)
  PROVE  ReqInv(r)'
PROOF
  <1>1. req'[r].pc = pc /\ req'[r].key \in Keys
    BY EndedRecord
  <1>2. ~Exec(r)' /\ ~NeedsLease(r)' /\ ~Live(r)'
    BY <1>1 DEF Exec, ExecPcs, NeedsLease, Live
  <1> QED BY <1>1, <1>2 DEF ReqInv, Exec, ExecPcs

(* An arriving request changes nothing but itself. *)
LEMMA ArriveStep == ASSUME TurnInv, NEW r \in AllRequests, Arrive(r) PROVE TurnInv'
PROOF
  <1>1. PICK a \in scenario.asks[r] :
          /\ conf[a.pod] # None
          /\ Set(r, [req[r] EXCEPT !.pc = "reserve", !.pod = a.pod, !.key = a.key, !.body = a.body])
    BY DEF Arrive
  <1> DEFINE n == [req[r] EXCEPT !.pc = "reserve", !.pod = a.pod, !.key = a.key, !.body = a.body]
  <1>2. req[r] \in RequestRecords /\ db \in Databases /\ Types
    BY Typed
  <1>3. r \in 1..scenario.requests
    <2>1. r \in Nat \ {0}
      BY GatewayAssumption DEF AllRequests
    <2>2. scenario.requests \in Nat /\ r <= scenario.requests
      BY <1>2, GatewayAssumption DEF Types, Arrive
    <2> QED BY <2>1, <2>2
  <1>4. a \in [pod : Pods, key : Keys, body : Bodies]
    BY <1>2, <1>3, GatewayAssumption DEF Types
  <1>5. n \in RequestRecords /\ n.pc = "reserve" /\ n.key \in Keys /\ n.pod \in Pods
        /\ conf[n.pod] # None /\ n.body \in Bodies
    BY <1>1, <1>2, <1>4 DEF RequestRecords, Pcs
  <1>6. req' = [req EXCEPT ![r] = n] /\ UNCHANGED <<db, memory, scenario, conf, spent, oks>>
    BY <1>1 DEF Arrive, Set
  <1> HIDE DEF n
  <1>7. memory' \in [Pods -> [Keys -> {None, "in_progress", "settled"}]]
    BY <1>2, <1>6 DEF Types
  <1> QED BY <1>2, <1>5, <1>6, <1>7, WaitStep DEF ExecPcs

(* Waiting on another request's turn changes nothing but the request. *)
LEMMA WaiterStep ==
  ASSUME TurnInv, NEW r \in AllRequests, Lookup(r) \/ Woken(r)
  PROVE  TurnInv'
PROOF
  <1>1. /\ Live(r) /\ req[r].pc \in {"lookup", "subscribed"}
        /\ UNCHANGED <<db, memory, scenario, conf, spent, oks>>
    BY DEF Lookup, Woken, Live
  <1>2. /\ req[r] \in RequestRecords /\ db \in Databases /\ Types
        /\ req[r].key \in Keys /\ req[r].pod \in Pods /\ req[r].body \in Bodies
        /\ conf[req[r].pod] \in Configs
    BY <1>1, Typed
  <1>3. PICK pc \in {"subscribed", "poll", "reserve"} :
          /\ req' = [req EXCEPT ![r] = [req[r] EXCEPT !.pc = pc]]
          /\ pc = "poll" => db.turns[req[r].key] # None
    <2>1. CASE Lookup(r)
      BY <2>1, Typed DEF ReqInv, Lookup, Set
    <2>2. CASE Woken(r)
      BY <2>2 DEF Woken, Set
    <2> QED BY <2>1, <2>2
  <1> DEFINE n == [req[r] EXCEPT !.pc = pc]
  <1>4. n \in RequestRecords /\ n.pc = pc /\ n.key = req[r].key /\ n.pod \in Pods /\ n.body \in Bodies
        /\ conf[n.pod] # None
    BY <1>2, NoneAssumption DEF RequestRecords, Pcs
  <1>5. req' = [req EXCEPT ![r] = n]
    BY <1>3
  <1> HIDE DEF n
  <1>6. memory' \in [Pods -> [Keys -> {None, "in_progress", "settled"}]]
    BY <1>1, <1>2 DEF Types
  <1> QED BY <1>1, <1>2, <1>3, <1>4, <1>5, <1>6, WaitStep DEF ExecPcs

(* Hanging up leaves the row to others. *)
LEMMA DisconnectStep == ASSUME TurnInv, NEW r \in AllRequests, Disconnect(r) PROVE TurnInv'
PROOF
  <1>1. req[r].pc # "idle" /\ req' = [req EXCEPT ![r] = Ended(r, "gone")]
        /\ UNCHANGED <<db, memory, scenario, conf, spent, oks>>
    BY DEF Disconnect, Live, Set
  <1>2. db \in Databases /\ memory \in [Pods -> [Keys -> {None, "in_progress", "settled"}]]
    BY Typed DEF Types
  <1>3. Ended(r, "gone") \in RequestRecords /\ Ended(r, "gone").pc = "gone"
        /\ Ended(r, "gone").key \in Keys /\ Ended(r, "gone").pc \notin ExecPcs
    BY <1>1, EndedRecord
  <1> QED BY <1>1, <1>2, <1>3, WaitStep

(* A deadline that passes takes a lease's protection only from calls that   *)
(* will not be made.                                                        *)
LEMMA LateStep == ASSUME TurnInv, NEW r \in AllRequests, Late(r) PROVE TurnInv'
PROOF
  <1> DEFINE n == [req[r] EXCEPT !.late = TRUE]
  <1>1. req' = [req EXCEPT ![r] = n] /\ UNCHANGED <<db, memory, scenario, conf, spent, oks>>
    BY DEF Late, Set
  <1>2. /\ req[r] \in RequestRecords /\ ReqInv(r) /\ db \in Databases
        /\ memory \in [Pods -> [Keys -> {None, "in_progress", "settled"}]]
    BY Typed DEF Types
  <1>3. n \in RequestRecords
    BY <1>2 DEF RequestRecords
  <1>4. /\ n.pc = req[r].pc /\ n.key = req[r].key /\ n.pod = req[r].pod /\ n.body = req[r].body
        /\ n.snapshot = req[r].snapshot /\ n.at = req[r].at /\ n.tries = req[r].tries
        /\ n.out = req[r].out /\ n.late
    BY <1>2 DEF RequestRecords
  <1>5. req'[r] = n
    BY <1>1, Typed
  <1> HIDE DEF n
  <1>6. /\ Exec(r)' <=> Exec(r)
        /\ NeedsLease(r)' => NeedsLease(r)
        /\ Lease(r)' = Lease(r) /\ (Live(r)' <=> Live(r))
    BY <1>4, <1>5 DEF Exec, NeedsLease, Lease, Live
  <1>7. ReqInv(r)'
    BY <1>1, <1>2, <1>4, <1>5, <1>6 DEF ReqInv
  <1>8. n.pc \in ExecPcs => Exec(r) /\ n.key = req[r].key
    BY <1>4 DEF Exec
  <1> QED BY <1>1, <1>2, <1>3, <1>7, <1>8, SameLeases, SpendsNothing, ReqStep

-----------------------------------------------------------------------------
(* What a request that ends with a result adds to the responses returned. *)
LEMMA AnswerOps ==
  ASSUME TurnInv, NEW r \in AllRequests, req[r].pc # "idle", NEW out \in Results, Answer(r, out)
  PROVE  /\ req' = [req EXCEPT ![r] = Ended(r, "done")] /\ ReqInv(r)'
         /\ oks' \in [Keys -> SUBSET (AllRequests \cup {None})]
         /\ \A j \in Keys \ {req[r].key} : oks'[j] = oks[j]
         /\ oks'[req[r].key] = IF out.ok THEN oks[req[r].key] \cup {out.by} ELSE oks[req[r].key]
PROOF
  <1>1. /\ req \in [AllRequests -> RequestRecords] /\ req[r].key \in Keys
        /\ oks \in [Keys -> SUBSET (AllRequests \cup {None})] /\ out.by \in AllRequests \cup {None}
    BY Typed DEF ReqInv, Types, Results
  <1>2. req' = [req EXCEPT ![r] = Ended(r, "done")]
        /\ oks' = IF out.ok THEN [oks EXCEPT ![req[r].key] = @ \cup {out.by}] ELSE oks
    BY DEF Answer, Set
  <1>3. ReqInv(r)'
    BY <1>1, <1>2, EndedInv
  <1> QED BY <1>1, <1>2, <1>3

(* A request that is answered from a row that is there, unchanged. *)
LEMMA AnswerStep ==
  ASSUME TurnInv, NEW r \in AllRequests, req[r].pc # "idle", NEW out \in Results, Answer(r, out),
         db.turns[req[r].key] # None,
         out.ok => db.turns[req[r].key].state = "completed" /\ db.turns[req[r].key].out = out,
         memory' \in [Pods -> [Keys -> {None, "in_progress", "settled"}]],
         UNCHANGED <<db, scenario, conf, spent>>
  PROVE  TurnInv'
PROOF
  <1>0. PICK k \in Keys : k = req[r].key
    BY Typed DEF ReqInv
  <1>1. /\ req \in [AllRequests -> RequestRecords] /\ db \in Databases /\ KeyInv(k)
        /\ Ended(r, "done") \in RequestRecords /\ Ended(r, "done").pc \notin ExecPcs
    BY Typed, EndedRecord DEF ReqInv, TurnInv
  <1>2. /\ req' = [req EXCEPT ![r] = Ended(r, "done")] /\ ReqInv(r)'
        /\ oks' \in [Keys -> SUBSET (AllRequests \cup {None})]
        /\ \A j \in Keys \ {k} : oks'[j] = oks[j]
        /\ oks'[k] = IF out.ok THEN oks[k] \cup {out.by} ELSE oks[k]
    BY <1>0, AnswerOps
  <1>3. KeyInv(k)'
    BY <1>0, <1>1, <1>2 DEF KeyInv
  <1>4. ASSUME NEW q \in AllRequests \ {r}, Exec(q), req[q].key = k PROVE ReqInv(q)'
    <2>1. ReqInv(q) /\ req'[q] = req[q]
      BY <1>1, <1>2 DEF TurnInv
    <2>2. /\ Exec(q)' <=> Exec(q)
          /\ (NeedsLease(q)' <=> NeedsLease(q)) /\ Lease(q)' = Lease(q) /\ (Live(q)' <=> Live(q))
      BY <2>1 DEF NeedsLease, Lease, Live, Exec
    <2>3. CASE ~out.ok
      <3>1. oks'[req[q].key] = oks[req[q].key]
        BY <1>0, <1>2, <1>4, <2>3
      <3> QED BY <2>1, <2>2, <3>1 DEF ReqInv
    <2>4. CASE out.ok
      <3>1. db.turns[req[q].key].state = "completed"
        BY <1>0, <1>4, <2>4
      <3> QED BY <2>1, <2>2, <3>1 DEF ReqInv
    <2> QED BY <2>3, <2>4
  <1> QED BY <1>1, <1>2, <1>3, <1>4, KeyStep

(* A row's state and its outcome have their types. *)
LEMMA RowFacts ==
  ASSUME TurnInv, NEW k \in Keys, db.turns[k] # None
  PROVE  db.turns[k] \in TurnRows /\ (db.turns[k].out # None => db.turns[k].out \in Results)
PROOF
  <1>1. db \in Databases
    BY DEF TurnInv, Types
  <1>2. db.turns[k] \in TurnRows
    BY <1>1, DbFields
  <1> QED BY <1>2 DEF TurnRows, Outcomes

(* A response that leaves its replay window: the executor that has not told *)
(* its caller yet still tells the same.                                     *)
LEMMA ExpireRow ==
  ASSUME TurnInv, NEW r \in AllRequests, req[r].pc # "idle",
         db.turns[req[r].key] # None, db.turns[req[r].key].state \in {"completed", "expired"},
         Answer(r, Error("idempotency_result_expired")),
         NEW w \in TurnRows, w.state = "expired", NEW k \in Keys, k = req[r].key,
         db' = [db EXCEPT !.turns[k] = w],
         UNCHANGED <<memory, scenario, conf, spent>>
  PROVE  TurnInv'
PROOF
  <1> DEFINE e == Error("idempotency_result_expired")
  <1>1. /\ req \in [AllRequests -> RequestRecords] /\ db \in Databases /\ KeyInv(k)
        /\ Ended(r, "done") \in RequestRecords /\ Ended(r, "done").pc \notin ExecPcs
        /\ memory \in [Pods -> [Keys -> {None, "in_progress", "settled"}]]
    BY Typed, EndedRecord DEF ReqInv, TurnInv, Types
  <1>2. e \in Results /\ ~e.ok
    BY Errors DEF Codes
  <1> HIDE DEF e
  <1>3. /\ req' = [req EXCEPT ![r] = Ended(r, "done")] /\ ReqInv(r)'
        /\ oks' \in [Keys -> SUBSET (AllRequests \cup {None})]
        /\ \A j \in Keys : oks'[j] = oks[j]
    BY <1>2, AnswerOps DEF e
  <1>4. w.state = "expired" /\ w # None
    BY NoneAssumption
  <1>5. /\ db' \in Databases /\ db'.leases = db.leases /\ db'.turns[k] = w
        /\ \A j \in Keys \ {k} : db'.turns[j] = db.turns[j]
    BY <1>1, DbFields DEF Databases
  <1>6. KeyInv(k)'
    BY <1>1, <1>3, <1>4, <1>5 DEF KeyInv
  <1>7. ASSUME NEW q \in AllRequests \ {r}, Exec(q), req[q].key = k PROVE ReqInv(q)'
    <2>1. ReqInv(q) /\ req'[q] = req[q]
      BY <1>1, <1>3 DEF TurnInv
    <2>2. /\ Exec(q)' <=> Exec(q)
          /\ (NeedsLease(q)' <=> NeedsLease(q)) /\ Lease(q)' = Lease(q) /\ (Live(q)' <=> Live(q))
      BY <2>1 DEF NeedsLease, Lease, Live, Exec
    <2>3. req[q].pc = "publish" /\ db'.turns[req[q].key].state = "expired"
      BY <1>4, <1>5, <1>7, <2>1 DEF ReqInv
    <2>4. req[q].out.ok => oks'[req[q].key] \subseteq {req[q].out.by}
      <3>1. CASE db.turns[k].state = "completed" /\ db.turns[k].out = req[q].out
        BY <1>1, <1>3, <1>7, <3>1 DEF KeyInv
      <3>2. CASE db.turns[k].state = "expired" /\ oks[k] \subseteq {req[q].out.by}
        BY <1>1, <1>3, <1>7, <3>2
      <3> QED BY <1>7, <2>1, <2>3, <3>1, <3>2 DEF ReqInv
    <2>5. db'.turns[req[q].key] # None
      BY <1>4, <1>5, <1>7
    <2> QED BY <1>5, <2>1, <2>2, <2>3, <2>4, <2>5 DEF ReqInv, NeedsLease
  <1> QED BY <1>1, <1>3, <1>4, <1>5, <1>6, <1>7, KeyStep

(* So does the replay that finds it out. *)
LEMMA ExpireStep ==
  ASSUME TurnInv, NEW r \in AllRequests, req[r].pc # "idle",
         db.turns[req[r].key] # None, db.turns[req[r].key].state \in {"completed", "expired"},
         Answer(r, Error("idempotency_result_expired")),
         db' = [db EXCEPT !.turns[req[r].key].state = "expired", !.turns[req[r].key].out = None],
         UNCHANGED <<memory, scenario, conf, spent>>
  PROVE  TurnInv'
PROOF
  <1>1. PICK k \in Keys : k = req[r].key
    BY Typed DEF ReqInv
  <1>2. PICK x \in TurnRows : x = db.turns[k]
    BY <1>1, RowFacts
  <1> DEFINE w == [x EXCEPT !.state = "expired", !.out = None]
  <1>3. w \in TurnRows /\ w.state = "expired"
    <2>1. None \in Outcomes
      BY DEF Outcomes
    <2> QED BY <2>1 DEF TurnRows, TurnStates
  <1>4. db' = [db EXCEPT !.turns[k] = w]
    <2>1. db \in Databases /\ db.turns \in [Keys -> TurnRows \cup {None}]
      BY Typed, DbFields
    <2> QED BY <1>1, <1>2, <2>1 DEF Databases, TurnRows
  <1> HIDE DEF w
  <1> QED BY <1>1, <1>3, <1>4, ExpireRow, ZenonT(40)

(* Replaying a row keeps the invariant. *)
LEMMA ReplayStep ==
  ASSUME TurnInv, NEW r \in AllRequests, Live(r), db.turns[req[r].key] # None, Replay(r),
         UNCHANGED <<memory, scenario, conf, spent>>
  PROVE  TurnInv'
PROOF
  <1> DEFINE k == req[r].key
             s == Stored(db, k, req[r].body)
  <1>1. /\ req[r].pc # "idle" /\ k \in Keys /\ KeyInv(k)
        /\ memory \in [Pods -> [Keys -> {None, "in_progress", "settled"}]]
    BY Typed DEF Live, TurnInv, Types
  <1>2. s # "conflict" => s = db.turns[k].state
    BY DEF Stored
  <1>3. CASE Answer(r, Error("idempotency_conflict")) /\ UNCHANGED db
    <2>1. Error("idempotency_conflict") \in Results /\ ~Error("idempotency_conflict").ok
      BY Errors DEF Codes
    <2> QED BY <1>1, <1>3, <2>1, AnswerStep
  <1>4. CASE s \in {"completed", "failed"} /\ Answer(r, db.turns[k].out) /\ UNCHANGED db
    <2>1. db.turns[k].state \in {"completed", "failed"}
      BY <1>2, <1>4
    <2>2. db.turns[k].out \in Results
      BY <1>1, <2>1, RowFacts DEF KeyInv
    <2>3. db.turns[k].out.ok => db.turns[k].state = "completed"
      BY <1>1, <2>1 DEF KeyInv
    <2> QED BY <1>1, <1>4, <2>2, <2>3, AnswerStep
  <1>5. CASE /\ s \in {"completed", "expired"} /\ Answer(r, Error("idempotency_result_expired"))
             /\ db' = [db EXCEPT !.turns[k].state = "expired", !.turns[k].out = None]
    <2>1. db.turns[k].state \in {"completed", "expired"}
      BY <1>2, <1>5
    <2> QED BY <1>1, <1>5, <2>1, ExpireStep
  <1> QED BY <1>3, <1>4, <1>5 DEF Replay

-----------------------------------------------------------------------------
(* A turn that nobody has reserved is reserved: by a request that executes  *)
(* it now, or by one that was told the reservation failed.                  *)
LEMMA ReserveRow ==
  ASSUME TurnInv, NEW r \in AllRequests, req[r].pc \in {"reserve", "poll"},
         NEW k \in Keys, k = req[r].key, db.turns[k] = None,
         NEW n \in RequestRecords, n.pc \in {"insert", "done"}, n.key = k,
         n.pc = "insert" => n.pod = req[r].pod /\ n.body = req[r].body,
         req' = [req EXCEPT ![r] = n], db' = reserve_turn(db, k, req[r].body),
         UNCHANGED <<memory, scenario, conf, spent, oks>>
  PROVE  TurnInv'
PROOF
  <1>1. /\ req \in [AllRequests -> RequestRecords] /\ db \in Databases /\ Types /\ KeyInv(k)
        /\ req[r].pod \in Pods /\ conf[req[r].pod] # None /\ req[r].body \in Bodies
    BY Typed, NoneAssumption DEF TurnInv, Live
  <1> DEFINE w == [body |-> req[r].body, state |-> "in_progress", out |-> None]
  <1>2. w \in TurnRows
    BY <1>1 DEF TurnRows, TurnStates, Outcomes
  <1>3. w # None /\ w.state = "in_progress"
    BY <1>2, NoneAssumption
  <1>4. db' = [db EXCEPT !.turns[k] = w]
    BY DEF reserve_turn
  <1> HIDE DEF w
  <1>5. /\ db' \in Databases /\ db'.leases = db.leases /\ db'.turns[k] = w
        /\ \A j \in Keys \ {k} : db'.turns[j] = db.turns[j]
    BY <1>1, <1>2, <1>4, DbFields DEF Databases
  <1>6. spent'[k] = {} /\ oks'[k] = {}
    BY <1>1 DEF KeyInv
  <1>7. KeyInv(k)'
    BY <1>3, <1>5, <1>6 DEF KeyInv
  <1>8. \A q \in AllRequests : ~(Exec(q) /\ req[q].key = k)
    BY DEF TurnInv, ReqInv
  <1>9. ReqInv(r)'
    <2>1. req'[r] = n
      BY <1>1
    <2>2. ~NeedsLease(r)' /\ (Exec(r)' => n.pc = "insert") /\ (Live(r)' => n.pc = "insert")
      BY <2>1 DEF NeedsLease, Exec, ExecPcs, Live
    <2> QED BY <1>1, <1>3, <1>5, <1>6, <2>1, <2>2 DEF ReqInv, ExecPcs
  <1>10. /\ memory' \in [Pods -> [Keys -> {None, "in_progress", "settled"}]]
         /\ oks' \in [Keys -> SUBSET (AllRequests \cup {None})]
    BY <1>1 DEF Types
  <1> QED BY <1>1, <1>5, <1>7, <1>8, <1>9, <1>10, KeyStep

(* The durable reservation keeps the invariant. *)
LEMMA ReserveStep == ASSUME TurnInv, NEW r \in AllRequests, Reserve(r) PROVE TurnInv'
PROOF
  <1>1. Live(r) /\ req[r].pc = "reserve" /\ UNCHANGED <<memory, scenario, conf, spent>>
    BY DEF Reserve, Live
  <1>2. /\ req[r] \in RequestRecords /\ db \in Databases /\ req[r].key \in Keys
        /\ req[r].pod \in Pods /\ conf[req[r].pod] # None /\ req[r].body \in Bodies
        /\ memory \in [Pods -> [Keys -> {None, "in_progress", "settled"}]]
    BY <1>1, Typed, NoneAssumption DEF Types
  <1>3. CASE Reservable(r) /\ db' = reserve_turn(db, req[r].key, req[r].body)
             /\ Set(r, [req[r] EXCEPT !.pc = "insert"]) /\ UNCHANGED oks
    <2> DEFINE n == [req[r] EXCEPT !.pc = "insert"]
    <2>1. /\ n \in RequestRecords /\ n.pc = "insert" /\ n.key = req[r].key
          /\ n.pod = req[r].pod /\ n.body = req[r].body
      BY <1>2 DEF RequestRecords, Pcs, ExecPcs
    <2>2. req' = [req EXCEPT ![r] = n] /\ db.turns[req[r].key] = None
      BY <1>3 DEF Set, Reservable
    <2> HIDE DEF n
    <2>3. PICK k \in Keys : k = req[r].key
      BY <1>2
    <2> QED BY <1>1, <1>2, <1>3, <2>1, <2>2, <2>3, ReserveRow
  <1>4. CASE ~Reservable(r) /\ Replay(r)
    BY <1>1, <1>4, ReplayStep DEF Reservable
  <1>5. CASE ~Reservable(r) /\ Set(r, [req[r] EXCEPT !.pc = "lookup"]) /\ UNCHANGED <<db, oks>>
    <2> DEFINE n == [req[r] EXCEPT !.pc = "lookup"]
    <2>1. /\ n \in RequestRecords /\ n.pc = "lookup" /\ n.key = req[r].key
          /\ n.pod = req[r].pod /\ n.body = req[r].body
      BY <1>2 DEF RequestRecords, Pcs
    <2>2. req' = [req EXCEPT ![r] = n]
      BY <1>5 DEF Set
    <2> HIDE DEF n
    <2>3. n.pc \notin ExecPcs /\ db.turns[n.key] # None
      BY <1>5, <2>1 DEF ExecPcs, Reservable
    <2> QED BY <1>1, <1>2, <1>5, <2>1, <2>2, <2>3, WaitStep
  <1> QED BY <1>3, <1>4, <1>5 DEF Reserve

(* The outcome of an execution, as the row gets it. *)
LEMMA OutcomeRow ==
  ASSUME TurnInv, NEW r \in AllRequests, req[r].pc = "persist", NEW k \in Keys, k = req[r].key
  PROVE  \E w \in TurnRows :
           /\ Outcome(db, r) = [db EXCEPT !.turns[k] = w]
           /\ w.out = req[r].out /\ w.state = IF req[r].out.ok THEN "completed" ELSE "failed"
PROOF
  <1>1. Exec(r)
    BY DEF Exec, ExecPcs
  <1>2. req[r] \in RequestRecords /\ ReqInv(r) /\ db \in Databases
    BY <1>1, ExecFacts
  <1>3. db.turns[k] # None /\ db.turns[k].state = "in_progress" /\ req[r].out \in Outcomes
    BY <1>1, <1>2 DEF ReqInv, RequestRecords
  <1>4. PICK x \in TurnRows : x = db.turns[k]
    BY <1>3, RowFacts
  <1> DEFINE s == IF req[r].out.ok THEN "completed" ELSE "failed"
             w == [x EXCEPT !.state = s, !.out = req[r].out]
  <1>5. s \in TurnStates
    BY DEF TurnStates
  <1>6. Outcome(db, r) = [db EXCEPT !.turns[k].state = s, !.turns[k].out = req[r].out]
    BY <1>3 DEF Outcome, complete_turn, fail_turn
  <1> HIDE DEF s
  <1>7. w \in TurnRows /\ w.out = req[r].out /\ w.state = s
    BY <1>3, <1>5 DEF TurnRows
  <1>8. db.turns \in [Keys -> TurnRows \cup {None}]
    BY <1>2, DbFields
  <1>9. Outcome(db, r) = [db EXCEPT !.turns[k] = w]
    BY <1>2, <1>4, <1>6, <1>8, ZenonT(40) DEF Databases, TurnRows
  <1> QED BY <1>7, <1>9 DEF s

(* An execution's end, with its row as it is now: the response about to be  *)
(* given is the stored one.                                                 *)
LEMMA PersistRow ==
  ASSUME TurnInv, NEW r \in AllRequests, req[r].pc = "persist", NEW k \in Keys, k = req[r].key,
         NEW o \in Results, NEW w \in TurnRows,
         w.state \in {"completed", "failed"} => w.out # None,
         w.state = "failed" => ~w.out.ok,
         o.ok => w.state = "completed" /\ w.out = o,
         db' \in Databases, db'.leases = db.leases, db'.turns[k] = w,
         \A j \in Keys \ {k} : db'.turns[j] = db.turns[j],
         NEW n \in RequestRecords, n.pc = "publish", n.out = o, n.key = k,
         n.pod = req[r].pod, n.body = req[r].body, n.snapshot = req[r].snapshot,
         req' = [req EXCEPT ![r] = n],
         UNCHANGED <<memory, scenario, conf, spent, oks>>
  PROVE  TurnInv'
PROOF
  <1>1. Exec(r)
    BY DEF Exec, ExecPcs
  <1>2. /\ req[r] \in RequestRecords /\ ReqInv(r) /\ db \in Databases /\ KeyInv(k) /\ OneExecutor
        /\ req \in [AllRequests -> RequestRecords] /\ Types
        /\ req[r].pod \in Pods /\ conf[req[r].pod] # None /\ req[r].body \in Bodies
    BY <1>1, ExecFacts, Typed, NoneAssumption DEF TurnInv
  <1>3. o \in Outcomes /\ o # None /\ w # None
    BY NoneAssumption DEF Outcomes
  <1>5. n.snapshot # None
    BY <1>1, <1>2 DEF ReqInv, ExecPcs
  <1>6. req'[r] = n
    BY <1>2
  <1>8. oks'[k] = {} /\ \A c \in spent'[k] : c[1] = r
    BY <1>1, <1>2 DEF KeyInv, ReqInv
  <1>9. KeyInv(k)'
    BY <1>2, <1>3, <1>8 DEF KeyInv
  <1>10. ReqInv(r)'
    <2>1. ~NeedsLease(r)'
      BY <1>5, <1>6 DEF NeedsLease
    <2> QED BY <1>2, <1>3, <1>5, <1>6, <1>8, <2>1 DEF ReqInv, ExecPcs
  <1>11. \A q \in AllRequests \ {r} : ~(Exec(q) /\ req[q].key = k)
    BY <1>1, <1>2 DEF OneExecutor
  <1>12. /\ memory' \in [Pods -> [Keys -> {None, "in_progress", "settled"}]]
         /\ oks' \in [Keys -> SUBSET (AllRequests \cup {None})]
    BY <1>2 DEF Types
  <1> QED BY <1>3, <1>5, <1>6, <1>9, <1>10, <1>11, <1>12, KeyStep, ZenonT(40)

(* Persisting the outcome keeps the invariant. *)
LEMMA PersistStep == ASSUME TurnInv, NEW r \in AllRequests, Persist(r) PROVE TurnInv'
PROOF
  <1>1. /\ req[r].pc = "persist" /\ UNCHANGED <<memory, scenario, conf, spent, oks>>
        /\ db' = Outcome(db, r) /\ req' = [req EXCEPT ![r] = [req[r] EXCEPT !.pc = "publish"]]
    BY DEF Persist, Set
  <1>2. req[r] \in RequestRecords /\ ReqInv(r) /\ db \in Databases
    BY Typed
  <1>3. PICK k \in Keys : k = req[r].key
    BY <1>1, <1>2 DEF ReqInv
  <1>4. PICK w \in TurnRows :
          /\ Outcome(db, r) = [db EXCEPT !.turns[k] = w]
          /\ w.out = req[r].out /\ w.state = IF req[r].out.ok THEN "completed" ELSE "failed"
    BY <1>1, <1>3, OutcomeRow
  <1>5. PICK o \in Results : o = req[r].out
    BY <1>1, <1>2 DEF ReqInv, RequestRecords, Outcomes
  <1> DEFINE n == [req[r] EXCEPT !.pc = "publish", !.out = o]
  <1>6. [req[r] EXCEPT !.pc = "publish"] = n
    BY <1>2, <1>5 DEF RequestRecords
  <1>7. /\ n \in RequestRecords /\ n.pc = "publish" /\ n.out = o /\ n.key = k
        /\ n.pod = req[r].pod /\ n.body = req[r].body /\ n.snapshot = req[r].snapshot
    BY <1>2, <1>3, <1>5 DEF RequestRecords, Pcs, ExecPcs, Outcomes
  <1>8. req' = [req EXCEPT ![r] = n]
    BY <1>1, <1>6
  <1>9. /\ w.out # None /\ (w.state = "failed" => ~w.out.ok)
        /\ o.ok => w.state = "completed" /\ w.out = o
    BY <1>4, <1>5, NoneAssumption
  <1> HIDE DEF n
  <1>10. /\ db' \in Databases /\ db'.leases = db.leases /\ db'.turns[k] = w
         /\ \A j \in Keys \ {k} : db'.turns[j] = db.turns[j]
    BY <1>1, <1>2, <1>4, DbFields DEF Databases
  <1>11. req[r].pc = "persist" /\ UNCHANGED <<memory, scenario, conf, spent, oks>>
    BY <1>1
  <1>12. w.state \in {"completed", "failed"} => w.out # None
    BY <1>9
  <1>13. w.state = "failed" => ~w.out.ok
    BY <1>9
  <1>14. o.ok => w.state = "completed" /\ w.out = o
    BY <1>9
  <1> QED BY <1>3, <1>7, <1>8, <1>10, <1>11, <1>12, <1>13, <1>14, PersistRow

(* Telling the caller keeps the invariant: the response is stored, or was. *)
LEMMA PublishStep == ASSUME TurnInv, NEW r \in AllRequests, Publish(r) PROVE TurnInv'
PROOF
  <1>0. PICK k \in Keys : k = req[r].key
    BY Typed DEF ReqInv, Publish
  <1>1. /\ Exec(r) /\ req[r].pc = "publish" /\ Answer(r, req[r].out)
        /\ UNCHANGED <<db, scenario, conf, spent>>
    BY DEF Publish, Exec, ExecPcs
  <1>2. /\ req[r] \in RequestRecords /\ ReqInv(r) /\ db \in Databases /\ KeyInv(k) /\ OneExecutor
        /\ memory \in [Pods -> [Keys -> {None, "in_progress", "settled"}]] /\ req[r].pod \in Pods
    BY <1>1, ExecFacts DEF TurnInv
  <1>3. PICK o \in Results : o = req[r].out
    BY <1>1, <1>2 DEF ReqInv, RequestRecords, Outcomes
  <1>4. memory' \in [Pods -> [Keys -> {None, "in_progress", "settled"}]]
    BY <1>2 DEF Publish
  <1>5. /\ req' = [req EXCEPT ![r] = Ended(r, "done")] /\ ReqInv(r)'
        /\ oks' \in [Keys -> SUBSET (AllRequests \cup {None})]
        /\ \A j \in Keys \ {k} : oks'[j] = oks[j]
        /\ oks'[k] = IF o.ok THEN oks[k] \cup {o.by} ELSE oks[k]
    BY <1>0, <1>1, <1>3, AnswerOps
  <1>6. KeyInv(k)'
    <2>1. db.turns[k] # None
      BY <1>0, <1>1, <1>2 DEF ReqInv
    <2>2. o.ok => \/ db.turns[k].state = "completed" /\ db.turns[k].out = o
                  \/ db.turns[k].state = "expired" /\ oks[k] \subseteq {o.by}
      BY <1>0, <1>1, <1>2, <1>3 DEF ReqInv
    <2> QED BY <1>1, <1>2, <1>5, <2>1, <2>2 DEF KeyInv
  <1>7. \A q \in AllRequests \ {r} : ~(Exec(q) /\ req[q].key = k)
    BY <1>0, <1>1, <1>2 DEF OneExecutor
  <1>8. Ended(r, "done") \in RequestRecords /\ Ended(r, "done").pc \notin ExecPcs
    BY <1>1, EndedRecord
  <1> QED BY <1>1, <1>2, <1>4, <1>5, <1>6, <1>7, <1>8, KeyStep

(* Polling for a turn keeps the invariant. *)
LEMMA PollStep ==
  ASSUME TurnInv, NEW r \in AllRequests, Poll(r)
  PROVE  TurnInv'
PROOF
  <1>1. /\ Live(r) /\ req[r].pc = "poll" /\ db.turns[req[r].key] # None
        /\ UNCHANGED <<memory, scenario, conf, spent>>
    BY Typed DEF Poll, Live, ReqInv
  <1>2. CASE Answer(r, Error("provider_unavailable")) /\ UNCHANGED db
    <2>1. Error("provider_unavailable") \in Results /\ ~Error("provider_unavailable").ok
      BY Errors DEF Codes
    <2>2. memory' \in [Pods -> [Keys -> {None, "in_progress", "settled"}]]
      BY <1>1, Typed DEF Types
    <2> QED BY <1>1, <1>2, <2>1, <2>2, AnswerStep
  <1>3. CASE Replay(r)
    BY <1>1, <1>3, ReplayStep
  <1> QED BY <1>2, <1>3 DEF Poll

-----------------------------------------------------------------------------
(* A storage call that reports an error, away from the rows: what it did    *)
(* all the same harms nobody who may still call.                            *)
LEMMA EffectOps ==
  ASSUME TurnInv, NEW r \in AllRequests,
         req[r].pc \in {"check", "tokens", "lease", "failure", "success", "settle", "untoken",
                        "unlease"},
         req[r].pc = "check" => req[r].todo # <<>>,
         db' \in {db, Effect(r)}
  PROVE  /\ db' \in Databases /\ db'.turns = db.turns /\ LeaseInv'
         /\ \A q \in AllRequests \ {r} : NeedsLease(q) => Lease(q) \in db'.leases
PROOF
  <1>1. Exec(r)
    BY DEF Exec, ExecPcs
  <1>2. req[r] \in RequestRecords /\ ReqInv(r) /\ db \in Databases
    BY <1>1, ExecFacts
  <1>3. ASSUME db' \in Databases, db'.turns = db.turns, db'.leases = db.leases
        PROVE  /\ db' \in Databases /\ db'.turns = db.turns /\ LeaseInv'
               /\ \A q \in AllRequests \ {r} : NeedsLease(q) => Lease(q) \in db'.leases
    BY <1>3, SameLeases
  <1>4. CASE db' = db
    BY <1>2, <1>3, <1>4
  <1>5. CASE db' = Effect(r) /\ req[r].pc = "check"
    <2>1. Effect(r) = resource_circuit_allows(db, Circuit(r, Head(req[r].todo)))
      BY <1>5 DEF Effect
    <2> QED BY <1>2, <1>3, <1>5, <2>1, HealthOps
  <1>6. CASE db' = Effect(r) /\ req[r].pc = "tokens"
    <2>1. Effect(r) = IF db.usage + 1 <= DailyTokens
                      THEN reserve_project_daily_input_tokens(db) ELSE db
      BY <1>6 DEF Effect
    <2> QED BY <1>2, <1>3, <1>6, <2>1, UsageOps
  <1>7. CASE db' = Effect(r) /\ req[r].pc = "lease"
    <2>1. Effect(r) = acquire_project_concurrency_lease(db, Lease(r))
      BY <1>7 DEF Effect
    <2>2. req[r].snapshot # None
      BY <1>2, <1>7 DEF ReqInv, ExecPcs
    <2> QED BY <1>7, <2>1, <2>2, AcquireOps
  <1>8. CASE db' = Effect(r) /\ req[r].pc \in {"failure", "success"}
    <2>1. Effect(r) \in {record_resource_retryable_failure(db, Circuit(r, Candidate(r))),
                         record_resource_success(db, Circuit(r, Candidate(r)))}
      BY <1>8 DEF Effect
    <2> QED BY <1>2, <1>3, <1>8, <2>1, HealthOps
  <1>9. CASE db' = Effect(r) /\ req[r].pc \in {"settle", "untoken"}
    <2>1. Effect(r) \in {settle_project_daily_usage(db, req[r].held, req[r].out.tokens),
                         settle_project_daily_usage(db, req[r].held, 0)}
      BY <1>9 DEF Effect
    <2>2. req[r].held \in Nat /\ req[r].out.tokens \in Nat
      <3>1. req[r].held \in Nat /\ req[r].out \in Results
        BY <1>2, <1>9 DEF ReqInv, RequestRecords, Outcomes
      <3>2. req[r].out.tokens \in Actual \cup {0}
        BY <3>1 DEF Results
      <3>3. \A t \in Actual \cup {0} : t \in Nat
        BY GatewayAssumption
      <3> QED BY <3>1, <3>2, <3>3, Zenon
    <2> QED BY <1>2, <1>3, <1>9, <2>1, <2>2, UsageOps, SMTT(40)
  <1>10. CASE db' = Effect(r) /\ req[r].pc = "unlease"
    <2>1. Effect(r) = release_project_concurrency_lease(db, req[r].key)
      BY <1>10 DEF Effect
    <2> QED BY <1>1, <1>10, <2>1, ReleaseOps
  <1> QED BY <1>4, <1>5, <1>6, <1>7, <1>8, <1>9, <1>10

(* A request told of a storage error goes on, or ends, as the invariant has it. *)
LEMMA StorageFailsStep == ASSUME TurnInv, NEW r \in AllRequests, StorageFails(r) PROVE TurnInv'
PROOF
  <1>1. PICK d \in {db, Effect(r)} : db' = d
    BY DEF StorageFails
  <1>2. /\ UNCHANGED <<memory, scenario, conf, spent, oks>>
        /\ req' = [req EXCEPT ![r] = AfterStorageError(r)]
        /\ req[r].pc = "check" => req[r].todo # <<>>
    BY DEF StorageFails, Set
  <1>3. /\ req[r] \in RequestRecords /\ ReqInv(r) /\ db \in Databases
        /\ memory \in [Pods -> [Keys -> {None, "in_progress", "settled"}]]
    BY Typed DEF Types
  <1> DEFINE e == Error("gateway_storage_unavailable")
  <1>4. e \in Results /\ e \in Outcomes /\ e # None /\ ~e.ok
    BY Errors DEF Codes, Outcomes
  <1>5. CASE req[r].pc \in {"success", "failure"}
    <2> DEFINE n == [req[r] EXCEPT !.pc = "untoken", !.out = e]
    <2>1. AfterStorageError(r) = n
      BY <1>5 DEF AfterStorageError
    <2> HIDE DEF e
    <2>2. n \in RequestRecords
      BY <1>3, <1>4 DEF RequestRecords, Pcs, ExecPcs
    <2>3. /\ n.pc = "untoken" /\ n.key = req[r].key /\ n.pod = req[r].pod /\ n.body = req[r].body
          /\ n.out # None /\ n.snapshot # None
      BY <1>3, <1>4, <1>5 DEF RequestRecords, ReqInv, ExecPcs
    <2> HIDE DEF n
    <2>4. Fit(r, n) /\ ~NeedsLeaseIn(n) /\ req' = [req EXCEPT ![r] = n]
      BY <1>2, <2>1, <2>2, <2>3 DEF Fit, NeedsLeaseIn, ExecPcs
    <2>5. Exec(r) /\ req[r].pc # "publish"
      BY <1>5 DEF Exec, ExecPcs
    <2>6. /\ db' \in Databases /\ db'.turns = db.turns /\ LeaseInv'
          /\ \A q \in AllRequests \ {r} : NeedsLease(q) => Lease(q) \in db'.leases
      BY <1>1, <1>2, <1>5, EffectOps
    <2> QED BY <1>2, <1>3, <2>4, <2>5, <2>6, SpendsNothing, ExecStep
  <1>6. CASE req[r].pc \in {"check", "tokens", "lease", "settle", "untoken", "unlease"}
    <2> DEFINE n == [req[r] EXCEPT !.pc = "persist", !.out = e, !.held = 0]
    <2>1. AfterStorageError(r) = n
      BY <1>3, <1>6 DEF AfterStorageError, Stop, RequestRecords
    <2> HIDE DEF e
    <2>2. n \in RequestRecords
      BY <1>3, <1>4 DEF RequestRecords, Pcs, ExecPcs
    <2>3. /\ n.pc = "persist" /\ n.key = req[r].key /\ n.pod = req[r].pod /\ n.body = req[r].body
          /\ n.out # None /\ n.snapshot # None
      BY <1>3, <1>4, <1>6 DEF RequestRecords, ReqInv, ExecPcs
    <2> HIDE DEF n
    <2>4. Fit(r, n) /\ ~NeedsLeaseIn(n) /\ req' = [req EXCEPT ![r] = n]
      BY <1>2, <2>1, <2>2, <2>3 DEF Fit, NeedsLeaseIn, ExecPcs
    <2>5. Exec(r) /\ req[r].pc # "publish"
      BY <1>6 DEF Exec, ExecPcs
    <2>6. /\ db' \in Databases /\ db'.turns = db.turns /\ LeaseInv'
          /\ \A q \in AllRequests \ {r} : NeedsLease(q) => Lease(q) \in db'.leases
      BY <1>1, <1>2, <1>6, EffectOps
    <2> QED BY <1>2, <1>3, <2>4, <2>5, <2>6, SpendsNothing, ExecStep
  <1>7. CASE req[r].pc = "persist"
    <2> DEFINE n == [req[r] EXCEPT !.pc = "publish", !.out = e]
    <2>1. req' = [req EXCEPT ![r] = n]
      BY <1>2, <1>7 DEF AfterStorageError
    <2> HIDE DEF e
    <2>2. PICK k \in Keys : k = req[r].key
      BY <1>3, <1>7 DEF ReqInv
    <2>3. /\ n \in RequestRecords /\ n.pc = "publish" /\ n.out = e /\ n.key = k
          /\ n.pod = req[r].pod /\ n.body = req[r].body /\ n.snapshot = req[r].snapshot
      BY <1>3, <1>4, <2>2 DEF RequestRecords, Pcs, ExecPcs
    <2> HIDE DEF n
    <2>4. db.turns[k] # None /\ req[r].out # None
      BY <1>3, <1>7, <2>2 DEF ReqInv, Exec, ExecPcs
    <2>5. PICK w \in TurnRows :
            /\ db' = [db EXCEPT !.turns[k] = w]
            /\ w.state \in {"completed", "failed"} => w.out # None
            /\ w.state = "failed" => ~w.out.ok
      <3>1. CASE db' = db
        <4>1. db.turns[k] \in TurnRows /\ KeyInv(k) /\ db.turns \in [Keys -> TurnRows \cup {None}]
          BY <1>3, <2>4, RowFacts, DbFields DEF TurnInv
        <4>2. db = [db EXCEPT !.turns[k] = db.turns[k]]
          BY <1>3, <4>1 DEF Databases
        <4> QED BY <2>4, <3>1, <4>1, <4>2 DEF KeyInv
      <3>2. CASE db' = Effect(r)
        <4>1. Effect(r) = Outcome(db, r)
          BY <1>7 DEF Effect
        <4>2. PICK w \in TurnRows :
                /\ Outcome(db, r) = [db EXCEPT !.turns[k] = w]
                /\ w.out = req[r].out /\ w.state = IF req[r].out.ok THEN "completed" ELSE "failed"
          BY <1>7, <2>2, OutcomeRow
        <4> QED BY <2>4, <3>2, <4>1, <4>2
      <3> QED BY <1>1, <3>1, <3>2
    <2>6. /\ db' \in Databases /\ db'.leases = db.leases /\ db'.turns[k] = w
          /\ \A j \in Keys \ {k} : db'.turns[j] = db.turns[j]
      BY <1>3, <2>5, DbFields DEF Databases
    <2>7. w.state \in {"completed", "failed"} => w.out # None
      BY <2>5
    <2>8. w.state = "failed" => ~w.out.ok
      BY <2>5
    <2>9. UNCHANGED <<memory, scenario, conf, spent, oks>>
      BY <1>2
    <2> QED BY <1>4, <1>7, <2>1, <2>2, <2>3, <2>6, <2>7, <2>8, <2>9, PersistRow
  <1>8. CASE req[r].pc \in {"reserve", "poll"}
    <2>1. req' = [req EXCEPT ![r] = Ended(r, "done")]
      BY <1>2, <1>8 DEF AfterStorageError
    <2>2. PICK k \in Keys : k = req[r].key
      BY <1>3, <1>8 DEF ReqInv
    <2>3. /\ Ended(r, "done") \in RequestRecords /\ Ended(r, "done").pc = "done"
          /\ Ended(r, "done").key = k /\ Ended(r, "done").pc \notin ExecPcs
      BY <1>8, <2>2, EndedRecord
    <2>4. Effect(r) = reserve_turn(db, k, req[r].body)
      BY <1>8, <2>2 DEF Effect
    <2>5. CASE db' = db
      BY <1>2, <1>3, <2>1, <2>3, <2>5, WaitStep
    <2>6. CASE db' # db
      <3>1. db.turns[k] = None /\ db' = reserve_turn(db, k, req[r].body)
        BY <1>1, <2>4, <2>6 DEF reserve_turn
      <3> QED BY <1>2, <1>8, <2>1, <2>2, <2>3, <3>1, ReserveRow
    <2> QED BY <2>5, <2>6
  <1> QED BY <1>5, <1>6, <1>7, <1>8 DEF StorageFails

(* A circuit that cools down touches neither rows nor leases. *)
LEMMA CoolDownStep == ASSUME TurnInv, NEW c \in Circuits, CoolDown(c) PROVE TurnInv'
PROOF
  <1>1. /\ UNCHANGED <<memory, req, conf, scenario, spent, oks>>
        /\ db' = [db EXCEPT !.health[c].cooling = FALSE]
    BY DEF CoolDown
  <1>2. db \in Databases /\ db.health \in [Circuits -> Health] /\ Types
    BY DbFields DEF TurnInv, Types
  <1>3. db' \in Databases /\ db'.turns = db.turns /\ db'.leases = db.leases
    <2>1. PICK h \in Health : h = db.health[c]
      BY <1>2
    <2>2. [h EXCEPT !.cooling = FALSE] \in Health
      BY DEF Health
    <2>3. db' = [db EXCEPT !.health[c] = [h EXCEPT !.cooling = FALSE]]
      BY <1>1, <1>2, <2>1 DEF Databases
    <2> QED BY <1>2, <2>2, <2>3 DEF Databases
  <1>4. Types'
    BY <1>1, <1>2, <1>3 DEF Types
  <1>5. ASSUME NEW k \in Keys PROVE KeyInv(k)'
    <2>1. KeyInv(k)
      BY DEF TurnInv
    <2> QED BY <1>1, <1>3, <2>1 DEF KeyInv
  <1>6. ASSUME NEW r \in AllRequests PROVE ReqInv(r)'
    <2>1. ReqInv(r)
      BY DEF TurnInv
    <2>2. /\ Exec(r)' <=> Exec(r)
          /\ (NeedsLease(r)' <=> NeedsLease(r)) /\ Lease(r)' = Lease(r) /\ (Live(r)' <=> Live(r))
      BY <1>1 DEF NeedsLease, Lease, Live, Exec
    <2> QED BY <1>1, <1>3, <2>1, <2>2 DEF ReqInv
  <1>7. OneExecutor'
    BY <1>1 DEF TurnInv, OneExecutor, Exec
  <1> QED BY <1>3, <1>4, <1>5, <1>6, <1>7, SameLeases DEF TurnInv

(* A pod that stops leaves rows and leases to the others. *)
LEMMA CrashStep ==
  ASSUME TurnInv, NEW p \in Pods, Crash(p), conf' = [conf EXCEPT ![p] = None]
  PROVE  TurnInv'
PROOF
  <1>1. /\ UNCHANGED <<db, scenario, spent, oks>>
        /\ memory' = [memory EXCEPT ![p] = [k \in Keys |-> None]]
        /\ req' = [r \in AllRequests |->
                     IF Live(r) /\ req[r].pod = p THEN Ended(r, "gone") ELSE req[r]]
    BY DEF Crash
  <1>2. Types
    BY DEF TurnInv
  <1>3. ASSUME NEW r \in AllRequests
        PROVE  /\ req'[r] = req[r] \/ (req'[r] = Ended(r, "gone") /\ ~Exec(r)' /\ req[r].pc # "idle")
               /\ req'[r] \in RequestRecords
    <2>1. CASE req'[r] = req[r]
      BY <2>1, Typed
    <2>2. CASE req'[r] = Ended(r, "gone") /\ Live(r)
      <3>1. req[r].pc # "idle"
        BY <2>2 DEF Live
      <3>2. Ended(r, "gone") \in RequestRecords /\ Ended(r, "gone").pc \notin ExecPcs
        BY <3>1, EndedRecord
      <3> QED BY <2>2, <3>1, <3>2 DEF Exec
    <2> QED BY <1>1, <2>1, <2>2
  <1>4. Types'
    <2>1. req' \in [AllRequests -> RequestRecords]
      BY <1>1, <1>3
    <2>2. memory' \in [Pods -> [Keys -> {None, "in_progress", "settled"}]]
      BY <1>1, <1>2 DEF Types
    <2> QED BY <1>1, <1>2, <2>1, <2>2 DEF Types
  <1>5. ASSUME NEW k \in Keys PROVE KeyInv(k)'
    <2>1. KeyInv(k)
      BY DEF TurnInv
    <2> QED BY <1>1, <2>1 DEF KeyInv
  <1>6. ASSUME NEW r \in AllRequests PROVE ReqInv(r)'
    <2>1. CASE req'[r] = req[r]
      <3>1. ReqInv(r)
        BY DEF TurnInv
      <3>2. /\ Exec(r)' <=> Exec(r)
            /\ (NeedsLease(r)' <=> NeedsLease(r)) /\ Lease(r)' = Lease(r) /\ (Live(r)' <=> Live(r))
        BY <2>1 DEF NeedsLease, Lease, Live, Exec
      <3>3. Live(r) => req[r].pod \in Pods \ {p}
        <4>1. Live(r) /\ req[r].pod = p => Ended(r, "gone").pc = "gone" /\ req'[r] = Ended(r, "gone")
          BY <1>1, EndedRecord DEF Live
        <4> QED BY <2>1, <3>1, <4>1 DEF ReqInv, Live
      <3>4. \A q \in Pods \ {p} : conf'[q] = conf[q]
        BY <1>2 DEF Types
      <3> QED BY <1>1, <2>1, <3>1, <3>2, <3>3, <3>4 DEF ReqInv
    <2>2. CASE req'[r] = Ended(r, "gone") /\ req[r].pc # "idle"
      BY <2>2, EndedInv
    <2> QED BY <1>3, <2>1, <2>2
  <1>7. OneExecutor'
    <2>1. \A r \in AllRequests : Exec(r)' => Exec(r) /\ req'[r] = req[r]
      BY <1>3 DEF Exec
    <2> QED BY <2>1 DEF TurnInv, OneExecutor
  <1> QED BY <1>1, <1>4, <1>5, <1>6, <1>7, SameLeases DEF TurnInv

(* Every step of a turn keeps the invariant. *)
LEMMA TurnsStep == ASSUME TurnInv, TurnsNext PROVE TurnInv'
PROOF
  <1>1. ASSUME NEW r \in AllRequests, Arrive(r) \/ StorageFails(r) \/ Disconnect(r) \/ Late(r)
        PROVE  TurnInv'
    BY <1>1, ArriveStep, StorageFailsStep, DisconnectStep, LateStep
  <1>2. ASSUME NEW r \in AllRequests, Step(r) PROVE TurnInv'
    <2>1. CASE Reserve(r) \/ Lookup(r) \/ Woken(r) \/ Poll(r)
      BY <2>1, ReserveStep, WaiterStep, PollStep
    <2>2. CASE Insert(r) \/ Select(r) \/ Check(r) \/ ReserveTokens(r) \/ AcquireLease(r)
      BY <2>2, InsertStep, SelectStep, CheckStep, ReserveTokensStep, AcquireLeaseStep
    <2>3. CASE Call(r) \/ Upstream(r) \/ RecordFailure(r) \/ RecordSuccess(r)
      BY <2>3, CallStep, UpstreamStep, RecordFailureStep, RecordSuccessStep
    <2>4. CASE Settle(r) \/ ReleaseTokens(r) \/ ReleaseLease(r) \/ Persist(r) \/ Publish(r)
      BY <2>4, SettleStep, ReleaseLeaseStep, PersistStep, PublishStep
    <2> QED BY <1>2, <2>1, <2>2, <2>3, <2>4 DEF Step
  <1> QED BY <1>1, <1>2, CoolDownStep DEF TurnsNext

-----------------------------------------------------------------------------
(* Steps of the configuration leave the turns alone. *)
LEMMA SameTurns ==
  ASSUME TurnInv, UNCHANGED <<db, memory, req, scenario, spent, oks>>,
         conf' \in [Pods -> Configs \cup {None}], \A p \in Pods : conf[p] # None => conf'[p] # None
  PROVE  TurnInv'
PROOF
  <1>1. Types'
    BY DEF TurnInv, Types
  <1>2. ASSUME NEW k \in Keys PROVE KeyInv(k)'
    <2>1. KeyInv(k)
      BY DEF TurnInv
    <2> QED BY <2>1 DEF KeyInv
  <1>3. ASSUME NEW r \in AllRequests PROVE ReqInv(r)'
    <2>1. ReqInv(r)
      BY DEF TurnInv
    <2>2. /\ Exec(r)' <=> Exec(r)
          /\ (NeedsLease(r)' <=> NeedsLease(r)) /\ Lease(r)' = Lease(r) /\ (Live(r)' <=> Live(r))
      BY DEF NeedsLease, Lease, Live, Exec
    <2> QED BY <2>1, <2>2 DEF ReqInv
  <1>4. OneExecutor'
    BY DEF TurnInv, OneExecutor, Exec
  <1> QED BY <1>1, <1>2, <1>3, <1>4, SameLeases DEF TurnInv

(* The snapshots of the pods are as real as before while none is replaced. *)
LEMMA StillReal ==
  ASSUME ConfigInv, UNCHANGED <<conf, version, started>>, trail \subseteq trail',
         config' \in Configs,
         config'.resources >= config.resources, config'.policies >= config.policies
  PROVE  ConfigurationReal'
PROOF
  <1>1. config \in Configs /\ config' \in Configs /\ version \in [Pods -> Nat]
    BY DEF ConfigInv, ConfigTypes
  <1>2. ASSUME NEW p \in Pods, Stale(p) PROVE Stale(p)'
    <2>1. /\ config.resources \in Nat /\ config.policies \in Nat /\ config'.resources \in Nat
          /\ config'.policies \in Nat /\ version[p] \in Nat
      BY <1>1 DEF Configs
    <2>2. config.resources + config.policies > version[p]
      BY <1>2 DEF Stale, Version
    <2>3. config'.resources + config'.policies > version'[p]
      BY <2>1, <2>2
    <2> QED BY <2>3 DEF Stale, Version
  <1> QED BY <1>2 DEF ConfigInv, ConfigurationReal, ServesReal

(* A step that writes no revision keeps the configuration's invariant when  *)
(* it does so for the refresh and the operation it moves.                   *)
LEMMA UnwrittenStep ==
  ASSUME ConfigInv, ConfigTypes', UNCHANGED <<config, applied, trail>>, ConfigurationReal',
         ServeInv',
         \A o \in Operations : op'[o].expected = op[o].expected \/ OpInv(o)',
         \A o \in Operations : op[o].pc # "idle" => op'[o].pc # "idle",
         \A f \in Refreshers : refresh'[f] = refresh[f] \/ LoadInv(f)'
  PROVE  ConfigInv'
PROOF
  <1>1. ASSUME NEW o \in Operations PROVE OpInv(o)'
    BY DEF ConfigInv, OpInv
  <1>2. ASSUME NEW f \in Refreshers PROVE LoadInv(f)'
    BY DEF ConfigInv, LoadInv
  <1> QED BY <1>1, <1>2 DEF ConfigInv

(* A load or a handler that moves stays in a pod that serves: the other     *)
(* loads, handlers and pods do not notice.                                  *)
LEMMA ServeStep ==
  ASSUME ConfigInv, ConfigTypes', NEW f \in Refreshers, NEW n \in Loads,
         refresh' = [refresh EXCEPT ![f] = n],
         \A p \in Pods : conf'[p] = None <=> conf[p] = None,
         started' \subseteq started,
         n.pc \notin StartPcs, n.pc = "mark" => n.pod \notin started',
         f \in Pods => refresh[f].pc \notin StartPcs /\ (n.pc # "idle" => n.pod = f),
         \A o \in Operations : o # f => op'[o] = op[o],
         f \in Operations =>
           /\ op'[f].pc \in Busy => op'[f].pod \in Pods /\ conf[op'[f].pod] # None
           /\ n.pc # "idle" => op'[f].pc = "refresh" /\ n.pod = op'[f].pod
  PROVE  ServeInv'
PROOF
  <1>1. /\ refresh'[f] = n /\ \A g \in Refreshers : g # f => refresh'[g] = refresh[g]
        /\ Pods \subseteq Refreshers /\ Operations \subseteq Refreshers
    BY DEF ConfigInv, ConfigTypes, Refreshers
  <1>2. ASSUME NEW p \in Pods PROVE PodInv(p)'
    <2>1. PodInv(p)
      BY DEF ConfigInv, ServeInv
    <2>2. CASE p = f
      BY <1>1, <2>1, <2>2 DEF PodInv
    <2>3. CASE p # f
      BY <1>1, <2>1, <2>3 DEF PodInv
    <2> QED BY <2>2, <2>3
  <1>3. ASSUME NEW o \in Operations PROVE HandlerInv(o)'
    <2>1. HandlerInv(o)
      BY DEF ConfigInv, ServeInv
    <2>2. CASE o = f
      BY <1>1, <2>2 DEF HandlerInv
    <2>3. CASE o # f
      BY <1>1, <2>1, <2>3 DEF HandlerInv
    <2> QED BY <2>2, <2>3
  <1>4. ASSUME NEW g \in Refreshers PROVE MarkInv(g)'
    <2>1. MarkInv(g)
      BY DEF ConfigInv, ServeInv
    <2> QED BY <1>1, <2>1 DEF MarkInv
  <1> QED BY <1>2, <1>3, <1>4 DEF ServeInv

(* A load past its start is one of a pod that serves. *)
LEMMA LoadServes ==
  ASSUME ConfigInv, NEW f \in Refreshers, refresh[f].pc \notin StartPcs \cup {"idle"}
  PROVE  /\ refresh[f].pod \in Pods /\ conf[refresh[f].pod] # None
         /\ f \in Pods => refresh[f].pod = f
         /\ f \in Operations => op[f].pc = "refresh" /\ op[f].pod = refresh[f].pod
PROOF
  <1>1. CASE f \in Pods
    <2>1. PodInv(f) /\ f \notin Operations
      BY <1>1, RefresherAssumption DEF ConfigInv, ServeInv
    <2> QED BY <1>1, <2>1 DEF PodInv
  <1>2. CASE f \in Operations
    <2>1. HandlerInv(f) /\ f \notin Pods
      BY <1>2, RefresherAssumption DEF ConfigInv, ServeInv
    <2> QED BY <1>2, <2>1 DEF HandlerInv, Busy
  <1> QED BY <1>1, <1>2 DEF Refreshers

(* A new revision: the other operations and the loads under way stay behind *)
(* it.                                                                      *)
LEMMA SavedStep ==
  ASSUME ConfigInv, ConfigTypes', NEW o \in Operations, check_revision(o), Saved(o),
         UNCHANGED <<conf, version, started>>, ServeInv',
         op[o].pc # "idle", \A u \in Operations : op'[u].expected = op[u].expected,
         \A u \in Operations : op[u].pc # "idle" => op'[u].pc # "idle",
         \A f \in Refreshers : refresh'[f] = refresh[f] \/ refresh'[f].pc \in {"idle", "load"}
  PROVE  ConfigInv'
PROOF
  <1>1. /\ config' = [config EXCEPT ![Table(o)] = @ + 1] /\ trail' = trail \cup {config'}
        /\ applied' = [applied EXCEPT ![o] = @ + 1]
    BY DEF Saved
  <1>2. config \in Configs /\ applied \in [Operations -> Nat] /\ config' \in Configs
        /\ Table(o) \in {"resources", "policies"} /\ op \in [Operations -> Handlers]
    BY TableAssumption DEF ConfigInv, ConfigTypes
  <1>3. /\ config.resources \in Nat /\ config.policies \in Nat
        /\ config'.resources \in Nat /\ config'.policies \in Nat
        /\ config'.resources >= config.resources /\ config'.policies >= config.policies
        /\ config'[Table(o)] > config[Table(o)]
    BY <1>1, <1>2 DEF Configs
  <1>4. \A u \in Operations : /\ config'[Table(u)] >= config[Table(u)]
                              /\ config[Table(u)] \in Nat /\ config'[Table(u)] \in Nat
    <2> SUFFICES ASSUME NEW u \in Operations
                 PROVE  /\ config'[Table(u)] >= config[Table(u)]
                        /\ config[Table(u)] \in Nat /\ config'[Table(u)] \in Nat
      OBVIOUS
    <2>1. Table(u) \in {"resources", "policies"}
      BY TableAssumption
    <2>2. CASE Table(u) = "resources"
      BY <1>3, <2>2
    <2>3. CASE Table(u) = "policies"
      BY <1>3, <2>3
    <2> QED BY <2>1, <2>2, <2>3
  <1>5. ASSUME NEW u \in Operations PROVE OpInv(u)'
    <2>1. OpInv(u) /\ op[u].expected \in Nat /\ applied[u] \in Nat
      BY <1>2 DEF ConfigInv, Handlers
    <2>2. CASE u = o
      <3>1. op[o].expected = config[Table(o)]
        BY DEF check_revision
      <3>2. applied[o] = 0
        BY <1>4, <2>1, <2>2, <3>1 DEF OpInv
      <3>3. applied'[o] = 1
        BY <1>1, <1>2, <3>2
      <3> QED BY <1>3, <1>4, <2>1, <2>2, <3>1, <3>3 DEF OpInv
    <2>3. CASE u # o
      <3>1. applied'[u] = applied[u]
        BY <1>1, <1>2, <2>3
      <3> QED BY <1>4, <2>1, <3>1 DEF OpInv
    <2> QED BY <2>2, <2>3
  <1>6. ASSUME NEW f \in Refreshers PROVE LoadInv(f)'
    <2>1. CASE refresh'[f].pc \in {"idle", "load"}
      BY <2>1 DEF LoadInv
    <2>2. CASE refresh'[f] = refresh[f]
      <3>1. LoadInv(f) /\ refresh[f].before \in Nat
        BY DEF ConfigInv, ConfigTypes, Loads
      <3>2. CASE refresh[f].pc \in {"loading", "starting"}
        <4>1. refresh[f].read.resources \in Nat
          BY <3>1, <3>2 DEF LoadInv, Configs
        <4> QED BY <1>3, <2>2, <3>1, <3>2, <4>1 DEF LoadInv
      <3>3. CASE refresh[f].pc = "opened"
        BY <1>3, <2>2, <3>1, <3>3 DEF LoadInv
      <3>4. CASE refresh[f].pc \notin {"loading", "starting", "opened"}
        BY <1>1, <2>2, <3>1, <3>4 DEF LoadInv
      <3> QED BY <3>2, <3>3, <3>4
    <2> QED BY <2>1, <2>2
  <1>7. config' \in trail' /\ ConfigurationReal'
    BY <1>1, <1>2, <1>3, StillReal
  <1> QED BY <1>5, <1>6, <1>7 DEF ConfigInv

(* The types the configuration's steps start from. *)
LEMMA ConfigTyped ==
  ASSUME ConfigInv
  PROVE  /\ config \in Configs /\ config.resources \in Nat /\ config.policies \in Nat
         /\ op \in [Operations -> Handlers] /\ refresh \in [Refreshers -> Loads]
         /\ applied \in [Operations -> Nat]
         /\ version \in [Pods -> Nat] /\ started \subseteq Pods
         /\ NoRefresh \in Loads /\ NoRefresh.pc = "idle"
         /\ Operations \subseteq Refreshers /\ Pods \subseteq Refreshers
         /\ \A o \in Operations : config[Table(o)] \in Nat
PROOF
  <1>1. /\ config \in Configs /\ config.resources \in Nat /\ config.policies \in Nat
        /\ op \in [Operations -> Handlers] /\ refresh \in [Refreshers -> Loads]
        /\ applied \in [Operations -> Nat]
        /\ version \in [Pods -> Nat] /\ started \subseteq Pods
    BY DEF ConfigInv, ConfigTypes, Configs
  <1>2. NoRefresh \in Loads /\ NoRefresh.pc = "idle"
        /\ Operations \subseteq Refreshers /\ Pods \subseteq Refreshers
    BY DEF NoRefresh, Loads, Refreshers
  <1>3. \A o \in Operations : config[Table(o)] \in Nat
    BY <1>1, TableAssumption
  <1> QED BY <1>1, <1>2, <1>3

(* Without a write, the database's configuration is not behind itself. *)
LEMMA Unwritten ==
  ASSUME ConfigInv, UNCHANGED <<config, trail, conf, version, started>>
  PROVE  ConfigurationReal'
PROOF
  <1>1. config' \in Configs /\ config'.resources >= config.resources
        /\ config'.policies >= config.policies
    BY ConfigTyped
  <1> QED BY <1>1, StillReal

(* An operation's handler moves on: no revision, no load. *)
LEMMA HandlerStep ==
  ASSUME ConfigInv, NEW o \in Operations, Send(o) \/ ReserveWrite(o) \/ Complete(o) \/ Discard(o)
  PROVE  ConfigInv' /\ UNCHANGED gatewayVars
PROOF
  <1>1. /\ UNCHANGED <<gatewayVars, config, applied, trail, refresh>>
        /\ UNCHANGED <<conf, version, started>>
    BY DEF Send, ReserveWrite, Complete, Discard, gatewayVars
  <1>2. /\ op \in [Operations -> Handlers] /\ config[Table(o)] \in Nat /\ OpInv(o)
        /\ op[o] \in Handlers /\ HandlerInv(o) /\ MarkInv(o) /\ o \in Refreshers /\ o \notin Pods
        /\ refresh \in [Refreshers -> Loads] /\ refresh[o] \in Loads
    BY ConfigTyped, RefresherAssumption DEF ConfigInv, ServeInv
  <1>3. PICK n \in Handlers : /\ op' = [op EXCEPT ![o] = n] /\ n.pc # "idle"
                              /\ n.expected = op[o].expected
                                   \/ (op[o].pc = "idle" /\ n.expected = config[Table(o)])
                              /\ op[o].pc # "refresh"
                              /\ n.pc \in Busy => n.pod \in Pods /\ conf[n.pod] # None
    <2>1. CASE Send(o)
      <3>1. PICK p \in Pods :
              /\ conf[p] # None
              /\ SetOp(o, [pc |-> "reserve", pod |-> p,
                           expected |-> IF op[o].pc = "idle" THEN config[Table(o)]
                                        ELSE op[o].expected])
        BY <2>1 DEF Send
      <3>2. [pc |-> "reserve", pod |-> p,
             expected |-> IF op[o].pc = "idle" THEN config[Table(o)] ELSE op[o].expected]
              \in Handlers
        BY <1>2 DEF Handlers
      <3>3. op[o].pc # "refresh"
        BY <2>1 DEF Send
      <3> QED BY <3>1, <3>2, <3>3 DEF SetOp
    <2>2. CASE ReserveWrite(o) \/ Complete(o) \/ Discard(o)
      <3>1. PICK pc \in {"save", "acked", "failed"} :
              op' = [op EXCEPT ![o] = [op[o] EXCEPT !.pc = pc]]
        BY <2>2 DEF ReserveWrite, Complete, Discard, SetOp
      <3>2. /\ [op[o] EXCEPT !.pc = pc] \in Handlers /\ [op[o] EXCEPT !.pc = pc].pc = pc
            /\ [op[o] EXCEPT !.pc = pc].expected = op[o].expected
            /\ [op[o] EXCEPT !.pc = pc].pod = op[o].pod
        BY <1>2 DEF Handlers
      <3>3. op[o].pc \in Busy \ {"refresh"}
        BY <2>2 DEF ReserveWrite, Complete, Discard, Busy
      <3>4. op[o].pod \in Pods /\ conf[op[o].pod] # None
        BY <1>2, <3>3 DEF HandlerInv
      <3> QED BY <3>1, <3>2, <3>3, <3>4
    <2> QED BY <2>1, <2>2
  <1>4. ConfigTypes' /\ ConfigurationReal'
    BY <1>1, <1>2, <1>3, Unwritten DEF ConfigInv, ConfigTypes
  <1>5. OpInv(o)'
    BY <1>1, <1>2, <1>3 DEF OpInv
  <1>6. \A u \in Operations : u # o => op'[u] = op[u]
    BY <1>2, <1>3
  <1>7. op'[o] = n
    BY <1>2, <1>3
  <1>8. ServeInv'
    <2>1. refresh[o].pc = "idle" /\ refresh' = [refresh EXCEPT ![o] = refresh[o]]
      BY <1>1, <1>2, <1>3 DEF HandlerInv
    <2> QED BY <1>1, <1>2, <1>3, <1>4, <1>6, <1>7, <2>1, ServeStep DEF StartPcs
  <1> QED BY <1>1, <1>3, <1>4, <1>5, <1>6, <1>7, <1>8, UnwrittenStep

(* A write, and its failure with or without its effect. *)
LEMMA WriteStep ==
  ASSUME ConfigInv, NEW o \in Operations, Save(o) \/ WriteFails(o)
  PROVE  ConfigInv' /\ UNCHANGED <<db, memory, req, conf, scenario, spent, oks>>
PROOF
  <1>1. /\ UNCHANGED <<db, memory, req, conf, scenario, spent, oks>>
        /\ UNCHANGED <<version, started>> /\ op[o].pc # "idle" /\ op[o].pc \in Busy
    BY DEF Save, WriteFails, gatewayVars, Busy
  <1>2. /\ config \in Configs /\ op \in [Operations -> Handlers] /\ op[o] \in Handlers
        /\ refresh \in [Refreshers -> Loads] /\ NoRefresh \in Loads /\ o \in Refreshers
        /\ applied \in [Operations -> Nat] /\ HandlerInv(o) /\ o \notin Pods
    BY ConfigTyped, RefresherAssumption DEF ConfigInv, ServeInv
  <1>3. op[o].pod \in Pods /\ conf[op[o].pod] # None
    BY <1>1, <1>2 DEF HandlerInv
  <1>4. PICK pc \in {"refresh", "discard", "failed"}, m \in Loads :
          /\ op' = [op EXCEPT ![o] = [op[o] EXCEPT !.pc = pc]]
          /\ refresh' = [refresh EXCEPT ![o] = m]
          /\ m.pc = "idle" \/ (m.pc = "load" /\ m.pod = op[o].pod /\ pc = "refresh")
    <2>1. CASE Save(o) /\ SetOp(o, [op[o] EXCEPT !.pc = "refresh"])
               /\ SetRefresh(o, [NoRefresh EXCEPT !.pc = "load", !.pod = op[o].pod])
      <3> DEFINE m == [NoRefresh EXCEPT !.pc = "load", !.pod = op[o].pod]
      <3>1. m \in Loads /\ m.pc = "load" /\ m.pod = op[o].pod
        BY <1>3 DEF NoRefresh, Loads
      <3>2. refresh' = [refresh EXCEPT ![o] = m]
        BY <2>1 DEF SetRefresh
      <3> HIDE DEF m
      <3> QED BY <2>1, <3>1, <3>2 DEF SetOp
    <2>2. CASE Save(o) /\ SetOp(o, [op[o] EXCEPT !.pc = "discard"]) /\ UNCHANGED refresh
      <3>1. refresh[o].pc = "idle" /\ refresh[o] \in Loads
        BY <1>2, <2>2 DEF HandlerInv, Save
      <3> QED BY <1>2, <2>2, <3>1 DEF SetOp
    <2>3. CASE WriteFails(o)
      <3>1. [op[o] EXCEPT !.pc = IF @ \in {"save", "refresh"} THEN "discard" ELSE "failed"]
              \in {[op[o] EXCEPT !.pc = pc] : pc \in {"refresh", "discard", "failed"}}
        BY <1>2 DEF Handlers
      <3>2. NoRefresh.pc = "idle"
        BY ConfigTyped
      <3> QED BY <1>2, <2>3, <3>1, <3>2 DEF WriteFails, SetOp, SetRefresh
    <2> QED BY <2>1, <2>2, <2>3 DEF Save
  <1> DEFINE n == [op[o] EXCEPT !.pc = pc]
  <1>5. n \in Handlers /\ n.pc = pc /\ n.expected = op[o].expected /\ n.pod = op[o].pod
    BY <1>2 DEF Handlers
  <1>6. op' = [op EXCEPT ![o] = n]
    BY <1>4
  <1> HIDE DEF n
  <1>7. /\ op' \in [Operations -> Handlers] /\ op'[o] = n
        /\ \A u \in Operations : u # o => op'[u] = op[u]
        /\ \A u \in Operations : op'[u].expected = op[u].expected
        /\ \A u \in Operations : op[u].pc # "idle" => op'[u].pc # "idle"
    BY <1>2, <1>5, <1>6
  <1>8. /\ refresh' \in [Refreshers -> Loads]
        /\ \A f \in Refreshers : refresh'[f] = refresh[f] \/ refresh'[f].pc \in {"idle", "load"}
    BY <1>2, <1>4
  <1>9. ASSUME ConfigTypes' PROVE ServeInv'
    <2>1. m.pc \in {"idle", "load"} /\ m.pc \notin StartPcs /\ m.pc # "mark"
      BY <1>4 DEF StartPcs
    <2>2. op'[o].pod \in Pods /\ conf[op'[o].pod] # None
      BY <1>3, <1>5, <1>7
    <2>3. m.pc # "idle" => op'[o].pc = "refresh" /\ m.pod = op'[o].pod
      BY <1>4, <1>5, <1>7
    <2> QED BY <1>1, <1>2, <1>4, <1>7, <1>9, <2>1, <2>2, <2>3, ServeStep
  <1>10. CASE check_revision(o) /\ Saved(o)
    <2>1. ConfigTypes'
      <3>1. config' \in Configs /\ applied' \in [Operations -> Nat]
        BY <1>2, <1>10, TableAssumption DEF Saved, Configs
      <3>2. trail' \subseteq Configs
        BY <1>10, <3>1 DEF Saved, ConfigInv, ConfigTypes
      <3>3. version' \in [Pods -> Nat] /\ started' \subseteq Pods
        BY <1>1, ConfigTyped
      <3> QED BY <1>7, <1>8, <3>1, <3>2, <3>3 DEF ConfigTypes
    <2> QED BY <1>1, <1>7, <1>8, <1>9, <1>10, <2>1, SavedStep
  <1>11. CASE UNCHANGED <<config, applied, trail>>
    <2>1. ConfigTypes' /\ ConfigurationReal'
      BY <1>1, <1>7, <1>8, <1>11, Unwritten DEF ConfigTypes, ConfigInv
    <2>2. \A f \in Refreshers : refresh'[f] = refresh[f] \/ LoadInv(f)'
      BY <1>8 DEF LoadInv
    <2> QED BY <1>1, <1>7, <1>9, <1>11, <2>1, <2>2, UnwrittenStep
  <1> QED BY <1>1, <1>10, <1>11 DEF Save, WriteFails

(* A load of the configuration: what it has at its end is one the database  *)
(* had, since nothing was written from its first read to its last.          *)
LEMMA LoadStep ==
  ASSUME ConfigInv, NEW f \in Refreshers, LoadFirst(f) \/ LoadRest(f)
  PROVE  ConfigInv' /\ UNCHANGED gatewayVars
PROOF
  <1>1. /\ UNCHANGED <<gatewayVars, config, applied, trail>> /\ UNCHANGED <<conf, version, started>>
        /\ refresh[f].pc \in {"load", "loading"}
    BY DEF LoadFirst, LoadRest, gatewayVars
  <1>2. /\ config \in Configs /\ config.resources \in Nat /\ config.policies \in Nat
        /\ op \in [Operations -> Handlers] /\ refresh \in [Refreshers -> Loads]
        /\ refresh[f] \in Loads /\ NoRefresh \in Loads /\ LoadInv(f) /\ config \in trail
        /\ version \in [Pods -> Nat] /\ started \subseteq Pods
    BY ConfigTyped DEF ConfigInv
  <1>3. /\ op' \in [Operations -> Handlers]
        /\ \A u \in Operations : op'[u].expected = op[u].expected
        /\ \A u \in Operations : op[u].pc # "idle" => op'[u].pc # "idle"
        /\ \A u \in Operations : u # f => op'[u] = op[u]
        /\ f \in Operations => /\ op'[f].pod = op[f].pod
                               /\ op'[f] = op[f] \/ refresh' = [refresh EXCEPT ![f] = NoRefresh]
    <2>1. CASE op' = op
      BY <1>2, <2>1
    <2>2. CASE f \in Operations /\ op' = [op EXCEPT ![f].pc = "discard"]
               /\ refresh' = [refresh EXCEPT ![f] = NoRefresh]
      <3>1. op[f] \in Handlers
        BY <1>2, <2>2
      <3>2. /\ [op[f] EXCEPT !.pc = "discard"] \in Handlers
            /\ [op[f] EXCEPT !.pc = "discard"].pc = "discard"
            /\ [op[f] EXCEPT !.pc = "discard"].expected = op[f].expected
            /\ [op[f] EXCEPT !.pc = "discard"].pod = op[f].pod
        BY <3>1 DEF Handlers
      <3>3. op' = [op EXCEPT ![f] = [op[f] EXCEPT !.pc = "discard"]]
        BY <1>2, <2>2
      <3> QED BY <1>2, <2>2, <3>2, <3>3
    <2> QED BY <2>1, <2>2 DEF LoadFirst, LoadRest, SetRefresh
  <1>4. /\ refresh[f].pod \in Pods /\ conf[refresh[f].pod] # None
        /\ f \in Pods => refresh[f].pod = f
        /\ f \in Operations => op[f].pc = "refresh" /\ op[f].pod = refresh[f].pod
    BY <1>1, LoadServes DEF StartPcs
  <1>5. ASSUME NEW n \in Loads, refresh' = [refresh EXCEPT ![f] = n],
               n = NoRefresh \/ (n.pod = refresh[f].pod /\ n.pc \in {"load", "loading", "install"}),
               n.pc = "install" => n.read \in trail,
               n.pc = "loading" => /\ n.read \in Configs /\ n.read.resources <= config.resources
                                   /\ n.before <= n.read.resources + config.policies
        PROVE  ConfigInv'
    <2>1. ConfigTypes' /\ ConfigurationReal'
      BY <1>1, <1>2, <1>3, <1>5, Unwritten DEF ConfigTypes, ConfigInv
    <2>2. refresh'[f] = n /\ \A g \in Refreshers : g # f => refresh'[g] = refresh[g]
      BY <1>2, <1>5
    <2>3. n.pc \in {"idle", "load", "loading", "install"} /\ NoRefresh.pc = "idle"
      BY <1>5, ConfigTyped
    <2>4. LoadInv(f)'
      BY <1>1, <1>5, <2>2, <2>3 DEF LoadInv
    <2>5. \A g \in Refreshers : refresh'[g] = refresh[g] \/ LoadInv(g)'
      BY <2>2, <2>4
    <2>6. ASSUME f \in Operations, n.pc # "idle" PROVE op'[f].pc = "refresh" /\ n.pod = op'[f].pod
      <3>1. refresh' # [refresh EXCEPT ![f] = NoRefresh]
        BY <1>2, <2>2, <2>3, <2>6
      <3> QED BY <1>3, <1>4, <1>5, <2>3, <2>6, <3>1
    <2>7. f \in Operations => op'[f].pod \in Pods /\ conf[op'[f].pod] # None
      BY <1>3, <1>4
    <2>8. f \in Pods => refresh[f].pc \notin StartPcs /\ (n.pc # "idle" => n.pod = f)
      BY <1>1, <1>4, <1>5, <2>3 DEF StartPcs
    <2>9. ServeInv'
      BY <1>1, <1>3, <1>5, <2>1, <2>3, <2>6, <2>7, <2>8, ServeStep DEF StartPcs
    <2> QED BY <1>1, <1>3, <2>1, <2>5, <2>9, UnwrittenStep
  <1>6. CASE LoadFirst(f)
    <2> DEFINE c == [resources |-> config.resources, policies |-> 0]
               n == [refresh[f] EXCEPT !.pc = "loading", !.before = Version(config), !.read = c]
    <2>1. c \in Configs /\ c.resources = config.resources /\ Version(config) \in Nat
          /\ Version(config) = c.resources + config.policies
      BY <1>2 DEF Configs, Version
    <2>2. refresh' = [refresh EXCEPT ![f] = n]
      BY <1>6 DEF LoadFirst, SetRefresh
    <2> HIDE DEF c
    <2>3. n \in Loads /\ n.pc = "loading" /\ n.read = c /\ n.before = Version(config)
          /\ n.pod = refresh[f].pod
      BY <1>2, <2>1 DEF Loads
    <2> HIDE DEF n
    <2>4. n.read.resources <= config.resources /\ n.before <= n.read.resources + config.policies
      BY <1>2, <2>1, <2>3
    <2> QED BY <1>1, <1>5, <2>1, <2>2, <2>3, <2>4
  <1>7. CASE LoadRest(f) /\ Whole(f)
             /\ SetRefresh(f, [refresh[f] EXCEPT !.pc = "install",
                                 !.read = [refresh[f].read EXCEPT !.policies = config.policies]])
    <2>1. /\ refresh[f].read \in Configs /\ refresh[f].read.resources <= config.resources
          /\ refresh[f].before <= refresh[f].read.resources + config.policies
      BY <1>2, <1>7 DEF LoadRest, LoadInv
    <2>2. PICK c \in Configs : c = refresh[f].read
      BY <2>1
    <2>3. c.resources \in Nat /\ config.resources + config.policies <= c.resources + config.policies
      BY <1>7, <2>1, <2>2 DEF Whole, Version, Configs
    <2>4. c.resources = config.resources
      BY <1>2, <2>1, <2>2, <2>3
    <2>5. [c EXCEPT !.policies = config.policies] = config
      BY <1>2, <2>4 DEF Configs
    <2> DEFINE n == [refresh[f] EXCEPT !.pc = "install", !.read = config]
    <2>6. refresh' = [refresh EXCEPT ![f] = n]
      BY <1>7, <2>2, <2>5 DEF SetRefresh
    <2>7. n \in Loads /\ n.pc = "install" /\ n.read = config /\ n.pod = refresh[f].pod
      BY <1>2 DEF Loads
    <2> HIDE DEF n
    <2> QED BY <1>1, <1>2, <1>5, <2>6, <2>7
  <1>8. CASE SetRefresh(f, [refresh[f] EXCEPT !.pc = "load", !.tries = @ + 1, !.read = None])
    <2> DEFINE n == [refresh[f] EXCEPT !.pc = "load", !.tries = refresh[f].tries + 1, !.read = None]
    <2>1. refresh[f].tries + 1 \in Nat
      BY <1>2 DEF Loads
    <2>2. n \in Loads /\ n.pc = "load" /\ n.pod = refresh[f].pod
      BY <1>2, <2>1 DEF Loads
    <2>3. refresh' = [refresh EXCEPT ![f] = n]
      BY <1>8 DEF SetRefresh
    <2> HIDE DEF n
    <2> QED BY <1>1, <1>5, <2>2, <2>3
  <1>9. CASE SetRefresh(f, NoRefresh)
    <2>1. NoRefresh.pc = "idle"
      BY DEF NoRefresh
    <2> QED BY <1>1, <1>2, <1>5, <1>9, <2>1 DEF SetRefresh
  <1> QED BY <1>1, <1>6, <1>7, <1>8, <1>9 DEF LoadRest

(* A poll begins or fails. *)
LEMMA PollsStep ==
  ASSUME ConfigInv, NEW p \in Pods, Poll2s(p) \/ PollFails(p)
  PROVE  ConfigInv' /\ UNCHANGED <<db, memory, req, conf, scenario, spent, oks>>
PROOF
  <1>1. /\ UNCHANGED <<db, memory, req, conf, scenario, spent, oks>>
        /\ UNCHANGED <<config, op, applied, trail>> /\ UNCHANGED <<version, started>>
        /\ refresh[p].pc \notin StartPcs
    BY DEF Poll2s, PollFails, gatewayVars, StartPcs
  <1>2. /\ refresh \in [Refreshers -> Loads] /\ NoRefresh \in Loads /\ p \in Refreshers
        /\ p \notin Operations
    BY ConfigTyped, RefresherAssumption DEF Refreshers
  <1>3. PICK n \in Loads : /\ n.pc = "idle" \/ (n.pc = "load" /\ n.pod = p)
                           /\ refresh' = [refresh EXCEPT ![p] = n]
    <2>1. /\ [NoRefresh EXCEPT !.pc = "load", !.pod = p] \in Loads
          /\ [NoRefresh EXCEPT !.pc = "load", !.pod = p].pc = "load" /\ NoRefresh.pc = "idle"
          /\ [NoRefresh EXCEPT !.pc = "load", !.pod = p].pod = p
      BY DEF NoRefresh, Loads
    <2> QED BY <1>2, <2>1 DEF Poll2s, PollFails, SetRefresh
  <1>4. ConfigTypes' /\ ConfigurationReal'
    BY <1>1, <1>2, <1>3, Unwritten DEF ConfigTypes, ConfigInv
  <1>5. \A g \in Refreshers : refresh'[g] = refresh[g] \/ LoadInv(g)'
    BY <1>2, <1>3 DEF LoadInv
  <1>6. ServeInv'
    BY <1>1, <1>2, <1>3, <1>4, ServeStep DEF StartPcs
  <1> QED BY <1>1, <1>4, <1>5, <1>6, UnwrittenStep

(* Replacing a pod's snapshot by one the database had. *)
LEMMA InstallReal ==
  ASSUME GInv, NEW f \in Refreshers, Install(f)
  PROVE  /\ conf' \in [Pods -> Configs \cup {None}] /\ ConfigurationReal'
         /\ \A p \in Pods : conf'[p] = None <=> conf[p] = None
         /\ started' = started \ {refresh[f].pod} /\ UNCHANGED version
PROOF
  <1>1. ConfigInv /\ conf \in [Pods -> Configs \cup {None}]
    BY DEF GInv, TurnInv, Types
  <1>2. /\ refresh[f].pod \in Pods /\ conf[refresh[f].pod] # None
    BY <1>1, LoadServes DEF Install, StartPcs
  <1>3. refresh[f].read \in trail /\ refresh[f].read \in Configs
    BY <1>1 DEF Install, ConfigInv, LoadInv, ConfigTypes
  <1>4. /\ conf' = [conf EXCEPT ![refresh[f].pod] = refresh[f].read]
        /\ started' = started \ {refresh[f].pod} /\ UNCHANGED <<config, trail, version>>
    BY DEF Install
  <1>5. ASSUME NEW p \in Pods, conf'[p] # None
        PROVE  conf'[p] \in trail' \/ (p \in started' /\ Stale(p)')
    <2>1. CASE p = refresh[f].pod
      BY <1>1, <1>3, <1>4, <2>1
    <2>2. CASE p # refresh[f].pod
      <3>1. conf'[p] = conf[p] /\ (p \in started => p \in started') /\ (Stale(p) => Stale(p)')
        BY <1>1, <1>4, <2>2 DEF Stale
      <3> QED BY <1>1, <1>4, <1>5, <3>1 DEF ConfigInv, ConfigurationReal, ServesReal
    <2> QED BY <2>1, <2>2
  <1> QED BY <1>1, <1>2, <1>3, <1>4, <1>5, NoneAssumption DEF ConfigurationReal, ServesReal

(* Storing a version: what the pod serves was installed, not loaded at its  *)
(* start.                                                                   *)
LEMMA MarkReal ==
  ASSUME GInv, NEW f \in Refreshers, Mark(f)
  PROVE  /\ UNCHANGED <<conf, started>> /\ ConfigurationReal' /\ version' \in [Pods -> Nat]
PROOF
  <1>1. ConfigInv /\ version \in [Pods -> Nat] /\ refresh[f] \in Loads /\ MarkInv(f)
    BY ConfigTyped DEF GInv, ConfigInv, ServeInv
  <1>2. /\ version' = [version EXCEPT ![refresh[f].pod] = refresh[f].before]
        /\ UNCHANGED <<conf, started, config, trail>> /\ refresh[f].pod \notin started
    BY <1>1 DEF Mark, gatewayVars, MarkInv
  <1>3. ASSUME NEW p \in Pods, conf[p] # None
        PROVE  conf[p] \in trail \/ (p \in started /\ Stale(p)')
    <2>1. CASE p = refresh[f].pod
      BY <1>1, <1>2, <1>3, <2>1 DEF ConfigInv, ConfigurationReal, ServesReal
    <2>2. CASE p # refresh[f].pod
      <3>1. Stale(p) => Stale(p)'
        BY <1>1, <1>2, <2>2 DEF Stale
      <3> QED BY <1>1, <1>3, <3>1 DEF ConfigInv, ConfigurationReal, ServesReal
    <2> QED BY <2>1, <2>2
  <1>4. refresh[f].before \in Nat
    BY <1>1 DEF Loads
  <1> QED BY <1>1, <1>2, <1>3, <1>4 DEF ConfigurationReal, ServesReal

(* Replacing a pod's snapshot, and storing its version. *)
LEMMA InstallStep ==
  ASSUME GInv, NEW f \in Refreshers, Install(f) \/ Mark(f)
  PROVE  GInv'
PROOF
  <1>1. TurnInv /\ ConfigInv /\ conf \in [Pods -> Configs \cup {None}]
    BY DEF GInv, TurnInv, Types
  <1>2. /\ op \in [Operations -> Handlers] /\ refresh \in [Refreshers -> Loads]
        /\ refresh[f] \in Loads /\ NoRefresh \in Loads /\ NoRefresh.pc = "idle"
        /\ version \in [Pods -> Nat] /\ started \subseteq Pods
    BY <1>1, ConfigTyped
  <1>3. /\ UNCHANGED <<db, memory, req, scenario, spent, oks>> /\ UNCHANGED <<config, applied, trail>>
        /\ refresh[f].pc \in {"install", "mark"}
    BY DEF Install, Mark, gatewayVars
  <1>4. /\ refresh[f].pod \in Pods /\ conf[refresh[f].pod] # None
        /\ f \in Pods => refresh[f].pod = f
        /\ f \in Operations => op[f].pc = "refresh" /\ op[f].pod = refresh[f].pod
    BY <1>1, <1>3, LoadServes DEF StartPcs
  <1>5. /\ conf' \in [Pods -> Configs \cup {None}] /\ ConfigurationReal'
        /\ \A p \in Pods : conf'[p] = None <=> conf[p] = None
        /\ started' \subseteq started /\ version' \in [Pods -> Nat]
    BY <1>1, <1>2, InstallReal, MarkReal
  <1>6. /\ op' \in [Operations -> Handlers]
        /\ \A u \in Operations : op'[u].expected = op[u].expected
        /\ \A u \in Operations : op[u].pc # "idle" => op'[u].pc # "idle"
        /\ \A u \in Operations : u # f => op'[u] = op[u]
        /\ f \in Operations => op'[f].pod = op[f].pod
        /\ f \in Operations /\ Install(f) => op'[f] = op[f]
    <2>1. CASE op' = op
      BY <1>2, <2>1
    <2>2. CASE f \in Operations /\ op' = [op EXCEPT ![f].pc = "complete"] /\ ~Install(f)
      <3>1. op[f] \in Handlers
        BY <1>2, <2>2
      <3>2. /\ [op[f] EXCEPT !.pc = "complete"] \in Handlers
            /\ [op[f] EXCEPT !.pc = "complete"].pc = "complete"
            /\ [op[f] EXCEPT !.pc = "complete"].expected = op[f].expected
            /\ [op[f] EXCEPT !.pc = "complete"].pod = op[f].pod
        BY <3>1 DEF Handlers
      <3>3. op' = [op EXCEPT ![f] = [op[f] EXCEPT !.pc = "complete"]]
        BY <1>2, <2>2
      <3> QED BY <1>2, <2>2, <3>2, <3>3
    <2>3. Mark(f) => ~Install(f)
      BY DEF Install, Mark
    <2> QED BY <2>1, <2>2, <2>3 DEF Install, Mark
  <1>7. PICK n \in Loads : /\ refresh' = [refresh EXCEPT ![f] = n]
                           /\ \/ n.pc = "idle"
                              \/ Install(f) /\ n.pc = "mark" /\ n.pod = refresh[f].pod
    <2>1. /\ [refresh[f] EXCEPT !.pc = "mark"] \in Loads
          /\ [refresh[f] EXCEPT !.pc = "mark"].pc = "mark"
          /\ [refresh[f] EXCEPT !.pc = "mark"].pod = refresh[f].pod
      BY <1>2 DEF Loads
    <2> QED BY <1>2, <2>1 DEF Install, Mark, SetRefresh
  <1>8. ConfigTypes'
    BY <1>1, <1>2, <1>3, <1>5, <1>6, <1>7 DEF ConfigTypes, ConfigInv
  <1>9. \A g \in Refreshers : refresh'[g] = refresh[g] \/ LoadInv(g)'
    BY <1>2, <1>7 DEF LoadInv
  <1>10. ServeInv'
    <2>1. n.pc \notin StartPcs
      BY <1>7 DEF StartPcs
    <2>2. n.pc = "mark" => n.pod \notin started'
      BY <1>7 DEF Install
    <2>3. f \in Pods => refresh[f].pc \notin StartPcs /\ (n.pc # "idle" => n.pod = f)
      BY <1>3, <1>4, <1>7 DEF StartPcs
    <2>4. f \in Operations =>
            /\ op'[f].pc \in Busy => op'[f].pod \in Pods /\ conf[op'[f].pod] # None
            /\ n.pc # "idle" => op'[f].pc = "refresh" /\ n.pod = op'[f].pod
      BY <1>4, <1>6, <1>7
    <2> QED BY <1>1, <1>5, <1>6, <1>7, <1>8, <2>1, <2>2, <2>3, <2>4, ServeStep
  <1>11. ConfigInv'
    BY <1>1, <1>3, <1>5, <1>6, <1>8, <1>9, <1>10, UnwrittenStep
  <1> QED BY <1>1, <1>3, <1>5, <1>11, SameTurns DEF GInv

(* A pod that stops takes its handlers and loads with it, and serves        *)
(* nothing until it has started again.                                      *)
LEMMA RestartStep == ASSUME GInv, NEW p \in Pods, Restart(p) PROVE GInv'
PROOF
  <1>1. TurnInv /\ ConfigInv /\ conf \in [Pods -> Configs \cup {None}]
    BY DEF GInv, TurnInv, Types
  <1>2. /\ op \in [Operations -> Handlers] /\ refresh \in [Refreshers -> Loads]
        /\ NoRefresh \in Loads /\ NoRefresh.pc = "idle"
        /\ version \in [Pods -> Nat] /\ started \subseteq Pods
        /\ Operations \subseteq Refreshers /\ Pods \subseteq Refreshers
    BY <1>1, ConfigTyped
  <1> DEFINE n == [NoRefresh EXCEPT !.pc = "start", !.pod = p]
  <1>3. /\ UNCHANGED <<config, applied, trail>> /\ conf' = [conf EXCEPT ![p] = None] /\ Crash(p)
        /\ version' = [version EXCEPT ![p] = 0] /\ started' = started \ {p}
        /\ op' = [o \in Operations |->
                    IF op[o].pod = p /\ op[o].pc \notin {"idle", "acked", "failed"}
                    THEN [op[o] EXCEPT !.pc = "gone"] ELSE op[o]]
        /\ refresh' = [f \in Refreshers |->
                         IF f = p THEN n
                         ELSE IF refresh[f].pod = p THEN NoRefresh ELSE refresh[f]]
    BY DEF Restart
  <1>4. n \in Loads /\ n.pc = "start" /\ n.pod = p
    BY DEF NoRefresh, Loads
  <1> HIDE DEF n
  <1>5. ASSUME NEW u \in Operations
        PROVE  /\ op'[u] \in Handlers /\ op'[u].expected = op[u].expected
               /\ op[u].pc # "idle" => op'[u].pc # "idle"
               /\ op'[u].pc \in Busy => op'[u] = op[u] /\ op[u].pod # p
    <2>1. op[u] \in Handlers
      BY <1>2
    <2>2. /\ [op[u] EXCEPT !.pc = "gone"] \in Handlers /\ [op[u] EXCEPT !.pc = "gone"].pc = "gone"
          /\ [op[u] EXCEPT !.pc = "gone"].expected = op[u].expected
      BY <2>1 DEF Handlers
    <2>3. CASE op[u].pod = p /\ op[u].pc \notin {"idle", "acked", "failed"}
      BY <1>3, <2>2, <2>3 DEF Busy
    <2>4. CASE ~(op[u].pod = p /\ op[u].pc \notin {"idle", "acked", "failed"})
      BY <1>3, <2>1, <2>4 DEF Busy
    <2> QED BY <2>3, <2>4
  <1>6. /\ op' \in [Operations -> Handlers] /\ refresh' \in [Refreshers -> Loads]
        /\ conf' \in [Pods -> Configs \cup {None}] /\ version' \in [Pods -> Nat]
        /\ started' \subseteq Pods
    BY <1>1, <1>2, <1>3, <1>4, <1>5
  <1>7. ConfigurationReal'
    <2>1. ASSUME NEW q \in Pods, q # p
          PROVE  /\ conf'[q] = conf[q] /\ (q \in started => q \in started')
                 /\ Stale(q) => Stale(q)'
      BY <1>1, <1>2, <1>3, <2>1 DEF Stale
    <2>2. conf'[p] = None
      BY <1>1, <1>3
    <2> QED BY <1>1, <1>3, <2>1, <2>2 DEF ConfigInv, ConfigurationReal, ServesReal
  <1>8. ConfigTypes'
    BY <1>1, <1>3, <1>6 DEF ConfigTypes, ConfigInv
  <1>9. \A g \in Refreshers : refresh'[g] = refresh[g] \/ LoadInv(g)'
    BY <1>2, <1>3, <1>4 DEF LoadInv
  <1>10. ServeInv'
    <2>1. ASSUME NEW q \in Pods PROVE PodInv(q)'
      <3>1. PodInv(q)
        BY <1>1 DEF ConfigInv, ServeInv
      <3>2. CASE q = p
        BY <1>1, <1>2, <1>3, <1>4, <3>2 DEF PodInv, StartPcs
      <3>3. CASE q # p
        <4>1. conf'[q] = conf[q] /\ (refresh[q].pc # "idle" => refresh'[q] = refresh[q])
              /\ refresh'[q] \in {NoRefresh, refresh[q]}
          BY <1>1, <1>2, <1>3, <3>1, <3>3 DEF PodInv
        <4> QED BY <1>2, <3>1, <4>1 DEF PodInv, StartPcs
      <3> QED BY <3>2, <3>3
    <2>2. ASSUME NEW u \in Operations PROVE HandlerInv(u)'
      <3>1. HandlerInv(u) /\ u # p /\ u \in Refreshers
        BY <1>1, <1>2, RefresherAssumption DEF ConfigInv, ServeInv
      <3>2. refresh'[u] = IF refresh[u].pod = p THEN NoRefresh ELSE refresh[u]
        BY <1>3, <3>1
      <3>3. op'[u].pc \in Busy => op'[u].pod \in Pods /\ conf'[op'[u].pod] # None
        BY <1>1, <1>3, <1>5, <3>1 DEF HandlerInv
      <3>4. ASSUME refresh'[u].pc # "idle"
            PROVE  op'[u].pc = "refresh" /\ refresh'[u].pod = op'[u].pod
                   /\ refresh'[u].pc \notin StartPcs
        <4>1. refresh'[u] = refresh[u] /\ refresh[u].pod # p /\ refresh[u].pc # "idle"
          BY <1>2, <3>2, <3>4
        <4>2. op'[u] = op[u]
          BY <1>3, <3>1, <4>1 DEF HandlerInv
        <4> QED BY <3>1, <4>1, <4>2 DEF HandlerInv
      <3> QED BY <3>3, <3>4 DEF HandlerInv
    <2>3. ASSUME NEW g \in Refreshers PROVE MarkInv(g)'
      <3>1. MarkInv(g)
        BY <1>1 DEF ConfigInv, ServeInv
      <3> QED BY <1>2, <1>3, <1>4, <3>1 DEF MarkInv
    <2> QED BY <2>1, <2>2, <2>3 DEF ServeInv
  <1>11. ConfigInv'
    BY <1>1, <1>3, <1>5, <1>7, <1>8, <1>9, <1>10, UnwrittenStep
  <1> QED BY <1>1, <1>3, <1>11, CrashStep DEF GInv

(* What a starting pod reads before it serves. *)
LEMMA OpeningStep ==
  ASSUME ConfigInv, NEW p \in Pods, StartVersion(p) \/ StartFirst(p)
  PROVE  ConfigInv' /\ UNCHANGED gatewayVars
PROOF
  <1>1. /\ UNCHANGED <<gatewayVars, config, applied, trail, op>>
        /\ UNCHANGED <<conf, version, started>> /\ refresh[p].pc \in StartPcs
    BY DEF StartVersion, StartFirst, gatewayVars, StartPcs
  <1>2. /\ config \in Configs /\ config.resources \in Nat /\ config.policies \in Nat
        /\ refresh \in [Refreshers -> Loads] /\ p \in Refreshers /\ refresh[p] \in Loads
        /\ LoadInv(p) /\ PodInv(p) /\ p \notin Operations
        /\ Operations \subseteq Refreshers /\ Pods \subseteq Refreshers
    BY ConfigTyped, RefresherAssumption DEF ConfigInv, ServeInv
  <1>3. PICK n \in Loads :
          /\ refresh' = [refresh EXCEPT ![p] = n]
          /\ n.pc \in StartPcs /\ n.pod = refresh[p].pod
          /\ n.pc = "opened" => n.before <= config.resources + config.policies
          /\ n.pc = "starting" => /\ n.read \in Configs /\ n.read.resources <= config.resources
                                  /\ n.before <= n.read.resources + config.policies
    <2>1. CASE StartVersion(p)
      <3>1. PICK v \in Nat : v = Version(config) /\ v <= config.resources + config.policies
        BY <1>2 DEF Version
      <3> DEFINE n == [refresh[p] EXCEPT !.pc = "opened", !.before = v]
      <3>2. n \in Loads /\ n.pc = "opened" /\ n.before = v /\ n.pod = refresh[p].pod
        BY <1>2 DEF Loads
      <3>3. refresh' = [refresh EXCEPT ![p] = n]
        BY <2>1, <3>1 DEF StartVersion, SetRefresh
      <3> HIDE DEF n
      <3>4. n.pc \in StartPcs /\ n.pc # "starting"
            /\ n.before <= config.resources + config.policies
        BY <3>1, <3>2 DEF StartPcs
      <3> QED BY <3>2, <3>3, <3>4
    <2>2. CASE StartFirst(p)
      <3> DEFINE c == [resources |-> config.resources, policies |-> 0]
                 n == [refresh[p] EXCEPT !.pc = "starting", !.read = c]
      <3>1. c \in Configs /\ c.resources = config.resources
        BY <1>2 DEF Configs
      <3> HIDE DEF c
      <3>2. n \in Loads /\ n.pc = "starting" /\ n.before = refresh[p].before /\ n.read = c
            /\ n.pod = refresh[p].pod
        BY <1>2, <3>1 DEF Loads
      <3>3. refresh' = [refresh EXCEPT ![p] = n]
        BY <2>2 DEF StartFirst, SetRefresh, c
      <3> HIDE DEF n
      <3>4. refresh[p].before <= config.resources + config.policies
        BY <1>2, <2>2 DEF StartFirst, LoadInv
      <3>5. n.pc \in StartPcs /\ n.pc # "opened" /\ n.read \in Configs
            /\ n.read.resources <= config.resources
            /\ n.before <= n.read.resources + config.policies
        BY <1>2, <3>1, <3>2, <3>4 DEF StartPcs
      <3> QED BY <3>2, <3>3, <3>5
    <2> QED BY <2>1, <2>2
  <1>4. refresh'[p] = n /\ \A g \in Refreshers : g # p => refresh'[g] = refresh[g]
    BY <1>2, <1>3
  <1>5. ConfigTypes' /\ ConfigurationReal'
    BY <1>1, <1>2, <1>3, Unwritten DEF ConfigTypes, ConfigInv
  <1>6. LoadInv(p)'
    BY <1>1, <1>3, <1>4 DEF LoadInv, StartPcs
  <1>7. ServeInv'
    <2>1. ASSUME NEW q \in Pods PROVE PodInv(q)'
      <3>1. PodInv(q)
        BY DEF ConfigInv, ServeInv
      <3>2. n.pc # "idle"
        BY <1>3 DEF StartPcs
      <3>3. refresh[p].pc # "idle"
        BY <1>1 DEF StartPcs
      <3> QED BY <1>1, <1>2, <1>3, <1>4, <3>1, <3>2, <3>3 DEF PodInv
    <2>2. ASSUME NEW u \in Operations PROVE HandlerInv(u)'
      BY <1>1, <1>2, <1>4 DEF ConfigInv, ServeInv, HandlerInv
    <2>3. ASSUME NEW g \in Refreshers PROVE MarkInv(g)'
      BY <1>1, <1>3, <1>4 DEF ConfigInv, ServeInv, MarkInv, StartPcs
    <2> QED BY <2>1, <2>2, <2>3 DEF ServeInv
  <1> QED BY <1>1, <1>4, <1>5, <1>6, <1>7, UnwrittenStep

(* A pod begins to serve what it has read: the database's configuration if  *)
(* nothing was written since its first read, and otherwise one its poll     *)
(* will replace.                                                            *)
LEMMA ServingStep == ASSUME GInv, NEW p \in Pods, StartRest(p) PROVE GInv'
PROOF
  <1> DEFINE c == [refresh[p].read EXCEPT !.policies = config.policies]
  <1>1. TurnInv /\ ConfigInv /\ conf \in [Pods -> Configs \cup {None}]
    BY DEF GInv, TurnInv, Types
  <1>2. /\ config \in Configs /\ config.resources \in Nat /\ config.policies \in Nat
        /\ refresh \in [Refreshers -> Loads] /\ p \in Refreshers /\ refresh[p] \in Loads
        /\ LoadInv(p) /\ PodInv(p) /\ p \notin Operations /\ config \in trail
        /\ NoRefresh \in Loads /\ NoRefresh.pc = "idle"
        /\ version \in [Pods -> Nat] /\ started \subseteq Pods
        /\ Operations \subseteq Refreshers /\ Pods \subseteq Refreshers
    BY <1>1, ConfigTyped, RefresherAssumption DEF ConfigInv, ServeInv
  <1>3. /\ refresh[p].pc = "starting" /\ conf' = [conf EXCEPT ![p] = c]
        /\ version' = [version EXCEPT ![p] = refresh[p].before]
        /\ refresh' = [refresh EXCEPT ![p] = NoRefresh]
        /\ started' = IF refresh[p].before = Version(config) THEN started ELSE started \cup {p}
        /\ UNCHANGED <<db, memory, req, scenario, spent, oks>>
        /\ UNCHANGED <<config, op, applied, trail>>
    BY DEF StartRest, SetRefresh
  <1>4. /\ refresh[p].read \in Configs /\ refresh[p].read.resources <= config.resources
        /\ refresh[p].before <= refresh[p].read.resources + config.policies
        /\ refresh[p].before \in Nat /\ refresh[p].read.resources \in Nat
    BY <1>2, <1>3 DEF LoadInv, Loads, Configs
  <1>5. c \in Configs
    BY <1>2, <1>4 DEF Configs
  <1>6. refresh[p].before = Version(config) => c = config
    <2>1. refresh[p].before = Version(config) => refresh[p].read.resources = config.resources
      BY <1>2, <1>4 DEF Version
    <2> QED BY <1>2, <1>4, <2>1 DEF Configs
  <1> HIDE DEF c
  <1>7. /\ conf'[p] = c /\ refresh'[p] = NoRefresh /\ version'[p] = refresh[p].before
        /\ conf[p] = None
        /\ \A q \in Pods : q # p => conf'[q] = conf[q] /\ version'[q] = version[q]
        /\ \A g \in Refreshers : g # p => refresh'[g] = refresh[g]
    BY <1>1, <1>2, <1>3 DEF PodInv, StartPcs
  <1>8. /\ conf' \in [Pods -> Configs \cup {None}] /\ c # None /\ version' \in [Pods -> Nat]
        /\ started' \subseteq Pods /\ refresh' \in [Refreshers -> Loads]
    BY <1>1, <1>2, <1>3, <1>4, <1>5, NoneAssumption
  <1>9. ConfigurationReal'
    <2>1. CASE refresh[p].before = Version(config)
      <3>1. ASSUME NEW q \in Pods, q # p, Stale(q) PROVE Stale(q)'
        BY <1>3, <1>7, <3>1 DEF Stale
      <3> QED BY <1>1, <1>2, <1>3, <1>6, <1>7, <2>1, <3>1 DEF ConfigInv, ConfigurationReal, ServesReal
    <2>2. CASE refresh[p].before # Version(config)
      <3>1. ASSUME NEW q \in Pods, q # p, Stale(q) PROVE Stale(q)'
        BY <1>3, <1>7, <3>1 DEF Stale
      <3>2. Version(config) > refresh[p].before
        BY <1>2, <1>4, <2>2 DEF Version
      <3>3. Stale(p)' /\ p \in started'
        BY <1>3, <1>7, <2>2, <3>2 DEF Stale, Version
      <3> QED BY <1>1, <1>3, <1>7, <2>2, <3>1, <3>3 DEF ConfigInv, ConfigurationReal, ServesReal
    <2> QED BY <2>1, <2>2
  <1>10. ConfigTypes'
    BY <1>1, <1>3, <1>8 DEF ConfigTypes, ConfigInv
  <1>11. \A g \in Refreshers : refresh'[g] = refresh[g] \/ LoadInv(g)'
    BY <1>2, <1>7 DEF LoadInv
  <1>12. ServeInv'
    <2>1. ASSUME NEW q \in Pods PROVE PodInv(q)'
      <3>1. PodInv(q)
        BY <1>1 DEF ConfigInv, ServeInv
      <3> QED BY <1>2, <1>7, <1>8, <3>1 DEF PodInv, StartPcs
    <2>2. ASSUME NEW u \in Operations PROVE HandlerInv(u)'
      <3>1. HandlerInv(u) /\ u # p /\ u \in Refreshers
        BY <1>1, <1>2 DEF ConfigInv, ServeInv
      <3> QED BY <1>2, <1>3, <1>7, <3>1 DEF HandlerInv
    <2>3. ASSUME NEW g \in Refreshers PROVE MarkInv(g)'
      <3>1. MarkInv(g)
        BY <1>1 DEF ConfigInv, ServeInv
      <3>2. CASE g = p
        BY <1>2, <1>7, <3>2 DEF MarkInv
      <3>3. CASE g # p /\ refresh[g].pc = "mark"
        <4>1. conf[refresh[g].pod] # None
          BY <1>1, <3>3, LoadServes DEF StartPcs
        <4>2. refresh[g].pod # p
          BY <1>7, <4>1
        <4> QED BY <1>3, <1>7, <3>1, <3>3, <4>2 DEF MarkInv
      <3>4. CASE g # p /\ refresh[g].pc # "mark"
        BY <1>7, <3>4 DEF MarkInv
      <3> QED BY <3>2, <3>3, <3>4
    <2> QED BY <2>1, <2>2, <2>3 DEF ServeInv
  <1>13. ConfigInv'
    BY <1>1, <1>3, <1>9, <1>10, <1>11, <1>12, UnwrittenStep
  <1>14. \A q \in Pods : conf[q] # None => conf'[q] # None
    BY <1>7, <1>8
  <1> QED BY <1>1, <1>3, <1>8, <1>13, <1>14, SameTurns DEF GInv

-----------------------------------------------------------------------------
(* The invariant holds when the gateway starts. *)
LEMMA InitInv == Init => GInv
PROOF
  <1> SUFFICES ASSUME Init PROVE GInv
    OBVIOUS
  <1>1. /\ scenario \in Scenarios /\ scenario.ahead \in Nat
        /\ db = EmptyDb /\ memory = [p \in Pods |-> [k \in Keys |-> None]]
        /\ req = [r \in AllRequests |-> NewRequest]
        /\ conf = [p \in Pods |-> [resources |-> 0, policies |-> 0]]
        /\ spent = [k \in Keys |-> {}] /\ oks = [k \in Keys |-> {}]
    BY GatewayAssumption DEF Init, TurnsInit
  <1>2. /\ db.turns = [k \in Keys |-> None] /\ db.leases = {}
        /\ db \in Databases
    BY <1>1 DEF EmptyDb, Databases, Health
  <1>3. NewRequest \in RequestRecords /\ NewRequest.pc = "idle"
    <2>1. <<>> \in Seq(Resources) /\ None \in Outcomes
      BY DEF Outcomes
    <2> QED BY <2>1 DEF NewRequest, RequestRecords, Pcs
  <1>4. Types
    <2>1. [resources |-> 0, policies |-> 0] \in Configs
      BY DEF Configs
    <2> QED BY <1>1, <1>2, <1>3, <2>1 DEF Types
  <1>5. ASSUME NEW k \in Keys PROVE KeyInv(k)
    BY <1>1, <1>2 DEF KeyInv
  <1>6. ASSUME NEW r \in AllRequests PROVE ReqInv(r) /\ ~Exec(r)
    <2>1. req[r].pc = "idle"
      BY <1>1, <1>3
    <2> QED BY <2>1 DEF ReqInv, Exec, ExecPcs, Live, NeedsLease
  <1>7. LeaseInv
    <2>1. IsFiniteSet({}) /\ Cardinality({}) = 0
      BY FS_EmptySet
    <2>2. \A s \in Nat : LeasesOf(db, s) = {}
      BY <1>2 DEF LeasesOf
    <2>3. 0 <= MaxConcurrent
      BY GatewayAssumption
    <2> QED BY <1>2, <2>1, <2>2, <2>3 DEF LeaseInv
  <1>8. TurnInv
    BY <1>4, <1>5, <1>6, <1>7 DEF TurnInv, OneExecutor
  <1>9. ConfigTypes
    <2>1. config \in Configs
      BY <1>1 DEF Init, Configs
    <2>2. NoRefresh \in Loads /\ [pc |-> "idle", pod |-> None, expected |-> 0] \in Handlers
      BY DEF NoRefresh, Loads, Handlers
    <2>3. trail \subseteq Configs
      BY <1>1 DEF Init, Configs
    <2>4. version \in [Pods -> Nat] /\ started \subseteq Pods
      BY DEF Init
    <2> QED BY <2>1, <2>2, <2>3, <2>4 DEF Init, ConfigTypes
  <1>10. config \in trail /\ ConfigurationReal /\ ServeInv
    <2>1. config \in trail /\ ConfigurationReal
      BY <1>1 DEF Init, ConfigurationReal, ServesReal
    <2>2. \A p \in Pods : PodInv(p)
      <3>1. [resources |-> 0, policies |-> 0] # None
        BY NoneAssumption DEF Configs
      <3> QED BY <1>1, <3>1 DEF Init, PodInv, NoRefresh, StartPcs, Refreshers
    <2>3. \A o \in Operations : HandlerInv(o)
      BY DEF Init, HandlerInv, NoRefresh, Busy, Refreshers
    <2>4. \A f \in Refreshers : MarkInv(f)
      BY DEF Init, MarkInv
    <2> QED BY <2>1, <2>2, <2>3, <2>4 DEF ServeInv
  <1>11. ASSUME NEW o \in Operations PROVE OpInv(o)
    <2>1. config[Table(o)] \in Nat
      BY <1>9, TableAssumption DEF ConfigTypes, Configs
    <2>2. op[o].expected = 0 /\ applied[o] = 0
      BY DEF Init
    <2> QED BY <2>1, <2>2 DEF OpInv
  <1>12. ASSUME NEW f \in Refreshers PROVE LoadInv(f)
    BY DEF Init, LoadInv, NoRefresh
  <1> QED BY <1>8, <1>9, <1>10, <1>11, <1>12 DEF GInv, ConfigInv

(* And every step keeps it. *)
LEMMA NextInv == GInv /\ [Next]_vars => GInv'
PROOF
  <1> SUFFICES ASSUME GInv, [Next]_vars PROVE GInv'
    OBVIOUS
  <1>1. TurnInv /\ ConfigInv /\ conf \in [Pods -> Configs \cup {None}]
    BY DEF GInv, TurnInv, Types
  <1>2. ASSUME UNCHANGED configVars, UNCHANGED conf PROVE ConfigInv'
    BY <1>1, <1>2 DEF ConfigInv, ConfigTypes, ConfigurationReal, ServesReal, Stale, OpInv, LoadInv, ServeInv,
                      PodInv, HandlerInv, MarkInv, configVars
  <1>3. CASE TurnsNext /\ UNCHANGED configVars
    <2>1. UNCHANGED conf
      BY <1>3, ZenonT(40) DEF TurnsNext, Arrive, Step, StorageFails, Disconnect, Late, CoolDown, Reserve,
                  Lookup, Woken, Poll, Insert, Select, Check, ReserveTokens, AcquireLease, Call,
                  Upstream, RecordFailure, RecordSuccess, Settle, ReleaseTokens, ReleaseLease,
                  Persist, Publish
    <2> QED BY <1>1, <1>2, <1>3, <2>1, TurnsStep DEF GInv
  <1>4. ASSUME UNCHANGED <<db, memory, req, conf, scenario, spent, oks>>, ConfigInv' PROVE GInv'
    BY <1>1, <1>4, SameTurns DEF GInv
  <1>5. ASSUME NEW p \in Pods, Poll2s(p) \/ PollFails(p) \/ Restart(p) \/ Start(p) PROVE GInv'
    <2>1. CASE Poll2s(p) \/ PollFails(p)
      BY <1>1, <1>4, <2>1, PollsStep
    <2>2. CASE Restart(p)
      BY <2>2, RestartStep
    <2>3. CASE StartVersion(p) \/ StartFirst(p)
      BY <1>1, <1>4, <2>3, OpeningStep DEF gatewayVars
    <2>4. CASE StartRest(p)
      BY <2>4, ServingStep
    <2> QED BY <1>5, <2>1, <2>2, <2>3, <2>4 DEF Start
  <1>6. ASSUME NEW o \in Operations, Send(o) \/ Write(o) \/ WriteFails(o) PROVE GInv'
    <2>1. CASE Send(o) \/ ReserveWrite(o) \/ Complete(o) \/ Discard(o)
      BY <1>1, <1>4, <2>1, HandlerStep DEF gatewayVars
    <2>2. CASE Save(o) \/ WriteFails(o)
      BY <1>1, <1>4, <2>2, WriteStep
    <2> QED BY <1>6, <2>1, <2>2 DEF Write
  <1>7. ASSUME NEW f \in Refreshers, Refresh(f) PROVE GInv'
    <2>1. CASE LoadFirst(f) \/ LoadRest(f)
      BY <1>1, <1>4, <2>1, LoadStep DEF gatewayVars
    <2>2. CASE Install(f) \/ Mark(f)
      BY <2>2, InstallStep
    <2> QED BY <1>7, <2>1, <2>2 DEF Refresh
  <1>8. CASE UNCHANGED vars
    BY <1>1, <1>2, <1>4, <1>8 DEF vars, gatewayVars
  <1> QED BY <1>3, <1>5, <1>6, <1>7, <1>8 DEF Next

(* The invariant holds in every reachable state of the gateway. *)
THEOREM Invariance == Spec => []GInv
PROOF
  <1>1. Init => GInv
    BY InitInv
  <1>2. GInv /\ [Next]_vars => GInv'
    BY NextInv
  <1> QED BY <1>1, <1>2, PTL DEF Spec

-----------------------------------------------------------------------------
(* A turn is executed once, whatever is repeated, dropped or restarted, on  *)
(* however many pods: its upstream calls are all of one request, no more    *)
(* than one execution may make, and an administrative write creates one     *)
(* revision (execute_turn, reserve_turn, reserve_admin_write).              *)
THEOREM ExecutedOnceTheorem == Spec => []ExecutedOnce
PROOF
  <1>1. GInv => ExecutedOnce
    <2> SUFFICES ASSUME GInv PROVE ExecutedOnce
      OBVIOUS
    <2>1. \A o \in Operations : applied[o] <= 1
      BY DEF GInv, ConfigInv, OpInv
    <2>2. ASSUME NEW k \in Keys
          PROVE  /\ \A c, d \in spent[k] : c[1] = d[1]
                 /\ Cardinality(spent[k]) <= MaxAttempts * (MaxSwitches + 1)
      <3>1. spent[k] \subseteq Calls /\ \A c, d \in spent[k] : c[1] = d[1]
        BY DEF GInv, TurnInv, Types, KeyInv
      <3> DEFINE A == 1..(MaxSwitches + 1)
                 B == 1..MaxAttempts
                 F == [c \in spent[k] |-> <<c[2], c[3]>>]
      <3>2. MaxSwitches + 1 \in Nat /\ MaxAttempts \in Nat
        BY GatewayAssumption
      <3>3. /\ IsFiniteSet(A) /\ Cardinality(A) = MaxSwitches + 1
            /\ IsFiniteSet(B) /\ Cardinality(B) = MaxAttempts
        <4>1. \A n \in Nat : IsFiniteSet(1..n) /\ Cardinality(1..n) = n
          BY FS_Interval
        <4> QED BY <3>2, <4>1
      <3>4. /\ IsFiniteSet(A \X B) /\ Cardinality(A \X B) = Cardinality(A) * Cardinality(B)
        BY <3>3, FS_Product
      <3>5. F \in Injection(spent[k], A \X B)
        <4>1. \A c \in spent[k] : c = <<c[1], c[2], c[3]>> /\ c[2] \in A /\ c[3] \in B
          BY <3>1 DEF Calls
        <4>2. F \in [spent[k] -> A \X B]
          BY <4>1
        <4>3. \A c, d \in spent[k] : F[c] = F[d] => c = d
          BY <3>1, <4>1
        <4> QED BY <4>2, <4>3 DEF Injection, IsInjective
      <3>6. IsFiniteSet(spent[k]) /\ Cardinality(spent[k]) <= Cardinality(A \X B)
        BY <3>4, <3>5, FS_Injection
      <3>7. Cardinality(A) * Cardinality(B) = MaxAttempts * (MaxSwitches + 1)
        BY <3>2, <3>3
      <3> QED BY <3>1, <3>4, <3>6, <3>7
    <2> QED BY <2>1, <2>2 DEF ExecutedOnce
  <1> QED BY <1>1, Invariance, PTL

(* All requests for a turn that succeed return one response, and it is      *)
(* stored, or was until its replay window ended (persist, then publish).    *)
THEOREM AnswersAgreeTheorem == Spec => []AnswersAgree
PROOF
  <1>1. GInv => AnswersAgree
    <2> SUFFICES ASSUME GInv, NEW k \in Keys, oks[k] # {}
                 PROVE  /\ Cardinality(oks[k]) = 1
                        /\ db.turns[k] # None
                        /\ \/ db.turns[k].state = "expired"
                           \/ db.turns[k].state = "completed" /\ db.turns[k].out.by \in oks[k]
      BY DEF AnswersAgree
    <2>1. KeyInv(k)
      BY DEF GInv, TurnInv
    <2>2. PICK b \in oks[k] : oks[k] = {b}
      BY <2>1 DEF KeyInv
    <2>3. Cardinality(oks[k]) = 1
      BY <2>2, FS_Singleton
    <2> QED BY <2>1, <2>2, <2>3 DEF KeyInv
  <1> QED BY <1>1, Invariance, PTL

(* No more turns of a project call providers under one revision of a policy *)
(* than it allows, although leases expire and outlive their requests        *)
(* (acquire_project_concurrency_lease).                                     *)
THEOREM ConcurrencyTheorem == Spec => []ConcurrencyBounded
PROOF
  <1>1. GInv => ConcurrencyBounded
    <2> SUFFICES ASSUME GInv, NEW s \in Revisions
                 PROVE  Cardinality({r \in AllRequests : req[r].pc = "calling"
                                       /\ req[r].snapshot.policies = s}) <= MaxConcurrent
      BY DEF ConcurrencyBounded
    <2> DEFINE C == {r \in AllRequests : req[r].pc = "calling" /\ req[r].snapshot.policies = s}
               F == [r \in C |-> Lease(r)]
    <2>1. TurnInv /\ LeaseInv
      BY DEF GInv, TurnInv
    <2>2. MaxConcurrent \in Nat
      BY GatewayAssumption
    <2>3. F \in Injection(C, LeasesOf(db, s))
      <3>1. \A r \in C : Lease(r) \in db.leases /\ Lease(r).scope = s /\ Lease(r).by = r
        BY <2>1, Typed DEF ReqInv, NeedsLease, Lease
      <3>2. F \in [C -> LeasesOf(db, s)]
        BY <3>1 DEF LeasesOf
      <3>3. \A q, r \in C : F[q] = F[r] => q = r
        BY <3>1
      <3> QED BY <3>2, <3>3 DEF Injection, IsInjective
    <2>4. IsFiniteSet(LeasesOf(db, s))
      BY <2>1, FS_Subset DEF LeaseInv, LeasesOf
    <2>5. IsFiniteSet(C) /\ Cardinality(C) <= Cardinality(LeasesOf(db, s))
      BY <2>3, <2>4, FS_Injection
    <2>6. CASE s \in Nat
      <3>1. Cardinality(LeasesOf(db, s)) <= MaxConcurrent
        BY <2>1, <2>6 DEF LeaseInv
      <3>2. Cardinality(C) \in Nat /\ Cardinality(LeasesOf(db, s)) \in Nat
        BY <2>4, <2>5, FS_CardinalityType
      <3> HIDE DEF C
      <3>3. Cardinality(C) <= MaxConcurrent
        BY <2>2, <2>5, <3>1, <3>2
      <3> QED BY <3>3 DEF C
    <2>7. CASE s \notin Nat
      <3>1. \A r \in C : req[r].snapshot \in Configs
        <4> SUFFICES ASSUME NEW r \in C PROVE req[r].snapshot \in Configs
          OBVIOUS
        <4>1. req[r] \in RequestRecords /\ ReqInv(r)
          BY <2>1, Typed
        <4> QED BY <4>1 DEF RequestRecords, ReqInv, ExecPcs
      <3>2. C = {}
        BY <2>7, <3>1 DEF Configs
      <3>3. Cardinality(C) = 0
        BY <3>2, FS_EmptySet
      <3> QED BY <2>2, <3>3
    <2> QED BY <2>6, <2>7
  <1> QED BY <1>1, Invariance, PTL

(* No pod serves turns from a configuration the database never had,         *)
(* whatever other pods write while it loads, but one that has started while *)
(* something was written, whose version is then behind, so that its poll    *)
(* will replace what it serves (refresh_configuration,                      *)
(* GatewayService::new).                                                    *)
THEOREM ConfigurationTheorem == Spec => []ConfigurationReal
PROOF
  <1>1. GInv => ConfigurationReal
    BY DEF GInv, ConfigInv
  <1> QED BY <1>1, Invariance, PTL

-----------------------------------------------------------------------------
(* What is accounted for: the tokens and the lease of a turn.               *)

(* The steps at which a request holds its estimate, has a lease, and has not *)
(* been billed                                                              *)
Holding == {"lease", "call", "calling", "failure", "success", "settle", "untoken"}

Leasing == {"call", "calling", "failure", "success", "settle", "untoken", "unlease"}

Unsettled == {"insert", "select", "check", "tokens"} \cup Holding

HeldInv ==
  \A r \in AllRequests :
    /\ req[r].held = IF req[r].pc \in Holding THEN 1 ELSE 0
    /\ req[r].pc \in Unsettled => billed[req[r].key] = 0

UsageInv ==
  /\ IsFiniteSet(Tokens(billed, Keys)) /\ IsFiniteSet(Tokens(Held, AllRequests))
  /\ db.usage >= Due
  /\ faults = 0 => db.usage = Due

LeasedInv ==
  faults = 0 =>
    /\ \A r \in AllRequests : req[r].leased => req[r].pc \in Leasing
    /\ \A l \in db.leases : req[l.by].leased /\ req[l.by].key = l.key

AccountInv ==
  /\ faults \in Nat
  /\ billed \in [Keys -> Nat]
  /\ \A k \in Keys : db.turns[k] = None => billed[k] = 0
  /\ HeldInv
  /\ UsageInv
  /\ LeasedInv

(* Tokens counted for one more, or one less, member of a set *)
LEMMA TokensOfOne ==
  ASSUME NEW x, NEW n \in Nat
  PROVE  IsFiniteSet({x} \X (1..n)) /\ Cardinality({x} \X (1..n)) = n
PROOF
  <1>1. IsFiniteSet({x}) /\ Cardinality({x}) = 1
    BY FS_Singleton
  <1>2. IsFiniteSet(1..n) /\ Cardinality(1..n) = n
    BY FS_Interval
  <1>3. /\ IsFiniteSet({x} \X (1..n))
        /\ Cardinality({x} \X (1..n)) = Cardinality({x}) * Cardinality(1..n)
    BY <1>1, <1>2, FS_Product
  <1> QED BY <1>1, <1>2, <1>3

(* When the count of one member changes, so does the number of tokens.      *)
LEMMA TokensChange ==
  ASSUME NEW S, NEW x \in S, NEW f, NEW g, f[x] \in Nat, g[x] \in Nat,
         \A y \in S \ {x} : g[y] = f[y],
         IsFiniteSet(Tokens(f, S))
  PROVE  /\ IsFiniteSet(Tokens(g, S))
         /\ Cardinality(Tokens(f, S)) \in Nat /\ Cardinality(Tokens(g, S)) \in Nat
         /\ Cardinality(Tokens(g, S)) + f[x] = Cardinality(Tokens(f, S)) + g[x]
PROOF
  <1> DEFINE R == Tokens(f, S \ {x})
  <1>1. R = Tokens(g, S \ {x})
    BY DEF Tokens
  <1>2. /\ Tokens(f, S) = R \cup ({x} \X (1..f[x]))
        /\ R \cap ({x} \X (1..f[x])) = {}
    BY DEF Tokens
  <1>3. /\ Tokens(g, S) = R \cup ({x} \X (1..g[x]))
        /\ R \cap ({x} \X (1..g[x])) = {}
    BY <1>1 DEF Tokens
  <1>4. IsFiniteSet(R) /\ Cardinality(R) \in Nat
    <2>1. R \subseteq Tokens(f, S)
      BY <1>2
    <2> QED BY <2>1, FS_Subset, FS_CardinalityType
  <1> HIDE DEF R
  <1>5. IsFiniteSet(Tokens(f, S)) /\ Cardinality(Tokens(f, S)) = Cardinality(R) + f[x]
    <2>1. /\ IsFiniteSet({x} \X (1..f[x])) /\ Cardinality({x} \X (1..f[x])) = f[x]
      BY TokensOfOne
    <2>2. Cardinality(R \cup ({x} \X (1..f[x]))) = Cardinality(R) + f[x] - Cardinality({})
      BY <1>2, <1>4, <2>1, FS_Union
    <2> QED BY <1>2, <1>4, <2>2, FS_EmptySet
  <1>6. IsFiniteSet(Tokens(g, S)) /\ Cardinality(Tokens(g, S)) = Cardinality(R) + g[x]
    <2>1. /\ IsFiniteSet({x} \X (1..g[x])) /\ Cardinality({x} \X (1..g[x])) = g[x]
      BY TokensOfOne
    <2>2. Cardinality(R \cup ({x} \X (1..g[x]))) = Cardinality(R) + g[x] - Cardinality({})
      BY <1>3, <1>4, <2>1, FS_Union
    <2>3. IsFiniteSet(R \cup ({x} \X (1..g[x])))
      BY <1>4, <2>1, FS_Union
    <2> QED BY <1>3, <1>4, <2>2, <2>3, FS_EmptySet
  <1> QED BY <1>4, <1>5, <1>6

(* Fewer held, fewer tokens *)
LEMMA TokensShrink ==
  ASSUME NEW S, NEW f, NEW g, \A x \in S : 1..g[x] \subseteq 1..f[x],
         IsFiniteSet(Tokens(f, S))
  PROVE  /\ IsFiniteSet(Tokens(g, S))
         /\ Cardinality(Tokens(f, S)) \in Nat /\ Cardinality(Tokens(g, S)) \in Nat
         /\ Cardinality(Tokens(g, S)) <= Cardinality(Tokens(f, S))
PROOF
  <1>1. Tokens(g, S) \subseteq Tokens(f, S)
    BY DEF Tokens
  <1> QED BY <1>1, FS_Subset, FS_CardinalityType

(* Where the requests of a step stand *)
LEMMA AccountFacts ==
  ASSUME TurnInv, AccountInv, NEW r \in AllRequests
  PROVE  /\ req \in [AllRequests -> RequestRecords] /\ req[r] \in RequestRecords
         /\ db \in Databases /\ db.usage \in Nat
         /\ Held[r] = req[r].held /\ req[r].held = IF req[r].pc \in Holding THEN 1 ELSE 0
         /\ req[r].pc \in Unsettled => req[r].key \in Keys /\ billed[req[r].key] = 0
PROOF
  <1>1. /\ req \in [AllRequests -> RequestRecords] /\ req[r] \in RequestRecords
        /\ db \in Databases /\ db.usage \in Nat /\ ReqInv(r)
    BY Typed, DbFields
  <1>2. req[r].held = IF req[r].pc \in Holding THEN 1 ELSE 0
    BY DEF AccountInv, HeldInv
  <1>3. Held[r] = req[r].held
    BY <1>2 DEF Held, Live, Holding
  <1>4. req[r].pc \in Unsettled => req[r].key \in Keys /\ billed[req[r].key] = 0
    BY <1>1 DEF AccountInv, HeldInv, Unsettled, Holding, ReqInv
  <1> QED BY <1>1, <1>2, <1>3, <1>4

(* A request becomes n, and its key is billed new tokens in place of old    *)
(* ones.                                                                    *)
Becomes(r, n) ==
  /\ n \in RequestRecords /\ req' = [req EXCEPT ![r] = n]
  /\ n.held = IF n.pc \in Holding THEN 1 ELSE 0

Bills(r, old, new) ==
  \/ billed' = billed /\ new = old
  \/ /\ req[r].key \in Keys /\ old = billed[req[r].key]
     /\ billed' = [billed EXCEPT ![req[r].key] = new]

(* What is due after that *)
LEMMA DueChange ==
  ASSUME TurnInv, AccountInv, NEW r \in AllRequests, NEW n, Becomes(r, n),
         NEW old \in Nat, NEW new \in Nat, Bills(r, old, new)
  PROVE  /\ IsFiniteSet(Tokens(billed, Keys))' /\ IsFiniteSet(Tokens(Held, AllRequests))'
         /\ Due \in Nat /\ Due' \in Nat
         /\ Due' + old + req[r].held = Due + new + n.held
PROOF
  <1>1. /\ req \in [AllRequests -> RequestRecords] /\ Held[r] = req[r].held
        /\ req[r].held \in Nat /\ billed \in [Keys -> Nat]
        /\ IsFiniteSet(Tokens(billed, Keys)) /\ IsFiniteSet(Tokens(Held, AllRequests))
    BY AccountFacts DEF AccountInv, UsageInv
  <1>2. PICK h : h = Held'
    OBVIOUS
  <1>3. /\ h[r] = n.held /\ n.held \in Nat
        /\ \A q \in AllRequests \ {r} : h[q] = Held[q]
    BY <1>1, <1>2 DEF Becomes, Held, Live, Holding
  <1>4. /\ IsFiniteSet(Tokens(h, AllRequests))
        /\ Cardinality(Tokens(Held, AllRequests)) \in Nat
        /\ Cardinality(Tokens(h, AllRequests)) \in Nat
        /\ Cardinality(Tokens(h, AllRequests)) + req[r].held =
              Cardinality(Tokens(Held, AllRequests)) + n.held
    BY <1>1, <1>3, TokensChange
  <1>5. PICK b : b = billed'
    OBVIOUS
  <1>6. /\ IsFiniteSet(Tokens(b, Keys))
        /\ Cardinality(Tokens(billed, Keys)) \in Nat /\ Cardinality(Tokens(b, Keys)) \in Nat
        /\ Cardinality(Tokens(b, Keys)) + old = Cardinality(Tokens(billed, Keys)) + new
    <2>1. CASE billed' = billed /\ new = old
      BY <1>1, <1>5, <2>1, FS_CardinalityType
    <2>2. CASE /\ req[r].key \in Keys /\ old = billed[req[r].key]
               /\ billed' = [billed EXCEPT ![req[r].key] = new]
      <3>1. PICK k \in Keys : k = req[r].key
        BY <2>2
      <3>2. b[k] = new /\ billed[k] = old /\ \A y \in Keys \ {k} : b[y] = billed[y]
        BY <1>1, <1>5, <2>2, <3>1
      <3> QED BY <1>1, <3>2, TokensChange
    <2> QED BY <2>1, <2>2 DEF Bills
  <1>7. /\ Tokens(billed, Keys)' = Tokens(b, Keys)
        /\ Tokens(Held, AllRequests)' = Tokens(h, AllRequests)
    BY <1>2, <1>5 DEF Tokens
  <1>8. Due' = Cardinality(Tokens(b, Keys)) + Cardinality(Tokens(h, AllRequests))
    BY <1>7 DEF Due
  <1>9. Due = Cardinality(Tokens(billed, Keys)) + Cardinality(Tokens(Held, AllRequests))
    BY DEF Due
  <1> QED BY <1>1, <1>3, <1>4, <1>6, <1>7, <1>8, <1>9

(* A request becomes n.  Its tokens move with the day's usage, and only an   *)
(* executor that has a lease, or gets one, is named by a lease.             *)
Books(r, n) ==
  /\ n \in RequestRecords /\ req' = [req EXCEPT ![r] = n]
  /\ n.held = IF n.pc \in Holding THEN 1 ELSE 0
  /\ db'.usage \in Nat
  /\ \A k \in Keys : db'.turns[k] = None => db.turns[k] = None
  /\ n.pc \in Unsettled =>
       \/ req[r].pc \in Unsettled /\ n.key = req[r].key
       \/ n.key \in Keys /\ db.turns[n.key] = None
  /\ faults' \in Nat
  /\ faults' = 0 =>
       /\ faults = 0
       /\ n.leased => n.pc \in Leasing
       /\ \A l \in db'.leases :
            \/ l \in db.leases /\ (l.by = r => n.leased /\ n.key = req[r].key)
            \/ l.by = r /\ n.leased /\ l.key = n.key

(* The tokens a step takes, gives back or bills keep the books in order.    *)
LEMMA BilledStep ==
  ASSUME TurnInv, AccountInv, NEW r \in AllRequests, NEW n, Books(r, n),
         NEW old \in Nat, NEW new \in Nat,
         \/ billed' = billed /\ new = old
         \/ /\ req[r].pc \in Unsettled /\ n.pc \notin Unsettled /\ old = billed[req[r].key]
            /\ billed' = [billed EXCEPT ![req[r].key] = new],
         db'.usage + old + req[r].held >= db.usage + new + n.held,
         faults' = 0 => db'.usage + old + req[r].held = db.usage + new + n.held
  PROVE  AccountInv'
PROOF
  <1>1. /\ req \in [AllRequests -> RequestRecords] /\ db.usage \in Nat /\ req[r].held \in Nat
        /\ req[r].pc \in Unsettled => req[r].key \in Keys
        /\ billed \in [Keys -> Nat] /\ OneExecutor
    BY AccountFacts DEF AccountInv, TurnInv
  <1>2. /\ req'[r] = n /\ n \in RequestRecords /\ n.held \in Nat
        /\ \A q \in AllRequests \ {r} : req'[q] = req[q]
    BY <1>1 DEF Books
  <1>3. UsageInv'
    <2>1. /\ IsFiniteSet(Tokens(billed, Keys))' /\ IsFiniteSet(Tokens(Held, AllRequests))'
          /\ Due \in Nat /\ Due' \in Nat
          /\ Due' + old + req[r].held = Due + new + n.held
      <3>1. Bills(r, old, new)
        BY <1>1, Zenon DEF Bills
      <3>2. Becomes(r, n)
        BY DEF Books, Becomes
      <3> QED BY <3>1, <3>2, DueChange
    <2>2. db.usage >= Due /\ (faults = 0 => db.usage = Due)
      BY DEF AccountInv, UsageInv
    <2>3. db'.usage \in Nat /\ (faults' = 0 => faults = 0)
      BY DEF Books
    <2>4. db'.usage >= Due'
      BY <1>1, <1>2, <2>1, <2>2, <2>3
    <2>5. faults' = 0 => db'.usage = Due'
      BY <1>1, <1>2, <2>1, <2>2, <2>3
    <2> QED BY <2>1, <2>4, <2>5 DEF UsageInv
  <1>4. billed' \in [Keys -> Nat]
    BY <1>1
  <1>5. ASSUME NEW k \in Keys, billed'[k] # billed[k]
        PROVE  /\ Exec(r) /\ k = req[r].key /\ db.turns[k] # None
               /\ n.pc \notin Unsettled
    <2>1. req[r].pc \in Unsettled /\ n.pc \notin Unsettled /\ k = req[r].key
      BY <1>1, <1>5
    <2>2. Exec(r)
      BY <2>1 DEF Exec, ExecPcs, Unsettled, Holding
    <2> QED BY <2>1, <2>2 DEF TurnInv, ReqInv
  <1>6. ASSUME NEW k \in Keys, db'.turns[k] = None PROVE billed'[k] = 0
    BY <1>5, <1>6 DEF Books, AccountInv
  <1>7. HeldInv'
    <2> SUFFICES ASSUME NEW q \in AllRequests
                 PROVE  /\ req'[q].held = IF req'[q].pc \in Holding THEN 1 ELSE 0
                        /\ req'[q].pc \in Unsettled => billed'[req'[q].key] = 0
      BY DEF HeldInv
    <2>1. CASE q = r
      <3>1. n.pc \in Unsettled => n.key \in Keys /\ billed[n.key] = 0
        BY AccountFacts DEF Books, AccountInv
      <3>2. n.pc \in Unsettled => billed'[n.key] = 0
        BY <1>5, <3>1
      <3> QED BY <1>2, <2>1, <3>2 DEF Books
    <2>2. CASE q # r
      <3>1. req'[q] = req[q] /\ req[q].held = IF req[q].pc \in Holding THEN 1 ELSE 0
        BY <1>2, <2>2, AccountFacts
      <3>2. ASSUME req[q].pc \in Unsettled PROVE billed'[req[q].key] = 0
        <4>1. req[q].key \in Keys /\ billed[req[q].key] = 0 /\ Exec(q)
          BY <3>2, AccountFacts DEF Exec, ExecPcs, Unsettled, Holding
        <4>2. ~(Exec(r) /\ req[q].key = req[r].key)
          BY <1>1, <2>2, <4>1 DEF OneExecutor
        <4> QED BY <1>5, <4>1, <4>2
      <3> QED BY <3>1, <3>2
    <2> QED BY <2>1, <2>2
  <1>8. LeasedInv'
    <2> SUFFICES ASSUME faults' = 0
                 PROVE  /\ \A q \in AllRequests : req'[q].leased => req'[q].pc \in Leasing
                        /\ \A l \in db'.leases : req'[l.by].leased /\ req'[l.by].key = l.key
      BY DEF LeasedInv
    <2>1. /\ \A q \in AllRequests : req[q].leased => req[q].pc \in Leasing
          /\ \A l \in db.leases : req[l.by].leased /\ req[l.by].key = l.key
      BY DEF Books, AccountInv, LeasedInv
    <2>2. \A q \in AllRequests : req'[q].leased => req'[q].pc \in Leasing
      BY <1>2, <2>1 DEF Books
    <2>3. \A l \in db.leases : l.by \in AllRequests
      BY Typed, DbFields DEF Leases
    <2>4. ASSUME NEW l \in db'.leases PROVE req'[l.by].leased /\ req'[l.by].key = l.key
      <3>1. CASE l \in db.leases /\ (l.by = r => n.leased /\ n.key = req[r].key)
        BY <1>2, <2>1, <2>3, <3>1
      <3>2. CASE l.by = r /\ n.leased /\ l.key = n.key
        BY <1>2, <3>2
      <3> QED BY <3>1, <3>2 DEF Books
    <2> QED BY <2>2, <2>4
  <1>9. faults' \in Nat
    BY DEF Books
  <1> QED BY <1>3, <1>4, <1>6, <1>7, <1>8, <1>9 DEF AccountInv

(* Most steps bill nothing. *)
LEMMA UnbilledStep ==
  ASSUME TurnInv, AccountInv, NEW r \in AllRequests, NEW n, Books(r, n), billed' = billed,
         db'.usage + req[r].held >= db.usage + n.held,
         faults' = 0 => db'.usage + req[r].held = db.usage + n.held
  PROVE  AccountInv'
PROOF
  <1>1. db.usage \in Nat /\ db'.usage \in Nat /\ req[r].held \in Nat /\ n.held \in Nat
    BY AccountFacts DEF Books
  <1>2. PICK zero \in Nat : zero = 0
    OBVIOUS
  <1>3. /\ db'.usage + zero + req[r].held >= db.usage + zero + n.held
        /\ faults' = 0 => db'.usage + zero + req[r].held = db.usage + zero + n.held
    BY <1>1, <1>2
  <1> QED BY <1>3, BilledStep

(* What a step of one request moves has its type. *)
LEMMA BooksTyped ==
  ASSUME TurnInv, TurnInv', NEW r \in AllRequests, NEW n, req' = [req EXCEPT ![r] = n]
  PROVE  n \in RequestRecords /\ db'.usage \in Nat /\ db' \in Databases
PROOF
  <1>1. Types /\ Types'
    BY DEF TurnInv
  <1>2. req \in [AllRequests -> RequestRecords] /\ req' \in [AllRequests -> RequestRecords]
        /\ db' \in Databases
    BY <1>1 DEF Types
  <1>3. req'[r] = n
    BY <1>2
  <1> QED BY <1>2, <1>3 DEF Databases

(* A step that takes nothing and gives nothing back *)
Plain(r, n) ==
  /\ n.held = req[r].held
  /\ n.pc \in Holding <=> req[r].pc \in Holding
  /\ n.leased => req[r].leased
  /\ req[r].pc \in Leasing => n.pc \in Leasing /\ n.leased = req[r].leased /\ n.key = req[r].key
  /\ n.pc \in Unsettled =>
       \/ req[r].pc \in Unsettled /\ n.key = req[r].key
       \/ n.key \in Keys /\ db.turns[n.key] = None

(* It keeps the books. *)
LEMMA PlainStep ==
  ASSUME TurnInv, TurnInv', AccountInv, NEW r \in AllRequests, NEW n, Plain(r, n),
         req' = [req EXCEPT ![r] = n], UNCHANGED <<billed, faults>>,
         db'.usage = db.usage, db'.leases = db.leases,
         \A k \in Keys : db'.turns[k] = None => db.turns[k] = None
  PROVE  AccountInv'
PROOF
  <1>1. n \in RequestRecords /\ db'.usage \in Nat
    BY BooksTyped
  <1>2. req[r].held = IF req[r].pc \in Holding THEN 1 ELSE 0
    BY AccountFacts
  <1>3. n.held = IF n.pc \in Holding THEN 1 ELSE 0
    BY <1>2 DEF Plain
  <1>4. ASSUME faults' = 0
        PROVE  /\ faults = 0
               /\ n.leased => n.pc \in Leasing
               /\ \A l \in db'.leases :
                    \/ l \in db.leases /\ (l.by = r => n.leased /\ n.key = req[r].key)
                    \/ l.by = r /\ n.leased /\ l.key = n.key
    <2>1. /\ req[r].leased => req[r].pc \in Leasing
          /\ \A l \in db.leases : l.by = r => req[r].leased
      BY <1>4 DEF AccountInv, LeasedInv
    <2> QED BY <1>4, <2>1 DEF Plain
  <1>5. faults' \in Nat
    BY DEF AccountInv
  <1>6. Books(r, n)
    BY <1>1, <1>3, <1>4, <1>5 DEF Books, Plain
  <1>7. n.held = req[r].held /\ db.usage \in Nat /\ req[r].held \in Nat
    BY <1>2, AccountFacts DEF Plain
  <1> QED BY <1>6, <1>7, UnbilledStep

(* Health and rows are written without touching usage or leases. *)
LEMMA KeepsUsage ==
  ASSUME NEW d \in Databases
  PROVE  /\ \A c, e : e \in {resource_circuit_allows(d, c), record_resource_success(d, c),
                            record_resource_retryable_failure(d, c)} =>
              e.usage = d.usage /\ e.leases = d.leases /\ e.turns = d.turns
         /\ \A k, b : /\ reserve_turn(d, k, b).usage = d.usage
                      /\ reserve_turn(d, k, b).leases = d.leases
         /\ \A k, o, e : e \in {complete_turn(d, k, o), fail_turn(d, k, o)} =>
              e.usage = d.usage /\ e.leases = d.leases
PROOF
  <1>1. \A c, h : LET e == [d EXCEPT !.health[c] = h]
                  IN  e.usage = d.usage /\ e.leases = d.leases /\ e.turns = d.turns
    BY DEF Databases
  <1>2. \A t : LET e == [d EXCEPT !.turns = t] IN e.usage = d.usage /\ e.leases = d.leases
    BY DEF Databases
  <1>3. ASSUME NEW c
        PROVE  LET e == resource_circuit_allows(d, c)
               IN  e.usage = d.usage /\ e.leases = d.leases /\ e.turns = d.turns
    BY DEF Databases, resource_circuit_allows
  <1>4. ASSUME NEW c
        PROVE  LET e == record_resource_success(d, c)
               IN  e.usage = d.usage /\ e.leases = d.leases /\ e.turns = d.turns
    BY <1>1 DEF record_resource_success
  <1>5. ASSUME NEW c
        PROVE  LET e == record_resource_retryable_failure(d, c)
               IN  e.usage = d.usage /\ e.leases = d.leases /\ e.turns = d.turns
    BY DEF Databases, record_resource_retryable_failure
  <1>6. ASSUME NEW k, NEW b
        PROVE  LET e == reserve_turn(d, k, b)
               IN  e.usage = d.usage /\ e.leases = d.leases
    BY DEF Databases, reserve_turn
  <1>7. ASSUME NEW k, NEW o
        PROVE  /\ complete_turn(d, k, o).usage = d.usage
               /\ complete_turn(d, k, o).leases = d.leases
               /\ fail_turn(d, k, o).usage = d.usage
               /\ fail_turn(d, k, o).leases = d.leases
    BY DEF Databases, complete_turn, fail_turn
  <1> QED BY <1>3, <1>4, <1>5, <1>6, <1>7

(* A request arrives. *)
LEMMA ArriveBooks ==
  ASSUME TurnInv, TurnInv', AccountInv, NEW r \in AllRequests, Arrive(r)
  PROVE  AccountInv'
PROOF
  <1>1. PICK a \in scenario.asks[r] :
          /\ conf[a.pod] # None
          /\ Set(r, [req[r] EXCEPT !.pc = "reserve", !.pod = a.pod, !.key = a.key, !.body = a.body])
    BY DEF Arrive
  <1> DEFINE n == [req[r] EXCEPT !.pc = "reserve", !.pod = a.pod, !.key = a.key, !.body = a.body]
  <1>2. req[r] \in RequestRecords /\ req[r].pc = "idle"
    BY Typed DEF Arrive
  <1>3. n.pc = "reserve" /\ n.held = req[r].held /\ n.leased = req[r].leased
    BY <1>2 DEF RequestRecords
  <1>4. req' = [req EXCEPT ![r] = n] /\ UNCHANGED <<db, billed, faults>>
    BY <1>1 DEF Arrive, Set
  <1> HIDE DEF n
  <1>5. Plain(r, n)
    BY <1>2, <1>3 DEF Plain, Holding, Leasing, Unsettled
  <1> QED BY <1>4, <1>5, PlainStep

(* A waiter goes on waiting. *)
LEMMA WaiterBooks ==
  ASSUME TurnInv, TurnInv', AccountInv, NEW r \in AllRequests, Lookup(r) \/ Woken(r)
  PROVE  AccountInv'
PROOF
  <1>1. PICK to \in {"subscribed", "poll", "reserve"} :
          req' = [req EXCEPT ![r] = [req[r] EXCEPT !.pc = to]]
    BY DEF Lookup, Woken, Set
  <1> DEFINE n == [req[r] EXCEPT !.pc = to]
  <1>2. req[r] \in RequestRecords /\ req[r].pc \in {"lookup", "subscribed"}
    BY Typed DEF Lookup, Woken
  <1>3. n.pc = to /\ n.held = req[r].held /\ n.leased = req[r].leased
    BY <1>2 DEF RequestRecords
  <1>4. req' = [req EXCEPT ![r] = n] /\ UNCHANGED <<db, billed, faults>>
    BY <1>1 DEF Lookup, Woken
  <1> HIDE DEF n
  <1>5. Plain(r, n)
    BY <1>2, <1>3 DEF Plain, Holding, Leasing, Unsettled
  <1> QED BY <1>4, <1>5, PlainStep

(* A deadline passes. *)
LEMMA LateBooks ==
  ASSUME TurnInv, TurnInv', AccountInv, NEW r \in AllRequests, Late(r)
  PROVE  AccountInv'
PROOF
  <1> DEFINE n == [req[r] EXCEPT !.late = TRUE]
  <1>1. req[r] \in RequestRecords
    BY Typed
  <1>2. n.pc = req[r].pc /\ n.held = req[r].held /\ n.leased = req[r].leased /\ n.key = req[r].key
    BY <1>1 DEF RequestRecords
  <1>3. req' = [req EXCEPT ![r] = n] /\ UNCHANGED <<db, billed, faults>>
    BY DEF Late, Set
  <1> HIDE DEF n
  <1>4. Plain(r, n)
    BY <1>2 DEF Plain
  <1> QED BY <1>3, <1>4, PlainStep

(* The executor registers its turn, and picks its candidates. *)
LEMMA BeginBooks ==
  ASSUME TurnInv, TurnInv', AccountInv, NEW r \in AllRequests, Insert(r) \/ Select(r)
  PROVE  AccountInv'
PROOF
  <1>1. req[r] \in RequestRecords /\ req \in [AllRequests -> RequestRecords]
    BY Typed
  <1>2. UNCHANGED <<db, billed, faults>>
    BY DEF Insert, Select
  <1>3. CASE Insert(r)
    <2> DEFINE n == [req[r] EXCEPT !.pc = "select"]
    <2>1. /\ n.pc = "select" /\ n.held = req[r].held /\ n.leased = req[r].leased
          /\ n.key = req[r].key /\ req[r].pc = "insert" /\ req' = [req EXCEPT ![r] = n]
      BY <1>1, <1>3 DEF Insert, Set, RequestRecords
    <2> HIDE DEF n
    <2>2. Plain(r, n)
      BY <2>1 DEF Plain, Holding, Leasing, Unsettled
    <2> QED BY <1>2, <2>1, <2>2, PlainStep
  <1>4. CASE Select(r)
    <2>1. PICK c \in scenario.lists :
            req' = [req EXCEPT ![r] =
                     IF c = <<>>
                     THEN [Stop(r, "model_resource_not_allowed") EXCEPT
                             !.snapshot = conf[req[r].pod]]
                     ELSE [req[r] EXCEPT !.pc = "check", !.todo = c,
                                         !.snapshot = conf[req[r].pod]]]
      BY <1>4 DEF Select, Set
    <2>2. PICK e : e = Error("model_resource_not_allowed")
      OBVIOUS
    <2> DEFINE p == [req[r] EXCEPT !.pc = "persist", !.out = e, !.snapshot = conf[req[r].pod]]
               n == [req[r] EXCEPT !.pc = "check", !.todo = c, !.snapshot = conf[req[r].pod]]
    <2>3. [Stop(r, "model_resource_not_allowed") EXCEPT !.snapshot = conf[req[r].pod]] = p
      BY <1>1, <2>2 DEF Stop, RequestRecords
    <2>4. /\ p.pc = "persist" /\ p.held = req[r].held /\ p.leased = req[r].leased
          /\ n.pc = "check" /\ n.held = req[r].held /\ n.leased = req[r].leased
          /\ n.key = req[r].key
      BY <1>1 DEF RequestRecords
    <2>5. req' = [req EXCEPT ![r] = p] \/ req' = [req EXCEPT ![r] = n]
      BY <2>1, <2>3
    <2>6. req[r].pc = "select"
      BY <1>4 DEF Select
    <2> HIDE DEF p, n
    <2>7. Plain(r, p) /\ Plain(r, n)
      BY <2>4, <2>6 DEF Plain, Holding, Leasing, Unsettled
    <2> QED BY <1>2, <2>5, <2>7, PlainStep
  <1> QED BY <1>3, <1>4

(* A call that has failed keeps what it holds. *)
LEMMA FailedKeeps ==
  ASSUME NEW r \in AllRequests, req[r] \in RequestRecords, NEW code
  PROVE  \A n \in {Failed(r, code), CallFailed(r, code)} :
           /\ n.pc \in {"call", "failure", "untoken"}
           /\ n.held = req[r].held /\ n.leased = req[r].leased /\ n.key = req[r].key
PROOF
  <1>1. PICK e : e = Error(code)
    OBVIOUS
  <1>2. Failed(r, code) \in {[req[r] EXCEPT !.pc = "call", !.at = @ + 1, !.out = e],
                             [req[r] EXCEPT !.pc = "untoken", !.out = e]}
    BY <1>1 DEF Failed
  <1>3. CallFailed(r, code) \in {[req[r] EXCEPT !.pc = "failure", !.out = e], Failed(r, code)}
    BY <1>1 DEF CallFailed
  <1>4. \A n \in {[req[r] EXCEPT !.pc = "call", !.at = @ + 1, !.out = e],
                  [req[r] EXCEPT !.pc = "untoken", !.out = e],
                  [req[r] EXCEPT !.pc = "failure", !.out = e]} :
          /\ n.pc \in {"call", "failure", "untoken"}
          /\ n.held = req[r].held /\ n.leased = req[r].leased /\ n.key = req[r].key
    BY DEF RequestRecords
  <1> QED BY <1>2, <1>3, <1>4

(* The executor of a call goes on with it, or to the next step. *)
Continues(r, n) ==
  /\ req[r].pc \in {"call", "calling", "failure", "success"}
  /\ n.pc \in {"call", "calling", "failure", "success", "settle", "untoken"}
  /\ n.held = req[r].held /\ n.leased = req[r].leased /\ n.key = req[r].key
  /\ req' = [req EXCEPT ![r] = n] /\ UNCHANGED <<billed, faults>>
  /\ db'.usage = db.usage /\ db'.leases = db.leases /\ db'.turns = db.turns

(* It takes nothing and gives nothing back. *)
LEMMA ContinuesBooks ==
  ASSUME TurnInv, TurnInv', AccountInv, NEW r \in AllRequests, NEW n, Continues(r, n)
  PROVE  AccountInv'
PROOF
  <1>1. Plain(r, n)
    BY DEF Continues, Plain, Holding, Leasing, Unsettled
  <1> QED BY <1>1, PlainStep DEF Continues

(* Upstream calls hold tokens and lease throughout. *)
LEMMA CallBooks ==
  ASSUME TurnInv, TurnInv', AccountInv, NEW r \in AllRequests, Call(r)
  PROVE  AccountInv'
PROOF
  <1>1. req[r] \in RequestRecords /\ req[r].pc = "call" /\ UNCHANGED <<db, billed, faults>>
    BY Typed DEF Call
  <1>2. PICK n : /\ req' = [req EXCEPT ![r] = n]
                 /\ \/ n = CallFailed(r, "gateway_overloaded")
                    \/ n = [req[r] EXCEPT !.pc = "calling", !.tries = 1]
                    \/ n = CallFailed(r, "provider_timeout")
    BY DEF Call, Set
  <1>3. /\ n.pc \in {"call", "calling", "failure", "untoken"}
        /\ n.held = req[r].held /\ n.leased = req[r].leased /\ n.key = req[r].key
    <2>1. CASE n = [req[r] EXCEPT !.pc = "calling", !.tries = 1]
      BY <1>1, <2>1 DEF RequestRecords
    <2>2. CASE n = CallFailed(r, "gateway_overloaded")
      BY <1>1, <2>2, FailedKeeps
    <2>3. CASE n = CallFailed(r, "provider_timeout")
      BY <1>1, <2>3, FailedKeeps
    <2> QED BY <1>2, <2>1, <2>2, <2>3
  <1>4. Continues(r, n)
    BY <1>1, <1>2, <1>3 DEF Continues
  <1> QED BY <1>4, ContinuesBooks

(* So do their outcomes. *)
LEMMA UpstreamBooks ==
  ASSUME TurnInv, TurnInv', AccountInv, NEW r \in AllRequests, Upstream(r)
  PROVE  AccountInv'
PROOF
  <1>1. req[r] \in RequestRecords /\ req[r].pc = "calling" /\ UNCHANGED <<db, billed, faults>>
    BY Typed DEF Upstream
  <1>2. PICK n, code, o :
          /\ req' = [req EXCEPT ![r] = n]
          /\ \/ n = [req[r] EXCEPT !.pc = "success", !.out = o]
             \/ n = [req[r] EXCEPT !.tries = @ + 1]
             \/ n = CallFailed(r, code)
    BY DEF Upstream, Set
  <1>3. /\ n.pc \in {"call", "calling", "success", "failure", "untoken"}
        /\ n.held = req[r].held /\ n.leased = req[r].leased /\ n.key = req[r].key
    <2>1. CASE n = [req[r] EXCEPT !.pc = "success", !.out = o]
      BY <1>1, <2>1 DEF RequestRecords
    <2>2. CASE n = [req[r] EXCEPT !.tries = @ + 1]
      BY <1>1, <2>2 DEF RequestRecords
    <2>3. CASE n = CallFailed(r, code)
      BY <1>1, <2>3, FailedKeeps
    <2> QED BY <1>2, <2>1, <2>2, <2>3
  <1>4. Continues(r, n)
    BY <1>1, <1>2, <1>3 DEF Continues
  <1> QED BY <1>4, ContinuesBooks

(* Health records move no tokens. *)
LEMMA RecordBooks ==
  ASSUME TurnInv, TurnInv', AccountInv, NEW r \in AllRequests,
         RecordFailure(r) \/ RecordSuccess(r)
  PROVE  AccountInv'
PROOF
  <1>1. req[r] \in RequestRecords /\ db \in Databases /\ UNCHANGED <<billed, faults>>
        /\ req[r].pc \in {"failure", "success"}
    BY Typed DEF RecordFailure, RecordSuccess
  <1>2. PICK n : /\ req' = [req EXCEPT ![r] = n]
                 /\ \/ n = Failed(r, req[r].out.code)
                    \/ n = [req[r] EXCEPT !.pc = "settle"]
    BY DEF RecordFailure, RecordSuccess, Set
  <1>3. /\ n.pc \in {"call", "failure", "settle", "untoken"}
        /\ n.held = req[r].held /\ n.leased = req[r].leased /\ n.key = req[r].key
    <2>1. CASE n = Failed(r, req[r].out.code)
      BY <1>1, <2>1, FailedKeeps
    <2>2. CASE n = [req[r] EXCEPT !.pc = "settle"]
      BY <1>1, <2>2 DEF RequestRecords
    <2> QED BY <1>2, <2>1, <2>2
  <1>4. db'.usage = db.usage /\ db'.leases = db.leases /\ db'.turns = db.turns
    BY <1>1, KeepsUsage DEF RecordFailure, RecordSuccess
  <1>5. Continues(r, n)
    BY <1>1, <1>2, <1>3, <1>4 DEF Continues
  <1> QED BY <1>5, ContinuesBooks

(* Nor does asking a circuit. *)
LEMMA CheckBooks ==
  ASSUME TurnInv, TurnInv', AccountInv, NEW r \in AllRequests, Check(r)
  PROVE  AccountInv'
PROOF
  <1>1. req[r] \in RequestRecords /\ db \in Databases /\ UNCHANGED <<billed, faults>>
        /\ req[r].pc = "check"
    BY Typed DEF Check
  <1>2. PICK n, a, t, e :
          /\ req' = [req EXCEPT ![r] = n]
          /\ \/ n = [req[r] EXCEPT !.todo = t, !.able = a]
             \/ n = [req[r] EXCEPT !.pc = "persist", !.out = e]
             \/ n = [req[r] EXCEPT !.pc = "tokens"]
    <2>1. CASE req[r].todo # <<>>
      <3>1. PICK m, a, t :
              /\ m = Head(req[r].todo) /\ t = Tail(req[r].todo)
              /\ a = IF Allows(db, Circuit(r, m)) THEN Append(req[r].able, m) ELSE req[r].able
        OBVIOUS
      <3>2. req' = [req EXCEPT ![r] = [req[r] EXCEPT !.todo = t, !.able = a]]
        BY <2>1, <3>1 DEF Check, Set
      <3> QED BY <3>2
    <2>2. CASE req[r].todo = <<>>
      <3>1. PICK e : e = Error("provider_unavailable")
        OBVIOUS
      <3>2. \/ req' = [req EXCEPT ![r] = [req[r] EXCEPT !.pc = "persist", !.out = e]]
            \/ req' = [req EXCEPT ![r] = [req[r] EXCEPT !.pc = "tokens"]]
        BY <2>2, <3>1 DEF Check, Set, Stop
      <3> QED BY <3>2
    <2> QED BY <2>1, <2>2
  <1>3. /\ n.pc \in {"check", "persist", "tokens"}
        /\ n.held = req[r].held /\ n.leased = req[r].leased /\ n.key = req[r].key
    BY <1>1, <1>2 DEF RequestRecords
  <1>4. db'.usage = db.usage /\ db'.leases = db.leases /\ db'.turns = db.turns
    BY <1>1, KeepsUsage DEF Check
  <1>5. Plain(r, n)
    BY <1>1, <1>3 DEF Plain, Holding, Leasing, Unsettled
  <1> QED BY <1>1, <1>2, <1>4, <1>5, PlainStep

-----------------------------------------------------------------------------
(* No row disappears. *)
RowsKept == \A k \in Keys : db'.turns[k] = None => db.turns[k] = None

(* A row that is written holds something. *)
LEMMA RowWritten ==
  ASSUME TurnInv, NEW k \in Keys, NEW w \in TurnRows, db' = [db EXCEPT !.turns[k] = w]
  PROVE  RowsKept /\ db'.usage = db.usage /\ db'.leases = db.leases
PROOF
  <1>1. db \in Databases /\ db.turns \in [Keys -> TurnRows \cup {None}] /\ w # None
    BY DbFields, NoneAssumption DEF TurnInv, Types
  <1>2. /\ db'.usage = db.usage /\ db'.leases = db.leases
        /\ db'.turns[k] = w /\ \A j \in Keys \ {k} : db'.turns[j] = db.turns[j]
    BY <1>1 DEF Databases
  <1> QED BY <1>1, <1>2 DEF RowsKept

(* A request that holds nothing ends. *)
LEMMA EndBooks ==
  ASSUME TurnInv, TurnInv', AccountInv, NEW r \in AllRequests,
         req[r].pc \notin Holding \cup Leasing, NEW pc \in {"done", "gone"},
         req' = [req EXCEPT ![r] = Ended(r, pc)], UNCHANGED <<billed, faults>>,
         RowsKept, db'.usage = db.usage, db'.leases = db.leases
  PROVE  AccountInv'
PROOF
  <1>1. Ended(r, pc).pc = pc /\ Ended(r, pc).held = 0 /\ Ended(r, pc).leased = FALSE
    BY DEF Ended, NewRequest
  <1>2. req[r].held = 0
    BY AccountFacts
  <1>3. Plain(r, Ended(r, pc))
    BY <1>1, <1>2 DEF Plain, Holding, Leasing, Unsettled
  <1> QED BY <1>3, PlainStep DEF RowsKept

(* A replayed answer *)
LEMMA ReplayBooks ==
  ASSUME TurnInv, TurnInv', AccountInv, NEW r \in AllRequests,
         req[r].pc \in {"reserve", "poll"}, db.turns[req[r].key] # None,
         Replay(r), UNCHANGED <<billed, faults>>
  PROVE  AccountInv'
PROOF
  <1>1. PICK k \in Keys : k = req[r].key
    BY Typed DEF Live
  <1>2. req' = [req EXCEPT ![r] = Ended(r, "done")]
    BY DEF Replay, Answer, Set
  <1>3. RowsKept /\ db'.usage = db.usage /\ db'.leases = db.leases
    <2>1. CASE UNCHANGED db
      BY <2>1 DEF RowsKept
    <2>2. CASE db' = [db EXCEPT !.turns[k].state = "expired", !.turns[k].out = None]
      <3>1. PICK x \in TurnRows : x = db.turns[k]
        BY <1>1, RowFacts
      <3> DEFINE w == [x EXCEPT !.state = "expired", !.out = None]
      <3>2. w \in TurnRows
        BY DEF TurnRows, TurnStates, Outcomes
      <3>3. db' = [db EXCEPT !.turns[k] = w]
        <4>1. db \in Databases /\ db.turns \in [Keys -> TurnRows \cup {None}]
          BY Typed, DbFields
        <4> QED BY <2>2, <3>1, <4>1 DEF Databases, TurnRows
      <3> HIDE DEF w
      <3> QED BY <3>2, <3>3, RowWritten
    <2> QED BY <1>1, <2>1, <2>2 DEF Replay
  <1>4. req[r].pc \notin Holding \cup Leasing
    BY DEF Holding, Leasing
  <1> QED BY <1>2, <1>3, <1>4, EndBooks

(* The durable reservation: who gets it has not been billed. *)
LEMMA ReserveBooks ==
  ASSUME TurnInv, TurnInv', AccountInv, NEW r \in AllRequests, Reserve(r)
  PROVE  AccountInv'
PROOF
  <1>1. /\ req[r].pc = "reserve" /\ UNCHANGED <<billed, faults>>
        /\ req[r] \in RequestRecords /\ db \in Databases
    BY Typed DEF Reserve
  <1>2. PICK k \in Keys : k = req[r].key
    BY <1>1, Typed DEF Live
  <1>3. ASSUME NEW to \in {"insert", "lookup"}, req' = [req EXCEPT ![r] = [req[r] EXCEPT !.pc = to]],
               to = "insert" => db.turns[k] = None,
               RowsKept, db'.usage = db.usage, db'.leases = db.leases
        PROVE  AccountInv'
    <2> DEFINE n == [req[r] EXCEPT !.pc = to]
    <2>1. /\ n.pc = to /\ n.held = req[r].held /\ n.leased = req[r].leased
          /\ n.key = req[r].key /\ req' = [req EXCEPT ![r] = n]
      BY <1>1, <1>3 DEF RequestRecords
    <2> HIDE DEF n
    <2>2. Plain(r, n)
      BY <1>1, <1>2, <1>3, <2>1 DEF Plain, Holding, Leasing, Unsettled
    <2> QED BY <1>1, <1>3, <2>1, <2>2, PlainStep DEF RowsKept
  <1>4. CASE /\ Reservable(r) /\ db' = reserve_turn(db, req[r].key, req[r].body)
             /\ Set(r, [req[r] EXCEPT !.pc = "insert"])
    <2>1. db.turns[k] = None
      BY <1>2, <1>4 DEF Reservable
    <2>2. db'.usage = db.usage /\ db'.leases = db.leases
      BY <1>1, <1>4, KeepsUsage
    <2>3. RowsKept
      <3>1. db.turns \in [Keys -> TurnRows \cup {None}]
        BY <1>1, DbFields
      <3>2. db' = [db EXCEPT !.turns[k] =
                     [body |-> req[r].body, state |-> "in_progress", out |-> None]]
        BY <1>2, <1>4, <2>1 DEF reserve_turn
      <3>3. \A j \in Keys \ {k} : db'.turns[j] = db.turns[j]
        BY <1>1, <3>1, <3>2 DEF Databases
      <3> QED BY <2>1, <3>3 DEF RowsKept
    <2>4. req' = [req EXCEPT ![r] = [req[r] EXCEPT !.pc = "insert"]]
      BY <1>4 DEF Set
    <2> QED BY <1>3, <2>1, <2>2, <2>3, <2>4
  <1>5. CASE ~Reservable(r) /\ Replay(r)
    BY <1>1, <1>5, ReplayBooks DEF Reservable
  <1>6. CASE Set(r, [req[r] EXCEPT !.pc = "lookup"]) /\ UNCHANGED db
    BY <1>3, <1>6 DEF Set, RowsKept
  <1> QED BY <1>4, <1>5, <1>6 DEF Reserve

(* Polling, and giving up *)
LEMMA PollBooks ==
  ASSUME TurnInv, TurnInv', AccountInv, NEW r \in AllRequests, Poll(r)
  PROVE  AccountInv'
PROOF
  <1>1. req[r].pc = "poll" /\ UNCHANGED <<billed, faults>>
    BY DEF Poll
  <1>2. CASE Answer(r, Error("provider_unavailable")) /\ UNCHANGED db
    <2>1. req' = [req EXCEPT ![r] = Ended(r, "done")]
      BY <1>2 DEF Answer, Set
    <2>2. RowsKept /\ req[r].pc \notin Holding \cup Leasing
      BY <1>1, <1>2 DEF RowsKept, Holding, Leasing
    <2> QED BY <1>1, <1>2, <2>1, <2>2, EndBooks
  <1>3. CASE Replay(r)
    BY <1>1, <1>3, ReplayBooks DEF TurnInv, ReqInv
  <1> QED BY <1>2, <1>3 DEF Poll

(* The outcome is stored, and told. *)
LEMMA FinalBooks ==
  ASSUME TurnInv, TurnInv', AccountInv, NEW r \in AllRequests, Persist(r) \/ Publish(r)
  PROVE  AccountInv'
PROOF
  <1>1. CASE Persist(r)
    <2>1. /\ req[r].pc = "persist" /\ UNCHANGED <<billed, faults>> /\ req[r] \in RequestRecords
          /\ db' = Outcome(db, r)
      BY <1>1, Typed DEF Persist
    <2>2. PICK k \in Keys : k = req[r].key
      BY <2>1, Typed DEF Live
    <2>3. PICK w \in TurnRows : Outcome(db, r) = [db EXCEPT !.turns[k] = w]
      BY <2>1, <2>2, OutcomeRow
    <2>4. RowsKept /\ db'.usage = db.usage /\ db'.leases = db.leases
      BY <2>1, <2>3, RowWritten
    <2> DEFINE n == [req[r] EXCEPT !.pc = "publish"]
    <2>5. /\ n.pc = "publish" /\ n.held = req[r].held /\ n.leased = req[r].leased
          /\ req' = [req EXCEPT ![r] = n]
      BY <1>1, <2>1 DEF Persist, Set, RequestRecords
    <2> HIDE DEF n
    <2>6. Plain(r, n)
      BY <2>1, <2>5 DEF Plain, Holding, Leasing, Unsettled
    <2> QED BY <2>1, <2>4, <2>5, <2>6, PlainStep DEF RowsKept
  <1>2. CASE Publish(r)
    <2>1. req[r].pc = "publish" /\ req' = [req EXCEPT ![r] = Ended(r, "done")]
          /\ UNCHANGED <<db, billed, faults>>
      BY <1>2 DEF Publish, Answer, Set
    <2>2. RowsKept /\ req[r].pc \notin Holding \cup Leasing
      BY <2>1 DEF RowsKept, Holding, Leasing
    <2> QED BY <2>1, <2>2, EndBooks
  <1> QED BY <1>1, <1>2

-----------------------------------------------------------------------------
(* What a request holds has been counted. *)
LEMMA HeldIsUsed ==
  ASSUME TurnInv, AccountInv, NEW r \in AllRequests, req[r].pc \in Holding
  PROVE  req[r].held = 1 /\ db.usage \in Nat /\ db.usage >= 1
PROOF
  <1>1. Held[r] = 1 /\ req[r].held = 1 /\ db.usage \in Nat
    BY AccountFacts
  <1>2. <<r, 1>> \in Tokens(Held, AllRequests)
    BY <1>1 DEF Tokens
  <1>3. /\ Cardinality(Tokens(Held, AllRequests)) \in Nat
        /\ Cardinality(Tokens(Held, AllRequests)) # 0
    BY <1>2, FS_EmptySet, FS_CardinalityType DEF AccountInv, UsageInv
  <1>4. Cardinality(Tokens(billed, Keys)) \in Nat
    BY FS_CardinalityType DEF AccountInv, UsageInv
  <1>5. db.usage >= Cardinality(Tokens(billed, Keys)) + Cardinality(Tokens(Held, AllRequests))
    BY DEF AccountInv, UsageInv, Due
  <1> QED BY <1>1, <1>3, <1>4, <1>5

(* The tokens are reserved, or refused. *)
LEMMA ReserveTokensBooks ==
  ASSUME TurnInv, TurnInv', AccountInv, NEW r \in AllRequests, ReserveTokens(r)
  PROVE  AccountInv'
PROOF
  <1>1. /\ req[r].pc = "tokens" /\ UNCHANGED <<billed, faults>>
        /\ req[r] \in RequestRecords /\ db \in Databases /\ db.usage \in Nat
    BY Typed, AccountFacts DEF ReserveTokens
  <1>2. req[r].held = 0 /\ (faults = 0 => ~req[r].leased)
    BY <1>1, AccountFacts DEF AccountInv, LeasedInv, Leasing, Holding
  <1>3. CASE /\ db' = reserve_project_daily_input_tokens(db)
             /\ Set(r, [req[r] EXCEPT !.pc = "lease", !.held = 1])
    <2> DEFINE n == [req[r] EXCEPT !.pc = "lease", !.held = 1]
    <2>1. /\ n.pc = "lease" /\ n.held = 1 /\ n.leased = req[r].leased /\ n.key = req[r].key
          /\ req' = [req EXCEPT ![r] = n]
      BY <1>1, <1>3 DEF Set, RequestRecords
    <2> HIDE DEF n
    <2>2. n \in RequestRecords /\ db'.usage \in Nat
      BY <2>1, BooksTyped
    <2>3. db'.usage = db.usage + 1 /\ db'.leases = db.leases /\ db'.turns = db.turns
      BY <1>1, <1>3 DEF reserve_project_daily_input_tokens, Databases
    <2>4. n.pc \in Holding /\ n.pc \in Unsettled /\ req[r].pc \in Unsettled
      BY <1>1, <2>1 DEF Holding, Unsettled
    <2>5. faults \in Nat /\ \A l \in db.leases : faults = 0 => l.by # r
      BY <1>2 DEF AccountInv, LeasedInv
    <2>6. Books(r, n)
      BY <1>1, <1>2, <2>1, <2>2, <2>3, <2>4, <2>5 DEF Books
    <2>7. db'.usage + req[r].held = db.usage + n.held
      BY <1>1, <1>2, <2>1, <2>3
    <2>8. db'.usage + req[r].held >= db.usage + n.held
      BY <1>1, <1>2, <2>1, <2>3
    <2> QED BY <1>1, <2>6, <2>7, <2>8, UnbilledStep
  <1>4. CASE Set(r, Stop(r, "gateway_quota_exceeded")) /\ UNCHANGED db
    <2>1. PICK e : e = Error("gateway_quota_exceeded")
      OBVIOUS
    <2> DEFINE n == [req[r] EXCEPT !.pc = "persist", !.out = e]
    <2>2. /\ n.pc = "persist" /\ n.held = req[r].held /\ n.leased = req[r].leased
          /\ req' = [req EXCEPT ![r] = n]
      BY <1>1, <1>4, <2>1 DEF Set, Stop, RequestRecords
    <2> HIDE DEF n
    <2>3. Plain(r, n)
      BY <1>1, <2>2 DEF Plain, Holding, Leasing, Unsettled
    <2> QED BY <1>1, <1>4, <2>2, <2>3, PlainStep
  <1> QED BY <1>3, <1>4 DEF ReserveTokens

(* The lease is taken, or refused. *)
LEMMA AcquireLeaseBooks ==
  ASSUME TurnInv, TurnInv', AccountInv, NEW r \in AllRequests, AcquireLease(r)
  PROVE  AccountInv'
PROOF
  <1>1. /\ req[r].pc = "lease" /\ UNCHANGED <<billed, faults>>
        /\ req[r] \in RequestRecords /\ db \in Databases /\ db.usage \in Nat
    BY Typed, AccountFacts DEF AcquireLease
  <1>2. req[r].held = 1 /\ (faults = 0 => ~req[r].leased)
    BY <1>1, AccountFacts DEF AccountInv, LeasedInv, Leasing, Holding
  <1>3. PICK l0 : l0 = Lease(r)
    OBVIOUS
  <1>4. /\ db'.usage = db.usage /\ db'.turns = db.turns
        /\ db'.leases = Unexpired(db, l0.scope) \cup (IF HasRoom(db, l0.scope) THEN {l0} ELSE {})
    BY <1>1, <1>3 DEF AcquireLease, acquire_project_concurrency_lease, Databases
  <1>5. Unexpired(db, l0.scope) \subseteq db.leases
    BY DEF Unexpired
  <1>6. faults \in Nat /\ \A l \in db.leases : faults = 0 => l.by # r
    BY <1>2 DEF AccountInv, LeasedInv
  <1>7. PICK n, e :
          /\ req' = [req EXCEPT ![r] = n]
          /\ \/ HasRoom(db, l0.scope) /\ n = [req[r] EXCEPT !.pc = "call", !.at = 1, !.leased = TRUE]
             \/ ~HasRoom(db, l0.scope) /\ n = [req[r] EXCEPT !.pc = "untoken", !.out = e]
    BY <1>3 DEF AcquireLease, Set, Overloaded
  <1>8. /\ n.pc \in {"call", "untoken"} /\ n.held = 1 /\ n.key = req[r].key
        /\ HasRoom(db, l0.scope) => n.pc = "call" /\ n.leased
    BY <1>1, <1>2, <1>7 DEF RequestRecords
  <1>9. n \in RequestRecords /\ db'.usage \in Nat
    BY <1>7, BooksTyped
  <1>10. l0.by = r /\ l0.key = req[r].key
    BY <1>3 DEF Lease
  <1>11. ASSUME faults = 0, NEW l \in db'.leases
         PROVE  \/ l \in db.leases /\ (l.by = r => n.leased /\ n.key = req[r].key)
                \/ l.by = r /\ n.leased /\ l.key = n.key
    <2>1. CASE l \in db.leases
      BY <1>6, <1>11, <2>1
    <2>2. CASE l = l0 /\ HasRoom(db, l0.scope)
      BY <1>8, <1>10, <2>2
    <2> QED BY <1>4, <1>5, <1>11, <2>1, <2>2
  <1>12. n.pc \in Holding /\ n.pc \in Leasing /\ req[r].pc \in Unsettled
    BY <1>1, <1>8 DEF Holding, Leasing, Unsettled
  <1>13. Books(r, n)
    BY <1>1, <1>4, <1>6, <1>7, <1>8, <1>9, <1>11, <1>12 DEF Books
  <1>14. db'.usage + req[r].held >= db.usage + n.held /\ db'.usage + req[r].held = db.usage + n.held
    BY <1>1, <1>2, <1>4, <1>8
  <1> QED BY <1>1, <1>13, <1>14, UnbilledStep

(* The lease is given back. *)
LEMMA ReleaseLeaseBooks ==
  ASSUME TurnInv, TurnInv', AccountInv, NEW r \in AllRequests, ReleaseLease(r)
  PROVE  AccountInv'
PROOF
  <1>1. /\ req[r].pc = "unlease" /\ UNCHANGED <<billed, faults>>
        /\ req[r] \in RequestRecords /\ db \in Databases /\ db.usage \in Nat
    BY Typed, AccountFacts DEF ReleaseLease
  <1>2. req[r].held = 0
    BY <1>1, AccountFacts DEF Holding
  <1> DEFINE n == [req[r] EXCEPT !.pc = "persist", !.leased = FALSE]
  <1>3. /\ n.pc = "persist" /\ n.held = 0 /\ n.leased = FALSE /\ req' = [req EXCEPT ![r] = n]
    BY <1>1, <1>2 DEF ReleaseLease, Set, RequestRecords
  <1> HIDE DEF n
  <1>4. n \in RequestRecords /\ db'.usage \in Nat
    BY <1>3, BooksTyped
  <1>5. /\ db'.usage = db.usage /\ db'.turns = db.turns
        /\ db'.leases = {l \in db.leases : l.key # req[r].key}
    BY <1>1 DEF ReleaseLease, release_project_concurrency_lease, Databases
  <1>6. faults \in Nat /\ \A l \in db'.leases : l \in db.leases /\ (faults = 0 => l.by # r)
    BY <1>5 DEF AccountInv, LeasedInv
  <1>7. Books(r, n)
    BY <1>1, <1>3, <1>4, <1>5, <1>6 DEF Books, Holding, Unsettled
  <1>8. db'.usage + req[r].held >= db.usage + n.held /\ db'.usage + req[r].held = db.usage + n.held
    BY <1>1, <1>2, <1>3, <1>5
  <1> QED BY <1>1, <1>7, <1>8, UnbilledStep

(* What is settled is a number of tokens. *)
LEMMA TokensTyped ==
  ASSUME TurnInv, NEW r \in AllRequests, req[r].pc = "settle"
  PROVE  req[r].out.tokens \in Nat
PROOF
  <1>1. req[r].out \in Results
    BY Typed DEF ReqInv, RequestRecords, Outcomes
  <1>2. req[r].out.tokens \in Actual \cup {0}
    BY <1>1 DEF Results
  <1>3. \A t \in Actual \cup {0} : t \in Nat
    BY GatewayAssumption
  <1> QED BY <1>2, <1>3, Zenon

(* The estimate is replaced by what was used, or given back. *)
LEMMA SettleBooks ==
  ASSUME TurnInv, TurnInv', AccountInv, NEW r \in AllRequests, Settle(r) \/ ReleaseTokens(r)
  PROVE  AccountInv'
PROOF
  <1>1. /\ req[r].pc \in {"settle", "untoken"} /\ UNCHANGED faults
        /\ req[r] \in RequestRecords /\ db \in Databases
        /\ Set(r, Settled(r))
    BY Typed DEF Settle, ReleaseTokens
  <1>2. req[r].held = 1 /\ db.usage \in Nat /\ db.usage >= 1
        /\ req[r].key \in Keys /\ billed[req[r].key] = 0
    BY <1>1, HeldIsUsed, AccountFacts DEF Holding, Unsettled
  <1> DEFINE n == Settled(r)
  <1>3. /\ n.pc = (IF req[r].leased THEN "unlease" ELSE "persist") /\ n.held = 0
        /\ n.leased = req[r].leased /\ n.key = req[r].key /\ req' = [req EXCEPT ![r] = n]
    BY <1>1 DEF Settled, Set, RequestRecords
  <1> HIDE DEF n
  <1>4. n \in RequestRecords /\ db'.usage \in Nat
    BY <1>3, BooksTyped
  <1>5. req[r].pc = "settle" => req[r].out.tokens \in Nat
    BY TokensTyped
  <1>6. PICK actual \in Nat :
          /\ db' = settle_project_daily_usage(db, req[r].held, actual)
          /\ \/ actual = 0 /\ billed' = billed
             \/ billed' = [billed EXCEPT ![req[r].key] = actual]
    <2>1. CASE Settle(r)
      BY <1>5, <2>1 DEF Settle
    <2>2. CASE ReleaseTokens(r)
      BY <2>2 DEF ReleaseTokens
    <2> QED BY <2>1, <2>2
  <1>7. db'.usage = db.usage + actual - 1 /\ db'.turns = db.turns /\ db'.leases = db.leases
    <2>1. db.usage + actual >= 1
      BY <1>2
    <2>2. db' = [db EXCEPT !.usage = db.usage + actual - 1]
      BY <1>1, <1>2, <1>6, <2>1 DEF settle_project_daily_usage, Databases
    <2> QED BY <1>1, <2>2 DEF Databases
  <1>8. /\ faults \in Nat
        /\ \A l \in db.leases : faults = 0 => (l.by = r => req[r].leased)
    BY DEF AccountInv, LeasedInv
  <1>9. n.pc \notin Holding /\ n.pc \notin Unsettled /\ (n.leased => n.pc \in Leasing)
        /\ req[r].pc \in Unsettled
    BY <1>1, <1>3 DEF Holding, Unsettled, Leasing
  <1>10. Books(r, n)
    BY <1>1, <1>3, <1>4, <1>7, <1>8, <1>9 DEF Books
  <1>11. PICK old \in Nat, new \in Nat : old = 0 /\ new = actual
    OBVIOUS
  <1>12. /\ db'.usage + old + req[r].held >= db.usage + new + n.held
         /\ db'.usage + old + req[r].held = db.usage + new + n.held
    BY <1>2, <1>3, <1>4, <1>7, <1>11
  <1>13. \/ billed' = billed /\ new = old
         \/ /\ req[r].pc \in Unsettled /\ n.pc \notin Unsettled /\ old = billed[req[r].key]
            /\ billed' = [billed EXCEPT ![req[r].key] = new]
    BY <1>2, <1>6, <1>9, <1>11
  <1> QED BY <1>10, <1>12, <1>13, BilledStep

-----------------------------------------------------------------------------
(* After a fault the usage may exceed what is due, and never falls short.   *)
LEMMA FaultStep ==
  ASSUME TurnInv, TurnInv', AccountInv, NEW r \in AllRequests, NEW n,
         req' = [req EXCEPT ![r] = n], faults' = faults + 1,
         n.held = IF n.pc \in Holding THEN 1 ELSE 0,
         RowsKept,
         n.pc \in Unsettled => req[r].pc \in Unsettled /\ n.key = req[r].key,
         NEW old \in Nat, NEW new \in Nat,
         \/ billed' = billed /\ new = old
         \/ /\ req[r].pc \in Unsettled /\ n.pc \notin Unsettled /\ old = billed[req[r].key]
            /\ billed' = [billed EXCEPT ![req[r].key] = new],
         db'.usage + old + req[r].held >= db.usage + new + n.held
  PROVE  AccountInv'
PROOF
  <1>1. n \in RequestRecords /\ db'.usage \in Nat
    BY BooksTyped
  <1>2. faults' \in Nat /\ faults' # 0
    BY DEF AccountInv
  <1>3. Books(r, n)
    BY <1>1, <1>2 DEF Books, RowsKept
  <1> QED BY <1>2, <1>3, BilledStep

(* The handler is dropped where it stands: what it held stays counted. *)
LEMMA DisconnectBooks ==
  ASSUME TurnInv, TurnInv', AccountInv, NEW r \in AllRequests, Disconnect(r)
  PROVE  AccountInv'
PROOF
  <1>1. /\ req' = [req EXCEPT ![r] = Ended(r, "gone")] /\ faults' = faults + 1
        /\ UNCHANGED <<db, billed>>
    BY DEF Disconnect, Set, Fault
  <1>2. Ended(r, "gone").pc = "gone" /\ Ended(r, "gone").held = 0
    BY DEF Ended, NewRequest
  <1>3. PICK n : n = Ended(r, "gone")
    OBVIOUS
  <1>4. n.pc \notin Holding /\ n.pc \notin Unsettled /\ n.held = 0
    BY <1>2, <1>3 DEF Holding, Unsettled
  <1>5. RowsKept
    BY <1>1 DEF RowsKept
  <1>6. PICK none \in Nat : none = 0
    OBVIOUS
  <1>7. db'.usage + none + req[r].held >= db.usage + none + n.held
    BY <1>1, <1>4, <1>6, AccountFacts
  <1> QED BY <1>1, <1>3, <1>4, <1>5, <1>7, FaultStep

(* A storage call that fails may have taken tokens, given them back or      *)
(* billed them all the same.                                                *)
LEMMA EffectUsage ==
  ASSUME TurnInv, AccountInv, NEW r \in AllRequests, Live(r)
  PROVE  /\ Effect(r).usage + req[r].held >= db.usage
         /\ req[r].pc \in {"success", "failure"} => Effect(r).usage = db.usage
         /\ req[r].pc = "settle" =>
              Effect(r).usage + req[r].held = db.usage + req[r].out.tokens
PROOF
  <1>1. /\ db \in Databases /\ db.usage \in Nat /\ req[r].held \in Nat
        /\ req[r].pc \in Holding => req[r].held = 1 /\ db.usage >= 1
    BY AccountFacts, HeldIsUsed
  <1>2. req[r].pc = "settle" => req[r].out.tokens \in Nat
    BY TokensTyped
  <1>3. ASSUME NEW actual \in Nat, req[r].pc \in Holding
        PROVE  settle_project_daily_usage(db, req[r].held, actual).usage = db.usage + actual - 1
    <2>1. db.usage + actual >= 1
      BY <1>1, <1>3
    <2>2. settle_project_daily_usage(db, req[r].held, actual)
             = [db EXCEPT !.usage = db.usage + actual - 1]
      BY <1>1, <1>3, <2>1 DEF settle_project_daily_usage, Databases
    <2> QED BY <1>1, <2>2 DEF Databases
  <1>4. CASE req[r].pc \in {"reserve", "poll"}
    <2>1. Effect(r) = reserve_turn(db, req[r].key, req[r].body)
      BY <1>4 DEF Effect
    <2> QED BY <1>1, <1>4, <2>1, KeepsUsage
  <1>5. CASE req[r].pc = "check"
    <2>1. Effect(r) \in {db, resource_circuit_allows(db, Circuit(r, Head(req[r].todo)))}
      BY <1>5 DEF Effect
    <2> QED BY <1>1, <1>5, <2>1, KeepsUsage
  <1>6. CASE req[r].pc = "tokens"
    <2>1. Effect(r) \in {db, reserve_project_daily_input_tokens(db)}
      BY <1>6 DEF Effect
    <2>2. reserve_project_daily_input_tokens(db).usage = db.usage + 1
      BY <1>1 DEF reserve_project_daily_input_tokens, Databases
    <2> QED BY <1>1, <1>6, <2>1, <2>2
  <1>7. CASE req[r].pc = "lease"
    <2>1. Effect(r) = acquire_project_concurrency_lease(db, Lease(r))
      BY <1>7 DEF Effect
    <2>2. Effect(r).usage = db.usage
      BY <1>1, <2>1 DEF acquire_project_concurrency_lease, Databases
    <2> QED BY <1>1, <1>7, <2>2
  <1>8. CASE req[r].pc \in {"failure", "success"}
    <2>1. Effect(r) \in {record_resource_retryable_failure(db, Circuit(r, Candidate(r))),
                         record_resource_success(db, Circuit(r, Candidate(r)))}
      BY <1>8 DEF Effect
    <2> QED BY <1>1, <1>8, <2>1, KeepsUsage
  <1>9. CASE req[r].pc = "settle"
    <2>1. Effect(r) = settle_project_daily_usage(db, req[r].held, req[r].out.tokens)
      BY <1>9 DEF Effect
    <2>2. Effect(r).usage = db.usage + req[r].out.tokens - 1
      BY <1>2, <1>3, <1>9, <2>1 DEF Holding
    <2> QED BY <1>1, <1>2, <1>9, <2>2 DEF Holding
  <1>10. CASE req[r].pc = "untoken"
    <2>1. Effect(r) = settle_project_daily_usage(db, req[r].held, 0)
      BY <1>10 DEF Effect
    <2>2. Effect(r).usage = db.usage + 0 - 1
      BY <1>3, <1>10, <2>1 DEF Holding
    <2> QED BY <1>1, <1>10, <2>2 DEF Holding
  <1>11. CASE req[r].pc = "unlease"
    <2>1. Effect(r) = release_project_concurrency_lease(db, req[r].key)
      BY <1>11 DEF Effect
    <2>2. Effect(r).usage = db.usage
      BY <1>1, <2>1 DEF release_project_concurrency_lease, Databases
    <2> QED BY <1>1, <1>11, <2>2
  <1>12. CASE req[r].pc = "persist"
    <2>1. Effect(r) = Outcome(db, r)
      BY <1>12 DEF Effect
    <2>2. \E o : Effect(r) \in {complete_turn(db, req[r].key, o), fail_turn(db, req[r].key, o)}
      BY <2>1 DEF Outcome
    <2> QED BY <1>1, <1>12, <2>2, KeepsUsage
  <1>13. CASE req[r].pc \notin {"reserve", "poll", "check", "tokens", "lease", "failure", "success",
                                "settle", "untoken", "unlease", "persist"}
    <2>1. Effect(r) = db
      BY <1>13 DEF Effect
    <2> QED BY <1>1, <1>13, <2>1
  <1> QED BY <1>4, <1>5, <1>6, <1>7, <1>8, <1>9, <1>10, <1>11, <1>12, <1>13


(* A storage error keeps every row. *)
LEMMA FailsKeepRows ==
  ASSUME TurnInv, NEW r \in AllRequests, StorageFails(r)
  PROVE  RowsKept
PROOF
  <1>1. PICK d \in {db, Effect(r)} : db' = d
    BY DEF StorageFails
  <1>2. req[r].pc = "check" => req[r].todo # <<>>
    BY DEF StorageFails
  <1>3. db \in Databases /\ ReqInv(r) /\ db.turns \in [Keys -> TurnRows \cup {None}]
    BY Typed, DbFields
  <1>4. CASE db' = db
    BY <1>4 DEF RowsKept
  <1>5. CASE req[r].pc \in {"check", "tokens", "lease", "failure", "success", "settle", "untoken",
                            "unlease"}
    <2>1. db'.turns = db.turns
      BY <1>1, <1>2, <1>5, EffectOps
    <2> QED BY <2>1 DEF RowsKept
  <1>6. CASE db' = Effect(r) /\ req[r].pc = "persist"
    <2>1. PICK k \in Keys : k = req[r].key
      BY <1>3, <1>6 DEF ReqInv
    <2>2. Effect(r) = Outcome(db, r)
      BY <1>6 DEF Effect
    <2>3. PICK w \in TurnRows : Outcome(db, r) = [db EXCEPT !.turns[k] = w]
      BY <1>6, <2>1, OutcomeRow
    <2>4. db' = [db EXCEPT !.turns[k] = w]
      BY <1>6, <2>2, <2>3
    <2> QED BY <2>4, RowWritten
  <1>7. CASE db' = Effect(r) /\ req[r].pc \in {"reserve", "poll"}
    <2>1. PICK k \in Keys : k = req[r].key
      BY <1>3, <1>7 DEF ReqInv
    <2>2. Effect(r) = reserve_turn(db, k, req[r].body)
      BY <1>7, <2>1 DEF Effect
    <2>3. PICK w : w = [body |-> req[r].body, state |-> "in_progress", out |-> None]
      OBVIOUS
    <2>4. db' = db \/ db' = [db EXCEPT !.turns[k] = w]
      BY <1>7, <2>2, <2>3 DEF reserve_turn
    <2>5. w \in TurnRows
      <3>1. req[r].body \in Bodies
        BY <1>7, Typed DEF Live
      <3> QED BY <2>3, <3>1 DEF TurnRows, TurnStates, Outcomes
    <2> QED BY <1>4, <2>4, <2>5, RowWritten
  <1> QED BY <1>1, <1>4, <1>5, <1>6, <1>7 DEF StorageFails

(* A request told of a storage error may leave tokens counted, never        *)
(* uncounted ones behind.                                                   *)
LEMMA StorageFailsBooks ==
  ASSUME TurnInv, TurnInv', AccountInv, NEW r \in AllRequests, StorageFails(r)
  PROVE  AccountInv'
PROOF
  <1>1. PICK d \in {db, Effect(r)} :
          /\ db' = d
          /\ billed' = IF req[r].pc = "settle" /\ d # db
                       THEN [billed EXCEPT ![req[r].key] = req[r].out.tokens] ELSE billed
    BY DEF StorageFails
  <1>2. /\ req' = [req EXCEPT ![r] = AfterStorageError(r)] /\ faults' = faults + 1
        /\ req[r].pc \in {"reserve", "poll", "check", "tokens", "lease", "failure", "success",
                          "settle", "untoken", "unlease", "persist"}
    BY DEF StorageFails, Set, Fault
  <1>3. Live(r) /\ RowsKept
    BY <1>2, FailsKeepRows DEF Live
  <1>4. /\ req[r] \in RequestRecords /\ db.usage \in Nat /\ db'.usage \in Nat
        /\ req[r].held = (IF req[r].pc \in Holding THEN 1 ELSE 0)
        /\ req[r].pc \in Unsettled => billed[req[r].key] = 0
    BY <1>2, AccountFacts, BooksTyped
  <1>5. PICK n : n = AfterStorageError(r)
    OBVIOUS
  <1>6. /\ n.held = IF n.pc \in Holding THEN 1 ELSE 0
        /\ n.pc \in Unsettled => req[r].pc \in {"success", "failure"} /\ n.key = req[r].key
        /\ n.pc \in Holding => req[r].pc \in {"success", "failure"}
    <2>1. PICK e : e = Error("gateway_storage_unavailable")
      OBVIOUS
    <2>2. CASE req[r].pc \in {"success", "failure"}
      <3>1. n = [req[r] EXCEPT !.pc = "untoken", !.out = e]
        BY <1>5, <2>1, <2>2 DEF AfterStorageError
      <3>2. n.pc = "untoken" /\ n.held = 1 /\ n.key = req[r].key
        BY <1>4, <2>2, <3>1 DEF RequestRecords, Holding
      <3> QED BY <2>2, <3>2 DEF Holding
    <2>3. CASE req[r].pc = "persist"
      <3>1. n = [req[r] EXCEPT !.pc = "publish", !.out = e]
        BY <1>5, <2>1, <2>3 DEF AfterStorageError
      <3>2. n.pc = "publish" /\ n.held = 0
        BY <1>4, <2>3, <3>1 DEF RequestRecords, Holding
      <3> QED BY <3>2 DEF Holding, Unsettled
    <2>4. CASE req[r].pc \in {"reserve", "poll"}
      <3>1. n = Ended(r, "done")
        BY <1>5, <2>4 DEF AfterStorageError
      <3>2. n.pc = "done" /\ n.held = 0
        BY <3>1 DEF Ended, NewRequest
      <3> QED BY <3>2 DEF Holding, Unsettled
    <2>5. CASE req[r].pc \in {"check", "tokens", "lease", "settle", "untoken", "unlease"}
      <3>1. n = [Stop(r, "gateway_storage_unavailable") EXCEPT !.held = 0]
        BY <1>5, <2>5 DEF AfterStorageError
      <3>2. n = [req[r] EXCEPT !.pc = "persist", !.out = e, !.held = 0]
        BY <1>4, <2>1, <3>1 DEF Stop, RequestRecords
      <3>3. n.pc = "persist" /\ n.held = 0
        BY <1>4, <3>2 DEF RequestRecords
      <3> QED BY <3>3 DEF Holding, Unsettled
    <2> QED BY <1>2, <2>2, <2>3, <2>4, <2>5
  <1>7. n.pc \in Unsettled => req[r].pc \in Unsettled /\ n.key = req[r].key
    BY <1>6 DEF Unsettled, Holding
  <1>8. /\ db'.usage + req[r].held >= db.usage
        /\ req[r].pc \in {"success", "failure"} => db'.usage = db.usage
        /\ req[r].pc = "settle" /\ db' # db =>
             db'.usage + req[r].held = db.usage + req[r].out.tokens
    BY <1>1, <1>3, <1>4, EffectUsage
  <1>9. PICK old \in Nat, new \in Nat :
          /\ old = 0
          /\ new = IF req[r].pc = "settle" /\ db' # db THEN req[r].out.tokens ELSE 0
    BY TokensTyped
  <1>10. \/ billed' = billed /\ new = old
         \/ /\ req[r].pc \in Unsettled /\ n.pc \notin Unsettled /\ old = billed[req[r].key]
            /\ billed' = [billed EXCEPT ![req[r].key] = new]
    <2>1. CASE req[r].pc = "settle" /\ db' # db
      <3>1. req[r].pc \in Unsettled /\ n.pc \notin Unsettled
        BY <1>6, <2>1 DEF Unsettled, Holding
      <3> QED BY <1>1, <1>4, <1>9, <2>1, <3>1
    <2>2. CASE ~(req[r].pc = "settle" /\ db' # db)
      BY <1>1, <1>9, <2>2
    <2> QED BY <2>1, <2>2
  <1>11. db'.usage + old + req[r].held >= db.usage + new + n.held
    <2>1. CASE req[r].pc \in {"success", "failure"}
      BY <1>4, <1>6, <1>8, <1>9, <2>1 DEF Holding
    <2>2. CASE req[r].pc \notin {"success", "failure"}
      <3>1. n.held = 0
        BY <1>6, <2>2
      <3> QED BY <1>4, <1>8, <1>9, <3>1
    <2> QED BY <2>1, <2>2
  <1> QED BY <1>2, <1>3, <1>5, <1>6, <1>7, <1>10, <1>11, FaultStep

-----------------------------------------------------------------------------
(* Steps that touch no request, row, usage or lease *)
LEMMA SameBooks ==
  ASSUME AccountInv, UNCHANGED <<req, billed>>, faults' \in {faults, faults + 1},
         db'.usage = db.usage, db'.leases = db.leases, db'.turns = db.turns
  PROVE  AccountInv'
PROOF
  <1>1. faults' \in Nat /\ (faults' = 0 => faults = 0)
    BY DEF AccountInv
  <1>2. HeldInv' /\ LeasedInv'
    BY <1>1 DEF AccountInv, HeldInv, LeasedInv
  <1>3. Tokens(billed, Keys)' = Tokens(billed, Keys)
    BY DEF Tokens
  <1>4. Held' = Held
    BY DEF Held, Live
  <1>5. Tokens(Held, AllRequests)' = Tokens(Held, AllRequests)
    BY <1>4 DEF Tokens
  <1>6. Due' = Due
    BY <1>3, <1>5 DEF Due
  <1>7. UsageInv'
    BY <1>1, <1>3, <1>5, <1>6 DEF AccountInv, UsageInv
  <1> QED BY <1>1, <1>2, <1>7 DEF AccountInv

(* A circuit cools down. *)
LEMMA CoolDownBooks ==
  ASSUME TurnInv, AccountInv, NEW c \in Circuits, CoolDown(c)
  PROVE  AccountInv'
PROOF
  <1>1. db' = [db EXCEPT !.health[c].cooling = FALSE] /\ UNCHANGED <<req, billed, faults>>
    BY DEF CoolDown
  <1>2. db'.usage = db.usage /\ db'.leases = db.leases /\ db'.turns = db.turns
    <2>1. db \in Databases
      BY DEF TurnInv, Types
    <2> QED BY <1>1, <2>1 DEF Databases
  <1> QED BY <1>1, <1>2, SameBooks

(* A pod stops: what its requests held stays counted. *)
LEMMA CrashBooks ==
  ASSUME TurnInv, AccountInv, NEW p \in Pods, Crash(p)
  PROVE  AccountInv'
PROOF
  <1>1. /\ UNCHANGED <<db, billed>> /\ faults' = faults + 1
        /\ req' = [r \in AllRequests |->
                     IF Live(r) /\ req[r].pod = p THEN Ended(r, "gone") ELSE req[r]]
    BY DEF Crash, Fault
  <1>2. faults' \in Nat /\ faults' # 0
    BY <1>1 DEF AccountInv
  <1>3. ASSUME NEW r \in AllRequests
        PROVE  req'[r] = req[r] \/ (req'[r].pc = "gone" /\ req'[r].held = 0)
    BY <1>1 DEF Ended, NewRequest
  <1>4. HeldInv'
    <2> SUFFICES ASSUME NEW r \in AllRequests
                 PROVE  /\ req'[r].held = IF req'[r].pc \in Holding THEN 1 ELSE 0
                        /\ req'[r].pc \in Unsettled => billed'[req'[r].key] = 0
      BY DEF HeldInv
    <2>1. CASE req'[r] = req[r]
      BY <1>1, <2>1 DEF AccountInv, HeldInv
    <2>2. CASE req'[r].pc = "gone" /\ req'[r].held = 0
      BY <2>2 DEF Holding, Unsettled
    <2> QED BY <1>3, <2>1, <2>2
  <1>5. PICK h : h = Held'
    OBVIOUS
  <1>6. \A r \in AllRequests : 1..h[r] \subseteq 1..Held[r]
    <2> SUFFICES ASSUME NEW r \in AllRequests PROVE 1..h[r] \subseteq 1..Held[r]
      OBVIOUS
    <2>1. CASE req'[r] = req[r]
      BY <1>5, <2>1 DEF Held, Live
    <2>2. CASE req'[r].pc = "gone" /\ req'[r].held = 0
      <3>1. h[r] = 0
        BY <1>5, <2>2 DEF Held, Live
      <3>2. 1..0 = {}
        OBVIOUS
      <3> QED BY <3>1, <3>2
    <2> QED BY <1>3, <2>1, <2>2
  <1>7. /\ IsFiniteSet(Tokens(billed, Keys)) /\ IsFiniteSet(Tokens(Held, AllRequests))
        /\ db.usage >= Due
    BY DEF AccountInv, UsageInv
  <1>8. /\ IsFiniteSet(Tokens(h, AllRequests))
        /\ Cardinality(Tokens(Held, AllRequests)) \in Nat
        /\ Cardinality(Tokens(h, AllRequests)) \in Nat
        /\ Cardinality(Tokens(h, AllRequests)) <= Cardinality(Tokens(Held, AllRequests))
    BY <1>6, <1>7, TokensShrink
  <1>9. /\ Tokens(billed, Keys)' = Tokens(billed, Keys)
        /\ Tokens(Held, AllRequests)' = Tokens(h, AllRequests)
    BY <1>1, <1>5 DEF Tokens
  <1>10. Cardinality(Tokens(billed, Keys)) \in Nat /\ db.usage \in Nat
    <2>1. db \in Databases
      BY DEF TurnInv, Types
    <2> QED BY <1>7, <2>1, FS_CardinalityType, DbFields
  <1>11. Due' = Cardinality(Tokens(billed, Keys)) + Cardinality(Tokens(h, AllRequests))
    BY <1>9 DEF Due
  <1>12. db'.usage >= Due'
    BY <1>1, <1>7, <1>8, <1>10, <1>11 DEF Due
  <1>13. UsageInv'
    BY <1>2, <1>7, <1>8, <1>9, <1>12 DEF UsageInv
  <1>14. LeasedInv'
    BY <1>2 DEF LeasedInv
  <1> QED BY <1>1, <1>2, <1>4, <1>13, <1>14 DEF AccountInv

(* Every step of a turn keeps the books. *)
LEMMA TurnsBooks ==
  ASSUME TurnInv, TurnInv', AccountInv, TurnsNext
  PROVE  AccountInv'
PROOF
  <1>1. ASSUME NEW r \in AllRequests, Arrive(r) \/ StorageFails(r) \/ Disconnect(r) \/ Late(r)
        PROVE  AccountInv'
    BY <1>1, ArriveBooks, StorageFailsBooks, DisconnectBooks, LateBooks
  <1>2. ASSUME NEW r \in AllRequests, Step(r) PROVE AccountInv'
    <2>1. CASE Reserve(r) \/ Lookup(r) \/ Woken(r) \/ Poll(r)
      BY <2>1, ReserveBooks, WaiterBooks, PollBooks
    <2>2. CASE Insert(r) \/ Select(r) \/ Check(r) \/ ReserveTokens(r) \/ AcquireLease(r)
      BY <2>2, BeginBooks, CheckBooks, ReserveTokensBooks, AcquireLeaseBooks
    <2>3. CASE Call(r) \/ Upstream(r) \/ RecordFailure(r) \/ RecordSuccess(r)
      BY <2>3, CallBooks, UpstreamBooks, RecordBooks
    <2>4. CASE Settle(r) \/ ReleaseTokens(r) \/ ReleaseLease(r) \/ Persist(r) \/ Publish(r)
      BY <2>4, SettleBooks, ReleaseLeaseBooks, FinalBooks
    <2> QED BY <1>2, <2>1, <2>2, <2>3, <2>4 DEF Step
  <1> QED BY <1>1, <1>2, CoolDownBooks DEF TurnsNext

(* The books are empty when the gateway starts. *)
LEMMA InitBooks == Init => AccountInv
PROOF
  <1> SUFFICES ASSUME Init PROVE AccountInv
    OBVIOUS
  <1>1. /\ faults = 0 /\ billed = [k \in Keys |-> 0] /\ db = EmptyDb
        /\ req = [r \in AllRequests |-> NewRequest]
    BY DEF Init, TurnsInit
  <1>2. \A r \in AllRequests :
          req[r].pc = "idle" /\ req[r].held = 0 /\ req[r].leased = FALSE
    BY <1>1 DEF NewRequest
  <1>3. HeldInv
    BY <1>2 DEF HeldInv, Holding, Unsettled
  <1>4. LeasedInv
    BY <1>1, <1>2 DEF LeasedInv, EmptyDb
  <1>5. 1..0 = {}
    OBVIOUS
  <1>6. Tokens(billed, Keys) = {}
    BY <1>1, <1>5 DEF Tokens
  <1>7. \A r \in AllRequests : Held[r] = 0
    BY <1>2 DEF Held, Live
  <1>8. Tokens(Held, AllRequests) = {}
    BY <1>5, <1>7 DEF Tokens
  <1>9. Due = 0
    BY <1>6, <1>8, FS_EmptySet DEF Due
  <1>10. UsageInv
    BY <1>1, <1>6, <1>8, <1>9, FS_EmptySet DEF UsageInv, EmptyDb
  <1> QED BY <1>1, <1>3, <1>4, <1>10 DEF AccountInv

(* Every step keeps the books: the configuration's do not touch them, and a *)
(* restart is a stop of the pod.                                            *)
LEMMA NextBooks == GInv /\ AccountInv /\ [Next]_vars => AccountInv'
PROOF
  <1> SUFFICES ASSUME GInv, AccountInv, [Next]_vars PROVE AccountInv'
    OBVIOUS
  <1>1. TurnInv /\ TurnInv'
    BY NextInv DEF GInv
  <1>2. ASSUME UNCHANGED <<db, req, billed>>, faults' \in {faults, faults + 1} PROVE AccountInv'
    BY <1>2, SameBooks
  <1>3. CASE TurnsNext
    BY <1>1, <1>3, TurnsBooks
  <1>4. ASSUME NEW p \in Pods, Poll2s(p) \/ PollFails(p) \/ Start(p) PROVE AccountInv'
    BY <1>2, <1>4 DEF Poll2s, PollFails, Start, StartVersion, StartFirst, StartRest, Fault, gatewayVars
  <1>5. ASSUME NEW p \in Pods, Restart(p) PROVE AccountInv'
    BY <1>1, <1>5, CrashBooks DEF Restart
  <1>6. ASSUME NEW o \in Operations, Send(o) \/ Write(o) PROVE AccountInv'
    BY <1>2, <1>6 DEF Send, Write, ReserveWrite, Save, Complete, Discard, gatewayVars
  <1>7. ASSUME NEW o \in Operations, WriteFails(o) PROVE AccountInv'
    BY <1>2, <1>7 DEF WriteFails, Fault
  <1>8. ASSUME NEW f \in Refreshers, Refresh(f) PROVE AccountInv'
    BY <1>2, <1>8 DEF Refresh, LoadFirst, LoadRest, Install, Mark, gatewayVars
  <1>9. CASE UNCHANGED vars
    BY <1>2, <1>9 DEF vars, gatewayVars
  <1> QED BY <1>3, <1>4, <1>5, <1>6, <1>7, <1>8, <1>9 DEF Next

(* The tokens and leases of the turns are accounted for in every reachable  *)
(* state.                                                                   *)
THEOREM AccountInvariance == Spec => []AccountInv
PROOF
  <1>1. Init => GInv /\ AccountInv
    BY InitInv, InitBooks
  <1>2. GInv /\ AccountInv /\ [Next]_vars => GInv' /\ AccountInv'
    BY NextInv, NextBooks
  <1> QED BY <1>1, <1>2, PTL DEF Spec

(* The day's usage never falls below what settled turns used and running    *)
(* ones hold; and while no fault has struck it is exactly that, and the     *)
(* leases are exactly those of running requests: every path of              *)
(* execute_new_turn gives back what acquire_policy_quota took.              *)
THEOREM NothingLeaksTheorem == Spec => []NothingLeaks
PROOF
  <1>1. GInv /\ AccountInv => NothingLeaks
    <2> SUFFICES ASSUME GInv, AccountInv PROVE NothingLeaks
      OBVIOUS
    <2>1. db.usage >= Due /\ (faults = 0 => db.usage = Due)
      BY DEF AccountInv, UsageInv
    <2>2. ASSUME faults = 0, NEW l \in db.leases PROVE req[l.by].leased /\ Live(l.by)
      <3>1. db \in Databases
        BY DEF GInv, TurnInv, Types
      <3>2. l.by \in AllRequests
        BY <3>1, DbFields DEF Leases
      <3>3. req[l.by].leased /\ req[l.by].pc \in Leasing
        BY <2>2, <3>2 DEF AccountInv, LeasedInv
      <3> QED BY <3>3 DEF Live, Leasing
    <2> QED BY <2>1, <2>2 DEF NothingLeaks
  <1> QED BY <1>1, Invariance, AccountInvariance, PTL
=============================================================================
