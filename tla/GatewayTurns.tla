---------------------------- MODULE GatewayTurns ----------------------------
(***************************************************************************)
(* Model turns in the provider gateway (services/provider-gateway): two or *)
(* more pods that share one PostgreSQL database.  A turn is identified by  *)
(* its idempotency key; requests for it may reach several pods, several    *)
(* times.  The first one reserves the turn and executes it; the others     *)
(* replay the stored outcome, wait for it, or give up at their deadline.   *)
(*                                                                         *)
(* Between two storage calls of a request anything else may happen: the    *)
(* calls of other requests, a pod's stop, the runtime hanging up (which    *)
(* drops the handler where it stands) and a storage call that fails, with  *)
(* or without its effect (a lost acknowledgement).                         *)
(*                                                                         *)
(* Tokens are counted in units: every request is estimated at one unit     *)
(* (estimate_input_tokens) and uses one of the amounts in Actual.          *)
(***************************************************************************)
EXTENDS Naturals, Sequences, FiniteSets

CONSTANTS
  None,            \* nothing
  Pods,            \* gateway replicas
  Keys,            \* idempotency keys of turns
  Bodies,          \* request hashes
  Resources,       \* model resources
  Switchable,      \* error codes of the policy's automaticSwitch.allowedReasons
  MaxSwitches,     \* maxModelSwitchesPerTurn
  MaxAttempts,     \* maxAttempts of a resource
  Bulkhead,        \* maxConcurrentRequests of a resource, per pod
  MaxConcurrent,   \* maxConcurrentTurns of the policy
  DailyTokens,     \* dailyInputTokens of the policy
  Actual,          \* input tokens a provider may report
  Threshold,       \* failures that open a circuit: 3 in the code
  Revisions,       \* revision numbers of policies and resources
  Scenarios,       \* what clients send and which faults occur, see TurnsInit
  MaxFaults        \* bound on the faults of a behaviour

ASSUME GatewayAssumption ==
  /\ MaxAttempts \in Nat \ {0} /\ MaxSwitches \in Nat /\ Threshold \in Nat \ {0}
  /\ MaxConcurrent \in Nat /\ Actual \subseteq Nat
  /\ \A s \in Scenarios :
       /\ s.requests \in Nat /\ s.ahead \in Nat /\ s.lists \subseteq Seq(Resources)
       /\ \A r \in 1..s.requests :
            s.asks[r] \subseteq [pod : Pods, key : Keys, body : Bodies]

VARIABLES
  db,        \* the database: turns, usage, leases, health
  memory,    \* per pod: the idempotency map, per key
  req,       \* the requests
  conf,      \* per pod: the configuration snapshot turns read; None while
             \* the pod starts
  scenario,  \* the load of this behaviour
  faults,    \* faults so far
  spent,     \* history: upstream calls made for a key: the request, the
             \* candidate and the attempt
  billed,    \* history: tokens settled for a key
  oks        \* history: the responses returned for a key

gatewayVars == <<db, memory, req, conf, scenario, faults, spent, billed, oks>>

\* Requests are numbered in the order of their arrival.
AllRequests == UNION {1..s.requests : s \in Scenarios}

(***************************************************************************)
(* The tables                                                              *)
(***************************************************************************)
TurnStates == {"in_progress", "completed", "failed", "expired"}

\* A circuit is kept per resource and revision.
Circuits == Resources \X Revisions

EmptyDb ==
  [turns  |-> [k \in Keys |-> None],
   usage  |-> 0,
   leases |-> {},
   health |-> [c \in Circuits |-> [failures |-> 0, state |-> "closed", cooling |-> FALSE]]]

NewRequest ==
  [pc |-> "idle", pod |-> None, key |-> None, body |-> None, late |-> FALSE,
   snapshot |-> None, todo |-> <<>>, able |-> <<>>, at |-> 0, tries |-> 0,
   held |-> 0, leased |-> FALSE, out |-> None]

Live(r) == req[r].pc \notin {"idle", "done", "gone"}

\* The lease of a turn, in the scope of a policy revision; it lives as long as
\* the deadline of the request that took it allows.
Lease(r) == [key |-> req[r].key, scope |-> req[r].snapshot.policies, by |-> r]

\* The resource the request is at, with the revision of its snapshot.
Circuit(r, m) == <<m, req[r].snapshot.resources>>

Candidate(r) == req[r].able[req[r].at]

Ok(by, tokens) == [ok |-> TRUE, by |-> by, tokens |-> tokens, code |-> "none"]

Error(code) == [ok |-> FALSE, by |-> None, tokens |-> 0, code |-> code]

Codes == {"none", "idempotency_conflict", "idempotency_result_expired",
          "model_resource_not_allowed", "gateway_quota_exceeded", "gateway_overloaded",
          "gateway_storage_unavailable", "provider_unavailable", "provider_timeout",
          "provider_response_invalid"}

Results ==
  [ok : BOOLEAN, by : AllRequests \cup {None}, tokens : Actual \cup {0}, code : Codes]

Outcomes == Results \cup {None}

TurnRows == [body : Bodies, state : TurnStates, out : Outcomes]

\* The current revision of each table
Configs == [resources : Nat, policies : Nat]

\* None is no row, no result and no configuration.
ASSUME NoneAssumption == None \notin TurnRows /\ None \notin Results /\ None \notin Configs

\* Errors that is_retryable_upstream accepts when they carry retryable = true.
RetryableUpstream == {"provider_unavailable", "provider_timeout"}

(***************************************************************************)
(* Storage operations: what each makes of the database                     *)
(***************************************************************************)
\* INSERT ... ON CONFLICT DO NOTHING
reserve_turn(d, k, b) ==
  IF d.turns[k] = None
  THEN [d EXCEPT !.turns[k] = [body |-> b, state |-> "in_progress", out |-> None]]
  ELSE d

\* What the reservation returns when the row is there.
Stored(d, k, b) ==
  IF d.turns[k].body # b THEN "conflict" ELSE d.turns[k].state

\* A circuit that has cooled down lets a request through and turns half open.
resource_circuit_allows(d, c) ==
  IF d.health[c].state = "open" /\ ~d.health[c].cooling
  THEN [d EXCEPT !.health[c].state = "half_open"]
  ELSE d

Allows(d, c) == ~(d.health[c].state = "open" /\ d.health[c].cooling)

record_resource_success(d, c) ==
  [d EXCEPT !.health[c] = [failures |-> 0, state |-> "closed", cooling |-> FALSE]]

\* consecutive_failures is capped at Threshold: nothing tells higher values apart.
record_resource_retryable_failure(d, c) ==
  LET n    == IF d.health[c].failures < Threshold THEN d.health[c].failures + 1 ELSE Threshold
      open == n >= Threshold
  IN  [d EXCEPT !.health[c] = [failures |-> n,
                               state |-> IF open THEN "open" ELSE "closed",
                               cooling |-> open]]

reserve_project_daily_input_tokens(d) == [d EXCEPT !.usage = @ + 1]

settle_project_daily_usage(d, reserved, actual) ==
  [d EXCEPT !.usage = IF @ + actual >= reserved THEN @ + actual - reserved ELSE 0]

\* Faulty variant: leases expire at the deadline itself, with calls in flight.
Expired_Early(l) == req[l.by].late \/ ~Live(l.by)

\* A lease expires sixty seconds after its request's deadline, when no upstream
\* call of the request can be in flight any more: its timeout is the deadline.
\* A lease whose request has ended may expire at any time.
Expired(l) == (req[l.by].late \/ ~Live(l.by)) /\ req[l.by].pc # "calling"

\* Leases of the scope that have expired go; the request's own is added if
\* there is room.
Unexpired(d, s) == {l \in d.leases : l.scope # s \/ ~Expired(l)}

HasRoom(d, s) == Cardinality({l \in Unexpired(d, s) : l.scope = s}) < MaxConcurrent

acquire_project_concurrency_lease(d, l) ==
  [d EXCEPT !.leases = Unexpired(d, l.scope)
                         \cup (IF HasRoom(d, l.scope) THEN {l} ELSE {})]

release_project_concurrency_lease(d, k) ==
  [d EXCEPT !.leases = {l \in @ : l.key # k}]

\* Both updates are guarded by state = 'in_progress'.
complete_turn(d, k, out) ==
  IF d.turns[k].state = "in_progress"
  THEN [d EXCEPT !.turns[k].state = "completed", !.turns[k].out = out]
  ELSE d

fail_turn(d, k, out) ==
  IF d.turns[k].state = "in_progress"
  THEN [d EXCEPT !.turns[k].state = "failed", !.turns[k].out = out]
  ELSE d

(***************************************************************************)
(* A request that waits for, or replays, another one's turn                *)
(***************************************************************************)
Set(r, new) == req' = [req EXCEPT ![r] = new]

\* A request that has ended, one way or the other
Ended(r, pc) == [NewRequest EXCEPT !.pc = pc, !.pod = req[r].pod, !.key = req[r].key]

\* The request ends with this outcome; the connection gets it.
Answer(r, out) ==
  /\ Set(r, Ended(r, "done"))
  /\ oks' = IF out.ok THEN [oks EXCEPT ![req[r].key] = @ \cup {out.by}] ELSE oks

\* turn_handler: a request reaches a pod that serves; the runtime repeats requests whose
\* answer it did not get.
Arrive(r) ==
  /\ r <= scenario.requests /\ req[r].pc = "idle"
  /\ \A q \in 1..(r - 1) : req[q].pc # "idle"
  /\ \E a \in scenario.asks[r] :
        /\ conf[a.pod] # None
        /\ Set(r, [req[r] EXCEPT !.pc = "reserve", !.pod = a.pod, !.key = a.key, !.body = a.body])
  /\ UNCHANGED <<db, memory, conf, scenario, faults, spent, billed, oks>>

\* The outcome of the row that is there, replayed; a completed row may have
\* passed its replay window, and then loses its response.
Replay(r) ==
  LET k == req[r].key
      s == Stored(db, k, req[r].body)
  IN  \/ /\ s = "conflict"
         /\ Answer(r, Error("idempotency_conflict")) /\ UNCHANGED db
      \/ /\ s \in {"completed", "failed"}
         /\ Answer(r, db.turns[k].out) /\ UNCHANGED db
      \/ /\ s \in {"completed", "expired"}
         /\ Answer(r, Error("idempotency_result_expired"))
         /\ db' = [db EXCEPT !.turns[k].state = "expired", !.turns[k].out = None]

\* Faulty variant: a turn in progress that this pod knows nothing of, after a
\* restart, is taken over.
Reservable_Retaken(r) ==
  IF db.turns[req[r].key] = None THEN TRUE
  ELSE /\ db.turns[req[r].key].state = "in_progress"
       /\ memory[req[r].pod][req[r].key] = None

Reservable(r) == db.turns[req[r].key] = None

\* execute_turn: the durable reservation decides who executes the turn.
Reserve(r) ==
  /\ req[r].pc = "reserve"
  /\ \/ /\ Reservable(r)
        /\ db' = reserve_turn(db, req[r].key, req[r].body)
        /\ Set(r, [req[r] EXCEPT !.pc = "insert"])
        /\ UNCHANGED oks
     \/ /\ ~Reservable(r)
        /\ \/ Replay(r)
           \/ /\ Stored(db, req[r].key, req[r].body) = "in_progress"
              /\ Set(r, [req[r] EXCEPT !.pc = "lookup"])
              /\ UNCHANGED <<db, oks>>
  /\ UNCHANGED <<memory, conf, scenario, faults, spent, billed>>

\* The turn is in progress: wait for its executor if it runs in this pod.
Lookup(r) ==
  /\ req[r].pc = "lookup"
  /\ Set(r, [req[r] EXCEPT !.pc =
                IF memory[req[r].pod][req[r].key] = "in_progress" THEN "subscribed" ELSE "poll"])
  /\ UNCHANGED <<db, memory, conf, scenario, faults, spent, billed, oks>>

\* The executor has published an outcome: the waiter starts over.
Woken(r) ==
  /\ req[r].pc = "subscribed" /\ memory[req[r].pod][req[r].key] # "in_progress"
  /\ Set(r, [req[r] EXCEPT !.pc = "reserve"])
  /\ UNCHANGED <<db, memory, conf, scenario, faults, spent, billed, oks>>

\* Faulty variant: the wait has no deadline.
Poll_Patient(r) ==
  /\ req[r].pc = "poll" /\ Replay(r)
  /\ UNCHANGED <<memory, conf, scenario, faults, spent, billed>>

\* wait_for_durable_turn: ask the database every 50 ms until the deadline.
Poll(r) ==
  /\ req[r].pc = "poll"
  /\ \/ /\ req[r].late
        /\ Answer(r, Error("provider_unavailable")) /\ UNCHANGED db
     \/ /\ ~req[r].late
        /\ Replay(r)
  /\ UNCHANGED <<memory, conf, scenario, faults, spent, billed>>

(***************************************************************************)
(* The request that executes the turn: execute_new_turn                    *)
(***************************************************************************)
\* The in-memory entry others of this pod wait on.
Insert(r) ==
  /\ req[r].pc = "insert"
  /\ memory' = [memory EXCEPT ![req[r].pod][req[r].key] = "in_progress"]
  /\ Set(r, [req[r] EXCEPT !.pc = "select"])
  /\ UNCHANGED <<db, conf, scenario, faults, spent, billed, oks>>

\* Stop executing with this error: it is what will be persisted.
Stop(r, code) == [req[r] EXCEPT !.pc = "persist", !.out = Error(code)]

\* Policy and candidates come from the pod's snapshot, read once.
Select(r) ==
  /\ req[r].pc = "select"
  /\ \E c \in scenario.lists :
       Set(r, IF c = <<>>
              THEN [Stop(r, "model_resource_not_allowed") EXCEPT !.snapshot = conf[req[r].pod]]
              ELSE [req[r] EXCEPT !.pc = "check", !.todo = c, !.snapshot = conf[req[r].pod]])
  /\ UNCHANGED <<db, memory, conf, scenario, faults, spent, billed, oks>>

\* Every candidate's circuit is asked before any of them is called.
Check(r) ==
  LET m == Head(req[r].todo) IN
  /\ req[r].pc = "check"
  /\ IF req[r].todo # <<>>
     THEN /\ db' = resource_circuit_allows(db, Circuit(r, m))
          /\ Set(r, [req[r] EXCEPT !.todo = Tail(@),
                                   !.able = IF Allows(db, Circuit(r, m)) THEN Append(@, m) ELSE @])
     ELSE /\ Set(r, IF req[r].able = <<>> THEN Stop(r, "provider_unavailable")
                    ELSE [req[r] EXCEPT !.pc = "tokens"])
          /\ UNCHANGED db
  /\ UNCHANGED <<memory, conf, scenario, faults, spent, billed, oks>>

\* acquire_policy_quota, first half: the estimated tokens
ReserveTokens(r) ==
  /\ req[r].pc = "tokens"
  /\ IF db.usage + 1 <= DailyTokens
     THEN /\ db' = reserve_project_daily_input_tokens(db)
          /\ Set(r, [req[r] EXCEPT !.pc = "lease", !.held = 1])
     ELSE /\ Set(r, Stop(r, "gateway_quota_exceeded")) /\ UNCHANGED db
  /\ UNCHANGED <<memory, conf, scenario, faults, spent, billed, oks>>

\* Faulty variant: a refused turn keeps its tokens.
Overloaded_Kept(r) == Stop(r, "gateway_overloaded")

\* The turn is refused: its tokens go back first.
Overloaded(r) == [req[r] EXCEPT !.pc = "untoken", !.out = Error("gateway_overloaded")]

\* acquire_policy_quota, second half: the concurrency lease
AcquireLease(r) ==
  /\ req[r].pc = "lease"
  /\ db' = acquire_project_concurrency_lease(db, Lease(r))
  /\ Set(r, IF HasRoom(db, Lease(r).scope)
            THEN [req[r] EXCEPT !.pc = "call", !.at = 1, !.leased = TRUE]
            ELSE Overloaded(r))
  /\ UNCHANGED <<memory, conf, scenario, faults, spent, billed, oks>>

(***************************************************************************)
(* Upstream calls                                                          *)
(***************************************************************************)
\* Requests of the pod that hold a permit of the candidate's semaphore.
Calling(p, c) ==
  {q \in AllRequests : /\ req[q].pc = "calling" /\ req[q].pod = p
                       /\ Circuit(q, Candidate(q)) = c}

\* Another candidate may take over, as the policy allows.
MaySwitch(r, code) ==
  /\ req[r].at < Len(req[r].able) /\ req[r].at <= MaxSwitches
  /\ code \in Switchable

\* The call has failed for good: the next candidate, or the end of the turn.
Failed(r, code) ==
  IF MaySwitch(r, code)
  THEN [req[r] EXCEPT !.pc = "call", !.at = @ + 1, !.out = Error(code)]
  ELSE [req[r] EXCEPT !.pc = "untoken", !.out = Error(code)]

\* A retryable error counts against the resource's circuit first.
CallFailed(r, code) ==
  IF code \in RetryableUpstream
  THEN [req[r] EXCEPT !.pc = "failure", !.out = Error(code)]
  ELSE Failed(r, code)

\* acquire_resource_bulkhead, then the first attempt.  A deadline that has
\* passed and a credential or address that cannot be resolved end the call
\* before anything is sent.
Call(r) ==
  /\ req[r].pc = "call"
  /\ \/ /\ Cardinality(Calling(req[r].pod, Circuit(r, Candidate(r)))) >= Bulkhead
        /\ Set(r, CallFailed(r, "gateway_overloaded")) /\ UNCHANGED spent
     \/ /\ Cardinality(Calling(req[r].pod, Circuit(r, Candidate(r)))) < Bulkhead
        /\ \/ /\ ~req[r].late
              /\ Set(r, [req[r] EXCEPT !.pc = "calling", !.tries = 1])
              /\ spent' = [spent EXCEPT ![req[r].key] = @ \cup {<<r, req[r].at, 1>>}]
           \/ /\ req[r].late
              /\ Set(r, CallFailed(r, "provider_timeout")) /\ UNCHANGED spent
  /\ UNCHANGED <<db, memory, conf, scenario, faults, billed, oks>>

\* call_openai_compatible tries again while attempts and time are left.
MayRetry(r) == req[r].tries < MaxAttempts /\ ~req[r].late

\* The provider answers, fails in a way worth a retry, or rejects the request.
\* The client's timeout is the deadline.
Upstream(r) ==
  /\ req[r].pc = "calling"
  /\ \/ /\ \E n \in Actual : Set(r, [req[r] EXCEPT !.pc = "success", !.out = Ok(r, n)])
        /\ ~req[r].late /\ UNCHANGED spent
     \/ /\ MayRetry(r)
        /\ Set(r, [req[r] EXCEPT !.tries = @ + 1])
        /\ spent' = [spent EXCEPT ![req[r].key] = @ \cup {<<r, req[r].at, req[r].tries + 1>>}]
     \/ /\ ~MayRetry(r)
        /\ Set(r, CallFailed(r, IF req[r].late THEN "provider_timeout" ELSE "provider_unavailable"))
        /\ UNCHANGED spent
     \/ /\ Set(r, CallFailed(r, "provider_response_invalid")) /\ UNCHANGED spent
  /\ UNCHANGED <<db, memory, conf, scenario, faults, billed, oks>>

RecordFailure(r) ==
  /\ req[r].pc = "failure"
  /\ db' = record_resource_retryable_failure(db, Circuit(r, Candidate(r)))
  /\ Set(r, Failed(r, req[r].out.code))
  /\ UNCHANGED <<memory, conf, scenario, faults, spent, billed, oks>>

RecordSuccess(r) ==
  /\ req[r].pc = "success"
  /\ db' = record_resource_success(db, Circuit(r, Candidate(r)))
  /\ Set(r, [req[r] EXCEPT !.pc = "settle"])
  /\ UNCHANGED <<memory, conf, scenario, faults, spent, billed, oks>>

(***************************************************************************)
(* Giving back what the turn holds                                         *)
(***************************************************************************)
\* The tokens are settled or given back: the lease is next, if there is one.
Settled(r) == [req[r] EXCEPT !.pc = IF req[r].leased THEN "unlease" ELSE "persist", !.held = 0]

\* settle_policy_quota: the provider's count replaces the estimate.
Settle(r) ==
  /\ req[r].pc = "settle"
  /\ db' = settle_project_daily_usage(db, req[r].held, req[r].out.tokens)
  /\ Set(r, Settled(r))
  /\ billed' = [billed EXCEPT ![req[r].key] = req[r].out.tokens]
  /\ UNCHANGED <<memory, conf, scenario, faults, spent, oks>>

\* release_policy_quota_reservation
ReleaseTokens(r) ==
  /\ req[r].pc = "untoken"
  /\ db' = settle_project_daily_usage(db, req[r].held, 0)
  /\ Set(r, Settled(r))
  /\ UNCHANGED <<memory, conf, scenario, faults, spent, billed, oks>>

\* release_concurrency_lease
ReleaseLease(r) ==
  /\ req[r].pc = "unlease"
  /\ db' = release_project_concurrency_lease(db, req[r].key)
  /\ Set(r, [req[r] EXCEPT !.pc = "persist", !.leased = FALSE])
  /\ UNCHANGED <<memory, conf, scenario, faults, spent, billed, oks>>

(***************************************************************************)
(* The end of an execution                                                 *)
(***************************************************************************)
Outcome(d, r) ==
  IF req[r].out.ok THEN complete_turn(d, req[r].key, req[r].out)
                   ELSE fail_turn(d, req[r].key, req[r].out)

Persist(r) ==
  /\ req[r].pc = "persist"
  /\ db' = Outcome(db, r)
  /\ Set(r, [req[r] EXCEPT !.pc = "publish"])
  /\ UNCHANGED <<memory, conf, scenario, faults, spent, billed, oks>>

\* The in-memory entry is replaced, the waiters are woken and the caller gets
\* the result.
Publish(r) ==
  /\ req[r].pc = "publish"
  /\ memory' = [memory EXCEPT ![req[r].pod][req[r].key] = "settled"]
  /\ Answer(r, req[r].out)
  /\ UNCHANGED <<db, conf, scenario, faults, spent, billed>>

(***************************************************************************)
(* Faults and time                                                         *)
(***************************************************************************)
Fault(kind) ==
  /\ kind \in scenario.kinds /\ faults < MaxFaults
  /\ faults' = faults + 1

\* What the storage call the request is at would do.
Effect(r) ==
  LET q == req[r] IN
  CASE q.pc \in {"reserve", "poll"} -> reserve_turn(db, q.key, q.body)
    [] q.pc = "check" /\ q.todo # <<>> -> resource_circuit_allows(db, Circuit(r, Head(q.todo)))
    [] q.pc = "tokens" /\ db.usage + 1 <= DailyTokens -> reserve_project_daily_input_tokens(db)
    [] q.pc = "lease" -> acquire_project_concurrency_lease(db, Lease(r))
    [] q.pc = "failure" -> record_resource_retryable_failure(db, Circuit(r, Candidate(r)))
    [] q.pc = "success" -> record_resource_success(db, Circuit(r, Candidate(r)))
    [] q.pc = "settle" -> settle_project_daily_usage(db, q.held, q.out.tokens)
    [] q.pc = "untoken" -> settle_project_daily_usage(db, q.held, 0)
    [] q.pc = "unlease" -> release_project_concurrency_lease(db, q.key)
    [] q.pc = "persist" -> Outcome(db, r)
    [] OTHER -> db

\* Faulty variant: the caller gets a response that may not have been stored.
AfterStorageError_Answered(r) ==
  IF req[r].pc = "persist" THEN [req[r] EXCEPT !.pc = "publish"]
  ELSE IF req[r].pc \in {"reserve", "poll"} THEN Ended(r, "done")
  ELSE [Stop(r, "gateway_storage_unavailable") EXCEPT !.held = 0]

\* Where the request goes from a storage call that reports an error: health
\* records that fail release tokens and lease, everything else returns at once.
AfterStorageError(r) ==
  CASE req[r].pc \in {"success", "failure"} ->
         [req[r] EXCEPT !.pc = "untoken", !.out = Error("gateway_storage_unavailable")]
    [] req[r].pc = "persist" ->
         [req[r] EXCEPT !.pc = "publish", !.out = Error("gateway_storage_unavailable")]
    [] req[r].pc \in {"reserve", "poll"} -> Ended(r, "done")
    [] OTHER -> [Stop(r, "gateway_storage_unavailable") EXCEPT !.held = 0]

\* A storage call reports an error; its effect may have happened all the same.
StorageFails(r) ==
  /\ req[r].pc \in {"reserve", "poll", "check", "tokens", "lease", "failure", "success",
                    "settle", "untoken", "unlease", "persist"}
  /\ req[r].pc = "check" => req[r].todo # <<>>
  /\ Fault("storage")
  /\ \E d \in {db, Effect(r)} :
       /\ db' = d
       /\ billed' = IF req[r].pc = "settle" /\ d # db
                    THEN [billed EXCEPT ![req[r].key] = req[r].out.tokens] ELSE billed
  /\ Set(r, AfterStorageError(r))
  /\ UNCHANGED <<memory, conf, scenario, spent, oks>>

\* The runtime hangs up: the handler is dropped where it stands.
Disconnect(r) ==
  /\ Live(r) /\ Fault("disconnect")
  /\ Set(r, Ended(r, "gone"))
  /\ UNCHANGED <<db, memory, conf, scenario, spent, billed, oks>>

\* The pod stops, with every handler and its memory.
Crash(p) ==
  /\ Fault("crash")
  /\ memory' = [memory EXCEPT ![p] = [k \in Keys |-> None]]
  /\ req' = [r \in AllRequests |->
               IF Live(r) /\ req[r].pod = p THEN Ended(r, "gone") ELSE req[r]]
  /\ UNCHANGED <<db, scenario, spent, billed, oks>>

\* The request's deadline passes: polls, calls and leases look at it.
Late(r) ==
  /\ req[r].pc \in {"poll", "call", "calling"} \/ req[r].leased
  /\ ~req[r].late
  /\ Set(r, [req[r] EXCEPT !.late = TRUE])
  /\ UNCHANGED <<db, memory, conf, scenario, faults, spent, billed, oks>>

\* Thirty seconds after a circuit has opened.
CoolDown(c) ==
  /\ db.health[c].cooling
  /\ db' = [db EXCEPT !.health[c].cooling = FALSE]
  /\ UNCHANGED <<memory, req, conf, scenario, faults, spent, billed, oks>>

Step(r) ==
  \/ Reserve(r) \/ Lookup(r) \/ Woken(r) \/ Poll(r)
  \/ Insert(r) \/ Select(r) \/ Check(r) \/ ReserveTokens(r) \/ AcquireLease(r)
  \/ Call(r) \/ Upstream(r) \/ RecordFailure(r) \/ RecordSuccess(r)
  \/ Settle(r) \/ ReleaseTokens(r) \/ ReleaseLease(r) \/ Persist(r) \/ Publish(r)

TurnsInit ==
  /\ scenario \in Scenarios   \* the number of requests, what each asks of which
                             \* pod, the candidate lists the policy may yield
                             \* (<<>>: none allowed), administrative writes,
                             \* kinds of faults
  /\ db = EmptyDb
  /\ memory = [p \in Pods |-> [k \in Keys |-> None]]
  /\ req = [r \in AllRequests |-> NewRequest]
  /\ conf = [p \in Pods |-> [resources |-> 0, policies |-> 0]]
  /\ faults = 0
  /\ billed = [k \in Keys |-> 0]
  /\ spent = [k \in Keys |-> {}] /\ oks = [k \in Keys |-> {}]

TurnsNext ==
  \/ \E r \in AllRequests : Arrive(r) \/ Step(r) \/ StorageFails(r) \/ Disconnect(r) \/ Late(r)
  \/ \E c \in Circuits : CoolDown(c)
=============================================================================
