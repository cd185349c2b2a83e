-------------------------- MODULE PublicationStore --------------------------
(***************************************************************************)
(* The durable publication control plane (publication/store.rs and         *)
(* publication/store_reconcile.rs): desired and observed publication of    *)
(* every project, the operations that asked for it and the outbox the      *)
(* work-runtime controller consumes.                                       *)
(*                                                                         *)
(* A store call holds the store's mutex from its first read to the end of  *)
(* persist_commit, so one call is one action.  `mem` is the snapshot in    *)
(* memory, `disk` the snapshot that the next restart will find.  A failed  *)
(* persist_commit may or may not have left its record behind, so it picks  *)
(* the next value of `disk`: the files decide, and module                  *)
(* PublicationJournal derives from them that a restart finds the last Ok   *)
(* commit or one attempted after it.  The cases in which they do worse (a  *)
(* torn record extended by the next append, a lost checkpoint after a      *)
(* failed commit, an interrupted import) are that module's.                *)
(*                                                                         *)
(* Abstractions: an intent's request hash is the intent itself (SHA-256    *)
(* taken as injective); operation and outbox ids are the pair project and  *)
(* idempotency key they are hashed from; workspace namespace and runtime   *)
(* profile are functions of the project and left out; timestamps, error    *)
(* texts and schema versions are left out, so a Pending event is always    *)
(* allowed to be due; a project without a runtime record, and a key        *)
(* without an operation, have generation 0.                                *)
(*                                                                         *)
(* An operator whose name ends in an underscore and a capitalised word is  *)
(* a faulty variant of the operator so named; it tests a property.         *)
(***************************************************************************)
EXTENDS Naturals

CONSTANTS
    Projects,    \* project ids
    Releases,    \* work release ids
    Keys,        \* client idempotency keys
    Hosts,       \* host slugs
    DepIds,      \* Deployment UIDs
    SvcIds,      \* Service identities: UID and resourceVersion
    IngIds,      \* Ingress UIDs
    BackoffCap,  \* attempts beyond this no longer lengthen the backoff (6 in the code)
    None         \* Option::None

ASSUME BackoffCapAssumption == BackoffCap \in Nat \ {0}

ASSUME NoneAssumption ==
    None \notin Releases \cup Hosts \cup DepIds \cup SvcIds \cup IngIds

VARIABLES
    mem,    \* Mutex<PublicationSnapshot>
    disk,   \* the snapshot a restart recovers
    phase,  \* "recovering": opened, replay_nonterminal_outbox not finished; "serving"
    acked   \* history: the operations whose commit was reported Ok to a client

vars == <<mem, disk, phase, acked>>

Option(S) == S \cup {None}

-----------------------------------------------------------------------------
(* Records *)

OpId == Projects \X Keys

PublishOperationKind == {"Publish", "Update", "Rollback", "Unpublish"}

PublishCheckpoint ==
    {"Requested", "Packaging", "ReleaseValidated", "DesiredStateCommitted",
     "Reconciling", "WorkloadReady", "TrafficSwitched", "ExternalProbePassed",
     "Completed"}

PublishOperationStatus ==
    PublishCheckpoint \cup {"Failed", "Cancelled", "ReconcileRequired"}

is_terminal(status) == status \in {"Completed", "Failed", "Cancelled"}

WorkRuntimeStatus ==
    {"Unpublished", "Publishing", "Published", "Updating", "Unpublishing",
     "PublishFailed", "UpdateFailed", "ReconcileRequired"}

PublicationIntent ==
    [kind : PublishOperationKind,
     release : Option(Releases),
     expectedCurrent : Option(Releases),
     expectedGeneration : Nat]

PublishOperation ==
    [request : PublicationIntent,
     gen : Nat,
     status : PublishOperationStatus,
     checkpoint : PublishCheckpoint]

WorkRuntimeState ==
    [publication : {"Published", "Unpublished"},
     desired : Option(Releases),
     current : Option(Releases),
     previous : Option(Releases),
     lastSuccessful : Option(Releases),
     gen : Nat,
     observed : Nat,
     status : WorkRuntimeStatus,
     host : Option(Hosts),
     dep : Option(DepIds),
     svc : Option(SvcIds),
     ing : Option(IngIds)]

PublicationOutboxEvent ==
    [gen : Nat, status : {"Pending", "Delivered"}, attempts : 0..BackoffCap]

PublicationSnapshot ==
    [runtimes : [Projects -> WorkRuntimeState],
     operations : [OpId -> PublishOperation],
     outbox : [OpId -> PublicationOutboxEvent]]

NoIntent ==
    [kind |-> "Publish", release |-> None, expectedCurrent |-> None,
     expectedGeneration |-> 0]

NoOperation ==
    [request |-> NoIntent, gen |-> 0, status |-> "Requested",
     checkpoint |-> "Requested"]

NoEvent == [gen |-> 0, status |-> "Pending", attempts |-> 0]

initial_runtime ==
    [publication |-> "Unpublished", desired |-> None, current |-> None,
     previous |-> None, lastSuccessful |-> None, gen |-> 0, observed |-> 0,
     status |-> "Unpublished", host |-> None, dep |-> None, svc |-> None,
     ing |-> None]

EmptySnapshot ==
    [runtimes |-> [p \in Projects |-> initial_runtime],
     operations |-> [id \in OpId |-> NoOperation],
     outbox |-> [id \in OpId |-> NoEvent]]

Known(s, id) == s.operations[id].gen > 0

RuntimeOf(s, id) == s.runtimes[id[1]]

(* The operation that owns the desired generation of its project. *)
IsCurrent(s, id) ==
    /\ Known(s, id)
    /\ s.operations[id].gen = RuntimeOf(s, id).gen

-----------------------------------------------------------------------------
(* Persistence *)

(* apply_commit_with_key: the three records of a commit replace the old ones *)
apply_commit(s, id, op, rt, ev) ==
    [runtimes |-> [s.runtimes EXCEPT ![id[1]] = rt],
     operations |-> [s.operations EXCEPT ![id] = op],
     outbox |-> [s.outbox EXCEPT ![id] = ev]]

validate_snapshot(s) ==
    /\ \A p \in Projects :
         /\ s.runtimes[p].observed <= s.runtimes[p].gen
         /\ (s.runtimes[p].publication = "Published") <=> (s.runtimes[p].desired # None)
    /\ \A id \in OpId : Known(s, id) =>
         /\ s.outbox[id].gen = s.operations[id].gen
         /\ s.operations[id].gen <= RuntimeOf(s, id).gen

Persisted_MemoryOnly(next) ==
    /\ validate_snapshot(next)
    /\ mem' = next
    /\ disk' = disk

(* persist_commit succeeds: journal, mirror and checkpoint are written, then memory *)
Persisted(next) ==
    /\ validate_snapshot(next)
    /\ mem' = next
    /\ disk' = next

(* persist_commit returns Err: memory keeps the old snapshot.  Before the  *)
(* journal record is durable nothing is left; after it, a restart          *)
(* recovers the commit although the caller saw an error, unless an earlier *)
(* failed commit already holds the same sequence number.                   *)
PersistFailed(next) ==
    /\ validate_snapshot(next)
    /\ mem' = mem
    /\ disk' \in {disk, next}

persist_commit(next) == Persisted(next) \/ PersistFailed(next)

-----------------------------------------------------------------------------
(* commit_intent *)

validate(intent) ==
    /\ (intent.kind = "Unpublish") <=> (intent.release = None)
    /\ intent.kind \in {"Update", "Rollback"} => intent.expectedCurrent # None

validate_compare_and_set(rt, intent) ==
    /\ intent.expectedGeneration = rt.gen
    /\ intent.expectedCurrent # None => intent.expectedCurrent = rt.current
    /\ intent.kind = "Publish" => rt.publication # "Published"
    /\ intent.kind \in {"Update", "Rollback"} => rt.current # None

FreeHosts_Unchecked(s) == Hosts

(* allocate_host_slug only matters for a project's first commit *)
FreeHosts(s) == Hosts \ {s.runtimes[p].host : p \in Projects}

StatusOfKind(kind) ==
    CASE kind = "Publish" -> "Publishing"
      [] kind = "Unpublish" -> "Unpublishing"
      [] OTHER -> "Updating"

IntentCommit_SameGeneration(s, id, intent, host) ==
    LET rt == RuntimeOf(s, id)
        gen == IF rt.gen = 0 THEN 1 ELSE rt.gen
    IN apply_commit(s, id,
         [request |-> intent, gen |-> gen,
          status |-> "DesiredStateCommitted",
          checkpoint |-> "DesiredStateCommitted"],
         [rt EXCEPT !.gen = gen,
                    !.desired = intent.release,
                    !.publication = IF intent.kind = "Unpublish"
                                    THEN "Unpublished" ELSE "Published",
                    !.status = StatusOfKind(intent.kind),
                    !.host = IF rt.gen = 0 THEN host ELSE rt.host],
         [gen |-> gen, status |-> "Pending", attempts |-> 0])

IntentCommit(s, id, intent, host) ==
    LET rt == RuntimeOf(s, id)
        gen == rt.gen + 1
    IN apply_commit(s, id,
         [request |-> intent, gen |-> gen,
          status |-> "DesiredStateCommitted",
          checkpoint |-> "DesiredStateCommitted"],
         [rt EXCEPT !.gen = gen,
                    !.desired = intent.release,
                    !.publication = IF intent.kind = "Unpublish"
                                    THEN "Unpublished" ELSE "Published",
                    !.status = StatusOfKind(intent.kind),
                    !.host = IF rt.gen = 0 THEN host ELSE rt.host],
         [gen |-> gen, status |-> "Pending", attempts |-> 0])

(* The history records the intent and generation a client was told of *)
Acknowledge(id) ==
    acked' = [acked EXCEPT ![id] =
                [request |-> mem'.operations[id].request,
                 gen |-> mem'.operations[id].gen]]

commit_intent(id, intent) ==
    /\ phase = "serving"
    /\ validate(intent)
    /\ ~Known(mem, id)
    /\ validate_compare_and_set(RuntimeOf(mem, id), intent)
    /\ \E host \in FreeHosts(mem) :
         LET next == IntentCommit(mem, id, intent, host)
         IN \/ Persisted(next) /\ Acknowledge(id)
            \/ PersistFailed(next) /\ UNCHANGED acked
    /\ UNCHANGED phase

(* A key that is already bound: the same request returns the operation,    *)
(* a different one is a conflict and changes nothing.                      *)
commit_intent_retry(id, intent) ==
    /\ phase = "serving"
    /\ Known(mem, id)
    /\ mem.operations[id].request = intent
    /\ UNCHANGED <<mem, disk, phase>>
    /\ Acknowledge(id)

-----------------------------------------------------------------------------
(* update_outbox: every report about an event goes through this guard *)

Updatable_Stale(s, id) ==
    /\ Known(s, id)
    /\ s.operations[id].gen = s.outbox[id].gen

Updatable(s, id) ==
    /\ Known(s, id)
    /\ s.operations[id].gen = s.outbox[id].gen
    /\ RuntimeOf(s, id).gen = s.outbox[id].gen

Report(id, next) ==
    /\ phase = "serving"
    /\ Updatable(mem, id)
    /\ persist_commit(next)
    /\ UNCHANGED <<phase, acked>>

DeliveryAttempt(s, id) ==
    LET ev == s.outbox[id] IN
    apply_commit(s, id, s.operations[id], RuntimeOf(s, id),
        IF ev.status = "Delivered" THEN ev
        ELSE [ev EXCEPT !.attempts = IF @ < BackoffCap THEN @ + 1 ELSE @])

(* The controller calls it without an error, when the backend deferred *)
record_delivery_attempt(id) == Report(id, DeliveryAttempt(mem, id))

Delivered(s, id) ==
    apply_commit(s, id,
        [s.operations[id] EXCEPT !.status = "Reconciling", !.checkpoint = "Reconciling"],
        RuntimeOf(s, id),
        [s.outbox[id] EXCEPT !.status = "Delivered"])

record_delivered(id) == Report(id, Delivered(mem, id))

(* Evidence of a ready, identity-verified workload; the Ingress identity   *)
(* and the external probe come together or not at all.                     *)
WorkloadReady(s, id, dep, svc, ing) ==
    LET rt == RuntimeOf(s, id)
        op == s.operations[id]
        previous == IF rt.current # rt.desired THEN rt.current ELSE rt.previous
    IN apply_commit(s, id,
         CASE ing # None ->
                [op EXCEPT !.status = "Completed", !.checkpoint = "Completed"]
           [] ing = None /\ op.status \notin
                {"TrafficSwitched", "ExternalProbePassed", "Completed"} ->
                [op EXCEPT !.status = "WorkloadReady", !.checkpoint = "WorkloadReady"]
           [] OTHER -> op,
         [rt EXCEPT !.previous = previous,
                    !.current = rt.desired,
                    !.lastSuccessful = rt.desired,
                    !.dep = dep,
                    !.svc = svc,
                    !.ing = IF ing # None THEN ing ELSE rt.ing,
                    !.observed = rt.gen,
                    !.status = CASE ing # None \/ rt.status = "Published" -> "Published"
                                 [] previous # None -> "Updating"
                                 [] OTHER -> "Publishing"],
         [s.outbox[id] EXCEPT !.status = "Delivered"])

record_workload_ready(id, dep, svc, ing) ==
    /\ RuntimeOf(mem, id).desired # None
    /\ Report(id, WorkloadReady(mem, id, dep, svc, ing))

(* The selector moved to the target release: current stays at blue *)
TrafficSwitched(s, id, svc, ing) ==
    LET rt == RuntimeOf(s, id) IN
    apply_commit(s, id,
        [s.operations[id] EXCEPT !.status = "TrafficSwitched",
                                 !.checkpoint = "TrafficSwitched"],
        [rt EXCEPT !.svc = svc,
                   !.ing = IF ing # None THEN ing ELSE rt.ing,
                   !.status = "Updating"],
        [s.outbox[id] EXCEPT !.status = "Pending"])

record_traffic_switched(id, svc, ing) ==
    /\ RuntimeOf(mem, id).current # RuntimeOf(mem, id).desired
    /\ Report(id, TrafficSwitched(mem, id, svc, ing))

Unpublished_NotObserved(s, id) ==
    LET rt == RuntimeOf(s, id) IN
    apply_commit(s, id,
        [s.operations[id] EXCEPT !.status = "Completed", !.checkpoint = "Completed"],
        [rt EXCEPT !.previous = rt.current, !.current = None,
                   !.dep = None, !.svc = None, !.ing = None,
                   !.status = "Unpublished"],
        [s.outbox[id] EXCEPT !.status = "Delivered"])

Unpublished(s, id) ==
    LET rt == RuntimeOf(s, id) IN
    apply_commit(s, id,
        [s.operations[id] EXCEPT !.status = "Completed", !.checkpoint = "Completed"],
        [rt EXCEPT !.previous = rt.current, !.current = None,
                   !.dep = None, !.svc = None, !.ing = None,
                   !.observed = rt.gen, !.status = "Unpublished"],
        [s.outbox[id] EXCEPT !.status = "Delivered"])

record_unpublished(id) ==
    /\ RuntimeOf(mem, id).publication = "Unpublished"
    /\ RuntimeOf(mem, id).desired = None
    /\ Report(id, Unpublished(mem, id))

ReconcileFailure_KeepsStatus(s, id) ==
    apply_commit(s, id,
        s.operations[id],
        [RuntimeOf(s, id) EXCEPT !.status = "ReconcileRequired"],
        [s.outbox[id] EXCEPT !.status = "Pending"])

ReconcileFailure(s, id) ==
    apply_commit(s, id,
        [s.operations[id] EXCEPT !.status = "ReconcileRequired"],
        [RuntimeOf(s, id) EXCEPT !.status = "ReconcileRequired"],
        [s.outbox[id] EXCEPT !.status = "Pending"])

record_reconcile_failure(id) == Report(id, ReconcileFailure(mem, id))

RecreationAuthorized(s, id) ==
    apply_commit(s, id,
        [s.operations[id] EXCEPT !.status = "ReconcileRequired"],
        [RuntimeOf(s, id) EXCEPT !.status = "ReconcileRequired", !.dep = None],
        [s.outbox[id] EXCEPT !.status = "Pending"])

(* The event is looked up under one lock and updated under another; the    *)
(* second repeats the UID and generation checks, so the call takes effect  *)
(* there or not at all.                                                    *)
authorize_deployment_recreation(id, uid) ==
    /\ IsCurrent(mem, id)
    /\ RuntimeOf(mem, id).dep = uid
    /\ Report(id, RecreationAuthorized(mem, id))

-----------------------------------------------------------------------------
(* Restart *)

ReplayCandidate(s, id) ==
    /\ Known(s, id)
    /\ s.outbox[id].status = "Delivered"
    /\ ~is_terminal(s.operations[id].status)
    /\ RuntimeOf(s, id).gen = s.outbox[id].gen
    /\ RuntimeOf(s, id).observed < s.outbox[id].gen

Replayed(s, id) ==
    apply_commit(s, id,
        [s.operations[id] EXCEPT !.status = "ReconcileRequired"],
        RuntimeOf(s, id),
        [s.outbox[id] EXCEPT !.status = "Pending"])

(* The process stops at any point; open_with_mirror rebuilds the snapshot *)
CrashAndOpen ==
    /\ mem' = disk
    /\ phase' = "recovering"
    /\ UNCHANGED <<disk, acked>>

(* One candidate of replay_nonterminal_outbox.  A storage error here stops *)
(* the process again, which is CrashAndOpen.                               *)
replay_nonterminal_outbox(id) ==
    /\ phase = "recovering"
    /\ ReplayCandidate(mem, id)
    /\ persist_commit(Replayed(mem, id))
    /\ UNCHANGED <<phase, acked>>

RecoveryComplete ==
    /\ phase = "recovering"
    /\ \A id \in OpId : ~ReplayCandidate(mem, id)
    /\ phase' = "serving"
    /\ UNCHANGED <<mem, disk, acked>>

-----------------------------------------------------------------------------
Init ==
    /\ mem = EmptySnapshot
    /\ disk = EmptySnapshot
    /\ phase = "serving"
    /\ acked = [id \in OpId |-> [request |-> NoIntent, gen |-> 0]]

(* A client acts on a generation and a current release it read earlier *)
ClientStep(id) ==
    \/ \E kind \in PublishOperationKind, release, current \in Option(Releases),
          gen \in 0..RuntimeOf(mem, id).gen :
         commit_intent(id, [kind |-> kind, release |-> release,
                            expectedCurrent |-> current, expectedGeneration |-> gen])
    \/ commit_intent_retry(id, mem.operations[id].request)

(* The controller reports only outcomes that fit what it was asked to do:  *)
(* deliveries of Pending events, traffic switches of published work.       *)
ReportStep(id) ==
    \/ mem.outbox[id].status = "Pending" /\ record_delivery_attempt(id)
    \/ mem.outbox[id].status = "Pending" /\ record_delivered(id)
    \/ \E dep \in DepIds, svc \in SvcIds, ing \in Option(IngIds) :
         record_workload_ready(id, dep, svc, ing)
    \/ /\ RuntimeOf(mem, id).publication = "Published"
       /\ \E svc \in SvcIds, ing \in Option(IngIds) : record_traffic_switched(id, svc, ing)
    \/ record_unpublished(id)
    \/ record_reconcile_failure(id)
    \/ \E uid \in DepIds : authorize_deployment_recreation(id, uid)

Next ==
    \/ \E id \in OpId :
         \/ ClientStep(id)
         \/ ReportStep(id)
         \/ replay_nonterminal_outbox(id)
    \/ CrashAndOpen
    \/ RecoveryComplete

Spec == Init /\ [][Next]_vars

-----------------------------------------------------------------------------
(* Properties *)

(* Every record has the shape the Rust types give it. *)
TypeOK ==
    /\ mem \in PublicationSnapshot
    /\ disk \in PublicationSnapshot
    /\ phase \in {"recovering", "serving"}
    /\ acked \in [OpId -> [request : PublicationIntent, gen : Nat]]

OneOwnerPerGeneration(s) ==
    /\ \A p \in Projects : \A g \in 1..s.runtimes[p].gen :
         \E k \in Keys : s.operations[<<p, k>>].gen = g
    /\ \A p \in Projects, k1, k2 \in Keys :
         /\ s.operations[<<p, k1>>].gen = s.operations[<<p, k2>>].gen
         /\ s.operations[<<p, k1>>].gen > 0
         => k1 = k2

(* The expectedGeneration compare-and-set of commit_intent serialises       *)
(* intents: every desired generation a project ever had belongs to exactly  *)
(* one operation, in memory and in what a restart recovers, even when       *)
(* commits that were reported as failed come back after a restart.          *)
GenerationOwned == OneOwnerPerGeneration(mem) /\ OneOwnerPerGeneration(disk)

Holds(s, id, ack) ==
    s.operations[id].gen = ack.gen /\ s.operations[id].request = ack.request

(* An operation reported Ok to a client keeps its request and generation    *)
(* for ever, whatever storage errors and restarts follow                    *)
(* (persist_commit, open_with_mirror).                                      *)
AckedNeverLost ==
    \A id \in OpId : acked[id].gen > 0 =>
        Holds(mem, id, acked[id]) /\ Holds(disk, id, acked[id])

StillQueued(s) ==
    \A p \in Projects : s.runtimes[p].observed < s.runtimes[p].gen =>
        \E k \in Keys :
          /\ IsCurrent(s, <<p, k>>)
          /\ ~is_terminal(s.operations[<<p, k>>].status)
          /\ \/ s.outbox[<<p, k>>].status = "Pending"
             \/ ReplayCandidate(s, <<p, k>>)

(* A desired generation that is not observed yet always has a live          *)
(* operation whose outbox event is Pending, or is put back to Pending by    *)
(* replay_nonterminal_outbox at the next start.                             *)
DesiredNeverForgotten == StillQueued(mem) /\ StillQueued(disk)

CompletionEarned(s) ==
    \A id \in OpId :
        IsCurrent(s, id) /\ s.operations[id].status = "Completed" =>
          /\ RuntimeOf(s, id).observed = RuntimeOf(s, id).gen
          /\ RuntimeOf(s, id).current = RuntimeOf(s, id).desired
          /\ s.outbox[id].status = "Delivered"

(* The current operation is Completed only in a state where its release is  *)
(* the observed current release (none after an unpublish) and nothing is    *)
(* left in the outbox.                                                      *)
CompletedIsObserved == CompletionEarned(mem) /\ CompletionEarned(disk)

(* Once a newer generation is committed, the operations of the older ones   *)
(* never change again: late reports of a superseded reconcile are rejected  *)
(* by update_outbox.                                                        *)
SupersededFrozen ==
    [][\A id \in OpId :
         Known(mem, id) /\ mem.operations[id].gen < RuntimeOf(mem, id).gen
         => mem'.operations[id] = mem.operations[id]]_vars

(* Generations never run backwards in memory, not even across a restart,    *)
(* and a host slug that a client was told of is never allocated again.      *)
NeverBackwards ==
    [][\A p \in Projects :
         /\ mem.runtimes[p].gen <= mem'.runtimes[p].gen
         /\ mem.runtimes[p].observed <= mem'.runtimes[p].observed
         /\ mem.runtimes[p].gen > 0 => mem'.runtimes[p].host = mem.runtimes[p].host]_vars

(* No two projects share a host slug, in memory or after a restart, even    *)
(* when a commit that allocated one was reported as failed                  *)
(* (allocate_host_slug).                                                    *)
HostsUnique ==
    \A s \in {mem, disk}, p, q \in Projects :
        p # q /\ s.runtimes[p].host = s.runtimes[q].host
        => s.runtimes[p].host = None
=============================================================================
